---------------------------- MODULE MCBackupRun ----------------------------
(* BackupRun for TLC: a one-time backup and a scheduled one that keep one   *)
(* object, and specs that no run may start for.                             *)
EXTENDS BackupRun

CONSTANTS p1, p2

Base == [schedule |-> "cron", suspend |-> FALSE, allowed |-> TRUE, retention |-> 1]
ManySpecs == {Base, [Base EXCEPT !.schedule = "once", !.retention = 0],
              [Base EXCEPT !.suspend = TRUE], [Base EXCEPT !.allowed = FALSE],
              [Base EXCEPT !.schedule = "invalid"]}
=============================================================================
