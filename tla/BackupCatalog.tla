--------------------------- MODULE BackupCatalog ---------------------------
(***************************************************************************)
(* What a RedisBackup promises about the objects under its prefix: every   *)
(* run that stores one adds the newest, only the newest is ever reported,  *)
(* and retention never removes the newest. A restore can therefore always  *)
(* be fed something at least as recent as what status last named.          *)
(***************************************************************************)
EXTENDS Integers

CONSTANT MaxRuns   \* bound on runs

VARIABLES stored, reported

catalog == <<stored, reported>>

Runs == 1..MaxRuns

Newest(n) == n \in stored /\ \A o \in stored : o <= n

CatalogInit == stored = {} /\ reported = 0

\* A run stores its object, which is newer than any other.
Store(n) ==
    /\ \A o \in stored : o < n
    /\ stored' = stored \cup {n}
    /\ UNCHANGED reported

\* Retention removes any objects but the newest.
Expire(n, gone) ==
    /\ Newest(n) /\ n \notin gone
    /\ stored' = stored \ gone
    /\ UNCHANGED reported

\* Status names the newest object.
ReportNewest(n) ==
    /\ Newest(n)
    /\ reported' = n
    /\ UNCHANGED stored

\* The RedisBackup is deleted; the objects stay.
Forget == reported' = 0 /\ UNCHANGED stored

CatalogNext ==
    \/ \E n \in Runs : Store(n) \/ ReportNewest(n)
    \/ \E n \in Runs : \E gone \in SUBSET stored : Expire(n, gone)
    \/ Forget

CatalogSpec == CatalogInit /\ [][CatalogNext]_catalog

\* The object that was reported is there, or a newer one is.
Covered == reported # 0 => \E o \in stored : o >= reported
=============================================================================
