----------------------------- MODULE BackupRun -----------------------------
(***************************************************************************)
(* A RedisBackup (internal/controller/redisbackup_controller.go): when a   *)
(* pass starts a run, which pod it asks for BGSAVE and how it decides that *)
(* the save is done, the upload to S3, retention, and what status says.    *)
(* Redis saves by itself too, restarts and takes writes, the user edits or *)
(* deletes the RedisBackup, calls fail or lose their answer, and the       *)
(* operator may die at any step.                                           *)
(*                                                                         *)
(* Abstractions: a dataset is the number of writes it holds. Time is when  *)
(* timers fire and slots of the schedule pass; LASTSAVE is kept as whether *)
(* it is later than when the run read it, and two saves may fall in one    *)
(* second. Objects are named by the run that stored them: their time of    *)
(* modification has the order of the runs, which never overlap. Objects    *)
(* that no RedisBackup wrote are left out.                                 *)
(***************************************************************************)
EXTENDS Integers, FiniteSets

CONSTANTS
    Pods, NoPod,
    Specs,      \* specs the user may give: schedule, suspend, allowed, retention
    MaxRuns,    \* bound on runs that reach S3
    MaxWrites,  \* bound on writes to a pod
    MaxSlots,   \* bound on slots of the schedule
    MaxEdits,   \* bound on edits and deletions of the RedisBackup
    MaxFaults   \* bound on failed calls, restarts, role changes and crashes

Schedules == {"once", "cron", "invalid"}
SpecType == [schedule : Schedules, suspend : BOOLEAN, allowed : BOOLEAN, retention : Nat]

ASSUME SpecsAssumption == Specs \subseteq SpecType /\ Specs # {}
ASSUME BoundsAssumption ==
    /\ MaxRuns \in Nat /\ MaxWrites \in Nat /\ MaxSlots \in Nat
    /\ MaxEdits \in Nat /\ MaxFaults \in Nat
ASSUME PodsAssumption == Pods # {} /\ NoPod \notin Pods

NoDump == -1

VARIABLES
    cr,       \* the RedisBackup: absent, new, with its finalizer or deleting, and its spec
    status,   \* its status: phase, LastBackupTime set, location and whose keys were counted
    due,      \* a slot of the schedule has passed since LastBackupTime
    queued,   \* the reconciler's queue holds the RedisBackup
    timer,    \* a RequeueAfter is pending
    pc, held, \* where the pass is, and the RedisBackup it read
    stale,    \* the RedisBackup was edited since the pass read it
    run,      \* object number, pod, snapshot asked for, key count, stream and doomed objects
    redis,    \* persistence of each pod
    objects,  \* objects in the bucket, by run
    uploads,  \* multipart uploads in progress, by run
    count,    \* slots, edits and faults so far
    seen      \* history: what excuses a deviation, and what called for a run

vars == <<cr, status, due, queued, timer, pc, held, stale, run, redis, objects, uploads,
          count, seen>>
crVars == <<cr, due, timer>>
bucket == <<objects, uploads>>

NoStatus == [phase |-> "Pending", last |-> FALSE, location |-> 0, counted |-> 0]
NoRun == [n |-> 0, pod |-> NoPod, asked |-> 0, clean |-> FALSE, counted |-> FALSE, content |-> 0,
          doomed |-> {}]

Dataset == 0..MaxWrites
Dump == Dataset \cup {NoDump}
Steps == {"idle", "check", "choose", "trigger", "bgsave", "lastsave", "wait", "compare", "count",
          "open", "cat", "stream", "abort", "failed", "list", "delete", "report"}

CRType == [state : {"absent", "new", "live", "deleting"}, spec : Specs]
StatusType == [phase : {"Pending", "Running", "Completed", "Failed", "Suspended", "Degraded"},
               last : BOOLEAN, location : 0..MaxRuns, counted : 0..MaxRuns]
RunType == [n : 0..MaxRuns, pod : Pods \cup {NoPod}, asked : Dataset, clean : BOOLEAN,
            counted : BOOLEAN, content : Dataset, doomed : SUBSET (1..MaxRuns)]
PodType == [role : {"master", "replica", "down"}, data : Dataset, dump : Dump,
            saving : Dump, saved : Dataset, ok : BOOLEAN, newer : BOOLEAN]
CountType == [slots : 0..MaxSlots, edits : 0..MaxEdits, faults : 0..MaxFaults]
SeenType == [restart : BOOLEAN, leaked : SUBSET (1..MaxRuns), lost : BOOLEAN,
             woken : BOOLEAN, reason : BOOLEAN]

TypeOK ==
    /\ cr \in CRType /\ held \in CRType /\ status \in StatusType
    /\ due \in BOOLEAN /\ queued \in BOOLEAN /\ timer \in BOOLEAN /\ stale \in BOOLEAN
    /\ pc \in Steps /\ run \in RunType /\ redis \in [Pods -> PodType]
    /\ objects \subseteq 1..MaxRuns /\ uploads \subseteq 1..MaxRuns
    /\ count \in CountType /\ seen \in SeenType

Init ==
    /\ cr \in [state : {"new"}, spec : Specs] /\ held = cr
    /\ status = NoStatus
    /\ due = FALSE /\ queued = TRUE /\ timer = FALSE /\ stale = FALSE
    /\ pc = "idle" /\ run = NoRun
    /\ \E role \in [Pods -> {"master", "replica"}] :
           /\ \A p, q \in Pods : role[p] = "master" /\ role[q] = "master" => p = q
           /\ redis = [p \in Pods |-> [role |-> role[p], data |-> 0, dump |-> NoDump,
                                       saving |-> NoDump, saved |-> 0, ok |-> TRUE, newer |-> FALSE]]
    /\ objects = {} /\ uploads = {}
    /\ count = [slots |-> 0, edits |-> 0, faults |-> 0]
    /\ seen = [restart |-> FALSE, leaked |-> {}, lost |-> FALSE, woken |-> TRUE,
               reason |-> FALSE]

-----------------------------------------------------------------------------
(* Parts of steps.                                                         *)

Fault == count.faults < MaxFaults /\ count' = [count EXCEPT !.faults = @ + 1]
NoFault == UNCHANGED count

At(step) == pc = step
Goto(step) == pc' = step

\* Mutant: no predicate, so a status write wakes the reconciler too.
WakesByAnything(change) == TRUE

\* SetupWithManager: GenerationChangedPredicate passes edits of the spec and deletions.
Wakes(change) == change = "spec"

\* Status().Update of the object the pass holds; an error, a conflict among them, is
\* only logged.
Written(s) == status' = s /\ queued' = (queued \/ Wakes("status"))
NotWritten == UNCHANGED <<status, queued>>
WriteStatus(s) ==
    \/ ~stale /\ Written(s) /\ NoFault
    \/ NotWritten /\ (Fault \/ (stale /\ NoFault))

Phase(phase) == [status EXCEPT !.phase = phase]

\* The locals of a pass end with it; the number is the last object name taken.
EndRun == run' = [NoRun EXCEPT !.n = run.n]

\* shouldBackup
ShouldBackup(s) == IF s.schedule = "once" THEN ~status.last ELSE due

-----------------------------------------------------------------------------
(* Reconcile                                                               *)

\* The pass takes the RedisBackup off the queue and reads it. History: woken, that an edit,
\* a timer or the start of the operator happened since the last pass began; reason, that one
\* happened before this pass began, and no run and no finished pass has answered it.
Begin ==
    /\ At("idle") /\ queued
    /\ queued' = FALSE /\ Goto("check")
    /\ held' = cr /\ stale' = FALSE
    /\ seen' = [seen EXCEPT !.woken = FALSE, !.reason = @ \/ seen.woken]
    /\ UNCHANGED <<crVars, status, run, redis, bucket, count>>

\* The pass returns an error and is retried.
Retry ==
    /\ Fault \/ (stale /\ NoFault)
    /\ Goto("idle") /\ queued' = TRUE
    /\ UNCHANGED <<crVars, status, held, stale, run, redis, bucket, seen>>

\* The pass ends without a run.
NoRunNeeded == Goto("idle") /\ seen' = [seen EXCEPT !.reason = FALSE]

NotFound ==
    /\ At("check") /\ held.state = "absent" /\ NoRunNeeded
    /\ UNCHANGED <<crVars, status, queued, held, stale, run, redis, bucket, count>>

\* handleDeletion: the objects stay.
HandleDeletion ==
    /\ At("check") /\ held.state = "deleting"
    /\ \/ /\ ~stale /\ NoRunNeeded
          /\ cr' = [cr EXCEPT !.state = "absent"] /\ status' = NoStatus
          /\ UNCHANGED <<due, timer, queued, held, stale, run, redis, bucket, count>>
       \/ Retry

AddFinalizer ==
    /\ At("check") /\ held.state = "new"
    /\ \/ /\ ~stale
          /\ cr' = [cr EXCEPT !.state = "live"] /\ held' = cr'
          /\ UNCHANGED <<due, timer, status, queued, pc, stale, run, redis, bucket, count, seen>>
       \/ Retry

Live == At("check") /\ held.state = "live"
Refused(s) == s.schedule = "invalid" \/ s.suspend \/ ~s.allowed

\* A pass that starts no run: status says why.
Refuse(phase) ==
    /\ WriteStatus(Phase(phase)) /\ NoRunNeeded
    /\ UNCHANGED <<cr, due, held, stale, run, redis, bucket>>

\* parseSchedule and setDegraded: only an edit is waited for.
RejectSchedule ==
    /\ Live /\ held.spec.schedule = "invalid"
    /\ Refuse("Degraded") /\ UNCHANGED timer
Suspend ==
    /\ Live /\ held.spec.schedule # "invalid" /\ held.spec.suspend
    /\ Refuse("Suspended") /\ timer' = TRUE
\* markDestinationRejected
RejectDestination ==
    /\ Live /\ held.spec.schedule # "invalid" /\ ~held.spec.suspend /\ ~held.spec.allowed
    /\ Refuse("Failed") /\ timer' = TRUE

NotYet ==
    /\ Live /\ ~Refused(held.spec) /\ ~ShouldBackup(held.spec) /\ NoRunNeeded
    /\ timer' = (timer \/ held.spec.schedule = "cron")
    /\ UNCHANGED <<cr, status, due, queued, held, stale, run, redis, bucket, count>>

StartRun ==
    /\ Live /\ ~Refused(held.spec) /\ ShouldBackup(held.spec)
    /\ Goto("choose")
    /\ WriteStatus(Phase("Running"))
    /\ seen' = [seen EXCEPT !.restart = FALSE, !.reason = FALSE]
    /\ UNCHANGED <<crVars, held, stale, run, redis, bucket>>

\* Mutant: the key count is written before its object exists.
ReportFailureWithCount ==
    /\ At("failed") /\ Goto("idle")
    /\ WriteStatus([status EXCEPT !.phase = "Failed", !.counted = IF run.counted THEN run.n ELSE @])
    /\ timer' = TRUE /\ EndRun
    /\ UNCHANGED <<cr, due, held, stale, redis, bucket, seen>>

\* Mutant: a failed run asks for no retry.
ReportFailureNoRetry ==
    /\ At("failed") /\ Goto("idle")
    /\ WriteStatus(Phase("Failed"))
    /\ UNCHANGED timer /\ EndRun
    /\ UNCHANGED <<cr, due, held, stale, redis, bucket, seen>>

\* Mutant: a failed run is returned as an error, which the queue retries at once.
ReportFailureAsError ==
    /\ At("failed") /\ Goto("idle")
    /\ \E s \in {status, Phase("Failed")} : status' = s
    /\ queued' = TRUE /\ EndRun /\ NoFault
    /\ UNCHANGED <<cr, due, timer, held, stale, redis, bucket, seen>>

\* The run failed: the retry is paced by the timer, not by the rate limiter.
ReportFailure ==
    /\ At("failed") /\ Goto("idle")
    /\ WriteStatus(Phase("Failed"))
    /\ timer' = TRUE /\ EndRun
    /\ UNCHANGED <<cr, due, held, stale, redis, bucket, seen>>

\* updateStatus: LastBackupTime, location and key count in one write.
ReportCompleted ==
    /\ At("report") /\ Goto("idle")
    /\ \/ /\ ~stale /\ NoFault
          /\ Written([phase |-> "Completed", last |-> TRUE, location |-> run.n,
                      counted |-> IF run.counted THEN run.n ELSE 0])
          /\ due' = FALSE /\ UNCHANGED seen
       \/ /\ Fault \/ (stale /\ NoFault)
          /\ NotWritten
          /\ seen' = [seen EXCEPT !.lost = TRUE] /\ UNCHANGED due
    /\ timer' = (timer \/ held.spec.schedule = "cron") /\ EndRun
    /\ UNCHANGED <<cr, held, stale, redis, bucket>>

-----------------------------------------------------------------------------
(* performBackup: the pod and its BGSAVE                                   *)

notRedis == <<crVars, status, queued, held, stale, bucket>>

Replicas == {p \in Pods : redis[p].role = "replica"}
Masters == {p \in Pods : redis[p].role = "master"}

\* getBackupPod: a replica whose link is up, otherwise a master; a pod whose probe
\* fails is passed over.
GetBackupPod ==
    /\ At("choose") /\ UNCHANGED <<notRedis, redis, seen>>
    /\ \/ \E p \in IF Replicas # {} THEN Replicas ELSE Masters :
              run' = [run EXCEPT !.pod = p] /\ Goto("trigger") /\ NoFault
       \/ \E p \in Masters : run' = [run EXCEPT !.pod = p] /\ Goto("trigger") /\ Fault
       \/ Goto("failed") /\ UNCHANGED run /\ (Fault \/ (Replicas \cup Masters = {} /\ NoFault))

Pod == redis[run.pod]
Up == Pod.role # "down"

\* A call to the run's pod that fails the run.
CallFails(step) ==
    /\ At(step) /\ Goto("failed")
    /\ Fault \/ (~Up /\ NoFault)
    /\ UNCHANGED <<notRedis, run, redis, seen>>

\* triggerBGSave: a save in progress will do.
TriggerBGSave ==
    \/ /\ At("trigger") /\ Up /\ NoFault
       /\ \/ /\ Pod.saving # NoDump /\ Goto("lastsave")
             /\ run' = [run EXCEPT !.asked = Pod.saving]
          \/ Pod.saving = NoDump /\ Goto("bgsave") /\ UNCHANGED run
       /\ UNCHANGED <<notRedis, redis, seen>>
    \/ CallFails("trigger")

Fork(p) == redis' = [redis EXCEPT ![p].saving = redis[p].data]

\* BGSAVE: Redis forks, or is already saving; the answer may be lost.
BGSave ==
    /\ At("bgsave") /\ UNCHANGED <<notRedis, seen>>
    /\ \/ /\ Up /\ Pod.saving = NoDump /\ Fork(run.pod)
          /\ \/ NoFault /\ run' = [run EXCEPT !.asked = Pod.data] /\ Goto("lastsave")
             \/ Fault /\ Goto("failed") /\ UNCHANGED run
       \/ /\ Up /\ Pod.saving # NoDump /\ NoFault /\ Goto("lastsave")
          /\ run' = [run EXCEPT !.asked = Pod.saving] /\ UNCHANGED redis
       \/ (Fault \/ (~Up /\ NoFault)) /\ Goto("failed") /\ UNCHANGED <<run, redis>>

\* waitForBGSave reads LASTSAVE,
LastSave ==
    \/ /\ At("lastsave") /\ Up /\ NoFault /\ Goto("wait")
       /\ redis' = [redis EXCEPT ![run.pod].newer = FALSE]
       /\ UNCHANGED <<notRedis, run, seen>>
    \/ CallFails("lastsave")

\* Mutant: rdb_last_bgsave_status alone ends the wait.
PersistenceInfoByOutcome ==
    /\ At("wait") /\ Up /\ NoFault
    /\ Goto(IF Pod.ok THEN "count" ELSE "failed")
    /\ UNCHANGED <<notRedis, run, redis, seen>>

\* polls INFO until no save is in progress: a failed save fails the run,
PersistenceInfo ==
    /\ At("wait") /\ Up /\ Pod.saving = NoDump /\ NoFault
    /\ IF Pod.ok
       THEN Goto("compare") /\ run' = [run EXCEPT !.clean = Pod.saved = Pod.data]
       ELSE Goto("failed") /\ UNCHANGED run
    /\ UNCHANGED <<notRedis, redis, seen>>

\* a later LASTSAVE or a dataset without changes ends the wait, and an error or
\* neither of the two is polled again;
CompareLastSave ==
    /\ At("compare") /\ UNCHANGED <<notRedis, run, redis, seen>>
    /\ \/ Up /\ NoFault /\ Goto(IF Pod.newer \/ run.clean THEN "count" ELSE "wait")
       \/ Goto("wait") /\ (Fault \/ (~Up /\ NoFault))

\* after ten minutes the run fails, which the save may well not have done.
Timeout ==
    /\ At("wait") /\ Goto("failed")
    /\ \/ Fault
       \/ NoFault /\ (~Up \/ (Pod.saving = NoDump /\ ~Pod.newer /\ Pod.saved # Pod.data))
    /\ UNCHANGED <<notRedis, run, redis, seen>>

\* backupKeyCount: an error leaves the count out.
BackupKeyCount ==
    /\ At("count") /\ Goto("open")
    /\ \/ Up /\ NoFault /\ run' = [run EXCEPT !.counted = TRUE]
       \/ (Fault \/ (~Up /\ NoFault)) /\ UNCHANGED run
    /\ UNCHANGED <<notRedis, redis, seen>>

-----------------------------------------------------------------------------
(* streamBackupToS3 and cleanupOldBackups                                  *)

notBucket == <<crVars, status, queued, held, stale, redis>>

\* createS3Client and backupObjectPrefix
ConnectS3 ==
    /\ At("open") /\ UNCHANGED <<notBucket, bucket, run, seen>>
    /\ (NoFault /\ Goto("cat")) \/ (Fault /\ Goto("failed"))

\* Mutant: an empty stream is not refused.
OpenStreamEvenEmpty ==
    /\ At("cat") /\ UNCHANGED <<notBucket, bucket, seen>>
    /\ \/ /\ Up /\ NoFault /\ Goto("stream")
          /\ run.n < MaxRuns
          /\ run' = [run EXCEPT !.n = @ + 1, !.content = Pod.dump]
       \/ /\ Goto("failed") /\ UNCHANGED run
          /\ Fault \/ (~Up /\ NoFault)

\* cat of dump.rdb: the exec reads the file there is now. A pod that is away, no file or
\* an empty one uploads nothing.
OpenStream ==
    /\ At("cat") /\ UNCHANGED <<notBucket, bucket, seen>>
    /\ \/ /\ Up /\ Pod.dump # NoDump /\ NoFault /\ Goto("stream")
          /\ run.n < MaxRuns
          /\ run' = [run EXCEPT !.n = @ + 1, !.content = Pod.dump]
       \/ /\ Goto("failed") /\ UNCHANGED run
          /\ Fault \/ ((~Up \/ Pod.dump = NoDump) /\ NoFault)

\* rdbHeaderWriter: a stream without the RDB magic is refused before any of it is sent.
RejectHeader ==
    /\ At("stream") /\ run.n \notin uploads /\ Fault /\ Goto("abort")
    /\ UNCHANGED <<notBucket, bucket, run, seen>>

\* flushPart on the first full part; an answer that is lost leaves an upload nobody
\* has the ID of.
CreateMultipartUpload ==
    /\ At("stream") /\ run.n \notin uploads /\ UNCHANGED <<notBucket, objects, run>>
    /\ \/ uploads' = uploads \cup {run.n} /\ NoFault /\ UNCHANGED <<pc, seen>>
       \/ /\ uploads' = uploads \cup {run.n} /\ Fault /\ Goto("failed")
          /\ seen' = [seen EXCEPT !.leaked = @ \cup {run.n}]

\* The exec, a part or the gzip footer fails.
StreamBreaks ==
    /\ At("stream") /\ Fault /\ Goto("abort")
    /\ UNCHANGED <<notBucket, bucket, run, seen>>

\* Mutant: a failed finish leaves the upload to itself.
FinishWithoutAbort ==
    /\ At("stream") /\ UNCHANGED <<notBucket, run, seen>>
    /\ \/ /\ objects' = objects \cup {run.n} /\ uploads' = uploads \ {run.n}
          /\ (NoFault /\ Goto("list")) \/ (Fault /\ Goto("abort"))
       \/ Fault /\ Goto("failed") /\ UNCHANGED bucket

\* finish: PutObject or CompleteMultipartUpload; the object may be stored and the
\* answer lost.
Finish ==
    /\ At("stream") /\ UNCHANGED <<notBucket, run, seen>>
    /\ \/ /\ objects' = objects \cup {run.n} /\ uploads' = uploads \ {run.n}
          /\ (NoFault /\ Goto("list")) \/ (Fault /\ Goto("abort"))
       \/ Fault /\ Goto("abort") /\ UNCHANGED bucket

\* abort: its error is ignored.
Abort ==
    /\ At("abort") /\ Goto("failed") /\ UNCHANGED <<notBucket, objects, run>>
    /\ \/ NoFault /\ uploads' = uploads \ {run.n} /\ UNCHANGED seen
       \/ /\ Fault /\ run.n \in uploads /\ UNCHANGED uploads
          /\ seen' = [seen EXCEPT !.leaked = @ \cup {run.n}]

\* Mutant: one object too many.
DoomedOneMore(listed, keep) ==
    {o \in listed : Cardinality({l \in listed : l > o}) >= keep - 1}

\* The oldest objects, all but as many as retention keeps.
Doomed(listed, keep) ==
    {o \in listed : Cardinality({l \in listed : l > o}) >= keep}

ListBackups ==
    /\ At("list") /\ UNCHANGED <<notBucket, bucket, seen>>
    /\ \/ /\ NoFault /\ held.spec.retention > 0 /\ Goto("delete")
          /\ run' = [run EXCEPT !.doomed = Doomed(objects, held.spec.retention)]
       \/ (Fault \/ (held.spec.retention = 0 /\ NoFault)) /\ Goto("report") /\ UNCHANGED run

\* The oldest first; a delete that fails does not stop the others.
DeleteObject ==
    /\ At("delete") /\ UNCHANGED <<notBucket, uploads, pc, seen>>
    /\ \E o \in run.doomed :
           /\ \A d \in run.doomed : o <= d
           /\ run' = [run EXCEPT !.doomed = @ \ {o}]
           /\ \/ NoFault /\ objects' = objects \ {o}
              \/ Fault /\ UNCHANGED objects

Deleted ==
    /\ At("delete") /\ run.doomed = {} /\ Goto("report")
    /\ UNCHANGED <<notBucket, bucket, run, count, seen>>

-----------------------------------------------------------------------------
(* Redis, time, the user and the operator process                          *)

notPod == <<crVars, status, queued, pc, held, stale, run, bucket>>

Write(p) ==
    /\ redis[p].role # "down" /\ redis[p].data < MaxWrites
    /\ redis' = [redis EXCEPT ![p].data = @ + 1]
    /\ UNCHANGED <<notPod, count, seen>>

\* A save point of redis.conf.
SavePoint(p) ==
    /\ redis[p].role # "down" /\ redis[p].saving = NoDump /\ redis[p].saved # redis[p].data
    /\ Fork(p)
    /\ UNCHANGED <<notPod, count, seen>>

\* The child has written dump.rdb; LASTSAVE moves unless it is the same second.
SaveDone(p) ==
    /\ redis[p].saving # NoDump
    /\ \E newer \in {redis[p].newer, TRUE} :
           redis' = [redis EXCEPT ![p] =
                        [@ EXCEPT !.dump = redis[p].saving, !.saved = redis[p].saving,
                                  !.saving = NoDump, !.ok = TRUE, !.newer = newer]]
    /\ UNCHANGED <<notPod, count, seen>>

SaveFails(p) ==
    /\ redis[p].saving # NoDump /\ Fault
    /\ redis' = [redis EXCEPT ![p] = [@ EXCEPT !.saving = NoDump, !.ok = FALSE]]
    /\ UNCHANGED <<notPod, seen>>

\* The container restarts and loads its append only file; LASTSAVE is when it started.
Restart(p) ==
    /\ redis[p].role # "down" /\ Fault
    /\ \E newer \in {redis[p].newer, TRUE}, saved \in {redis[p].saved, redis[p].data} :
           redis' = [redis EXCEPT ![p] =
                        [@ EXCEPT !.saved = saved, !.saving = NoDump, !.ok = TRUE, !.newer = newer]]
    /\ seen' = [seen EXCEPT !.restart = @ \/ run.pod = p]
    /\ UNCHANGED notPod

\* A failover, a link that goes down or comes up, a pod that is lost or comes back.
ChangeRole(p) ==
    /\ \E role \in {"master", "replica", "down"} \ {redis[p].role} :
           redis' = [redis EXCEPT ![p].role = role]
    /\ \/ Fault
       \/ redis[p].role = "down" /\ NoFault
    /\ UNCHANGED <<notPod, seen>>

TimerFires ==
    /\ timer /\ timer' = FALSE /\ queued' = TRUE
    /\ seen' = [seen EXCEPT !.woken = TRUE]
    /\ UNCHANGED <<cr, status, due, pc, held, stale, run, redis, bucket, count>>

SlotPasses ==
    /\ ~due /\ cr.state # "absent" /\ due' = TRUE
    /\ count.slots < MaxSlots /\ count' = [count EXCEPT !.slots = @ + 1]
    /\ UNCHANGED <<cr, status, queued, timer, pc, held, stale, run, redis, bucket, seen>>

notUser == <<timer, pc, held, run, redis, bucket>>

\* The user changes the RedisBackup, which also makes what the pass holds stale.
\* Edits and deletions are bounded, and with them creations.
Edit(cost, change) ==
    /\ count.edits + cost <= MaxEdits /\ count' = [count EXCEPT !.edits = @ + cost]
    /\ change
    /\ queued' = (queued \/ Wakes("spec")) /\ stale' = TRUE
    /\ seen' = [seen EXCEPT !.woken = TRUE]
    /\ UNCHANGED notUser

EditSpec ==
    Edit(1, /\ cr.state \in {"new", "live"}
            /\ \E s \in Specs \ {cr.spec} : cr' = [cr EXCEPT !.spec = s]
            /\ UNCHANGED <<status, due>>)

Delete ==
    Edit(1, \/ /\ cr.state = "live" /\ cr' = [cr EXCEPT !.state = "deleting"]
               /\ UNCHANGED <<status, due>>
            \/ /\ cr.state = "new" /\ cr' = [cr EXCEPT !.state = "absent"]
               /\ status' = NoStatus /\ UNCHANGED due)

Create ==
    Edit(0, /\ cr.state = "absent" /\ status' = NoStatus /\ due' = FALSE
            /\ cr' \in [state : {"new"}, spec : Specs])

\* The operator dies; the next one lists every RedisBackup.
Crash ==
    /\ Fault /\ Goto("idle") /\ EndRun
    /\ queued' = TRUE /\ timer' = FALSE
    /\ seen' = [seen EXCEPT !.woken = TRUE, !.reason = FALSE, !.leaked = @ \cup (uploads \cap {run.n})]
    /\ UNCHANGED <<cr, status, due, held, stale, redis, bucket>>

-----------------------------------------------------------------------------
Pass ==
    \/ Begin \/ NotFound \/ HandleDeletion \/ AddFinalizer
    \/ RejectSchedule \/ Suspend \/ RejectDestination \/ NotYet \/ StartRun
    \/ GetBackupPod \/ TriggerBGSave \/ BGSave \/ LastSave \/ PersistenceInfo \/ CompareLastSave
    \/ BackupKeyCount \/ ConnectS3 \/ OpenStream \/ Finish \/ Abort \/ ListBackups \/ DeleteObject \/ Deleted
    \/ ReportFailure \/ ReportCompleted

Next ==
    \/ Pass \/ Timeout \/ RejectHeader \/ CreateMultipartUpload \/ StreamBreaks
    \/ \E p \in Pods : \/ Write(p) \/ SavePoint(p) \/ SaveDone(p) \/ SaveFails(p)
                       \/ Restart(p) \/ ChangeRole(p)
    \/ TimerFires \/ SlotPasses \/ EditSpec \/ Delete \/ Create \/ Crash

Spec == Init /\ [][Next]_vars

\* The one worker goes on, the ten minutes end a wait that would not end otherwise, a
\* save ends, timers fire and slots pass, and some pod comes back.
Fairness ==
    /\ WF_vars(Pass) /\ SF_vars(Timeout) /\ WF_vars(TimerFires) /\ WF_vars(SlotPasses)
    /\ \A p \in Pods : WF_vars(SaveDone(p)) /\ WF_vars(redis[p].role = "down" /\ ChangeRole(p))

FairSpec == Spec /\ Fairness

-----------------------------------------------------------------------------
(* Properties.                                                             *)

Catalog == INSTANCE BackupCatalog WITH stored <- objects, reported <- status.location

\* What the run streams holds everything the pod held when the run asked for BGSAVE, or
\* joined a save in progress: waitForBGSave takes no earlier dump for the new one,
\* whatever other saves, failures and writes happen in between. The exception: a pod
\* that restarts during the run, whose LASTSAVE is the time it started.
SnapshotIsNew ==
    At("stream") /\ ~seen.restart => run.content >= run.asked

\* A multipart upload, whose parts "are otherwise invisible in listings and accrue
\* storage charges forever", outlives its run only if the operator died, AbortMultipartUpload
\* failed or the answer to CreateMultipartUpload was lost.
NoAbandonedUpload == At("idle") => uploads \subseteq seen.leaked

\* docs/operations.md, "status.backupLocation gives the exact s3:// URL to feed a restore":
\* between runs, the object that status names is in the bucket.
ReportedExists == At("idle") => status.location \in objects \cup {0}

\* "KeyCount is persisted only here, together with the BackupLocation it describes."
CountDescribesLocation == status.counted \in {0, status.location}

\* Every run answers an edit, a timer or a start of the operator that no run before it
\* answered: however runs fail and status writes fail, conflict or succeed, neither an
\* error nor what the controller itself wrote starts the next BGSAVE "in a hot loop".
NoHotLoop == [][At("check") /\ pc' = "choose" => seen.reason]_vars

\* The runs, retention and status of the controller implement BackupCatalog.
ImplementsCatalog == Catalog!CatalogSpec

\* A backup that is due is taken and reported, however often runs fail: unless it is a
\* one-time backup whose last status write was lost, which nothing retries.
Pending ==
    cr.state = "live" /\ ~Refused(cr.spec) /\ ShouldBackup(cr.spec)
DueIsTaken ==
    Pending ~> ~Pending \/ (cr.spec.schedule = "once" /\ seen.lost)

-----------------------------------------------------------------------------
(* The inductive invariant from which the safety properties follow.        *)

\* The locals of the pass: a run that talks to Redis has a pod, and one that has a
\* stream has the name of an object.
RunInv ==
    /\ pc \in Steps \ {"idle", "check", "choose", "failed"} => run.pod \in Pods
    /\ pc \in {"stream", "abort", "list", "delete", "report"} => run.n > 0

\* The object of the run is newer than every other, is in the bucket once it is stored,
\* and retention does not list it.
BucketInv ==
    /\ \A o \in objects : o <= run.n
    /\ At("stream") => run.n \notin objects
    /\ pc \in {"list", "delete", "report"} => run.n \in objects
    /\ At("delete") => run.n \notin run.doomed

\* An upload in progress is the run's own or one that is known to be lost.
UploadInv ==
    uploads \subseteq seen.leaked \cup (IF pc \in {"stream", "abort"} THEN {run.n} ELSE {})

\* Whatever a pod has saved or is saving, it has held.
PodInv == \A p \in Pods : redis[p].saving <= redis[p].data /\ redis[p].dump <= redis[p].data

\* The save asked for, or one forked later, is in progress, has failed or has replaced
\* the dump; the third once the wait is over.
SaveInv ==
    ~seen.restart =>
        /\ pc \in {"lastsave", "wait", "compare", "count", "open", "cat"} =>
               /\ run.asked <= Pod.data
               /\ Pod.saving # NoDump => run.asked <= Pod.saving
               /\ Pod.saving = NoDump /\ Pod.ok => run.asked <= Pod.dump
        /\ pc \in {"compare", "count", "open", "cat"} => run.asked <= Pod.dump
        /\ At("stream") => run.asked <= run.content

\* What the queue holds, something other than a run put there, or a pass that returned
\* an error before it came to one.
WakeInv == (queued => seen.woken \/ (At("idle") /\ seen.reason)) /\ (At("check") => seen.reason)

IndInv ==
    /\ TypeOK /\ RunInv /\ BucketInv /\ UploadInv /\ PodInv /\ SaveInv /\ WakeInv
    /\ CountDescribesLocation
=============================================================================
