-------------------------- MODULE BackupRunProofs --------------------------
(***************************************************************************)
(* Proofs about BackupRun for every set of pods and specs and every bound. *)
(* Each safety property is a part of IndInv or follows from it, and so     *)
(* does the step simulation of BackupCatalog.                              *)
(***************************************************************************)
EXTENDS BackupRun, FiniteSetTheorems, TLAPS

-----------------------------------------------------------------------------
(* Types                                                                   *)

LEMMA InitTypeOK == Init => TypeOK
<1> SUFFICES ASSUME Init
             PROVE  TypeOK
  OBVIOUS
<1> USE BoundsAssumption DEF Init
<1>1. cr \in CRType /\ held \in CRType
  BY DEF CRType
<1>2. status \in StatusType
  BY DEF NoStatus, StatusType
<1>3. run \in RunType
  BY DEF NoRun, RunType, Dataset
<1>4. redis \in [Pods -> PodType]
  BY DEF PodType, Dataset, Dump, NoDump
<1>5. count \in CountType /\ seen \in SeenType
  BY DEF CountType, SeenType
<1> QED
  BY <1>1, <1>2, <1>3, <1>4, <1>5 DEF TypeOK, Steps

LEMMA FaultType == TypeOK /\ (Fault \/ NoFault) => count' \in CountType
  BY BoundsAssumption DEF TypeOK, CountType, Fault, NoFault

LEMMA WriteStatusType ==
    ASSUME TypeOK, NEW s \in StatusType, WriteStatus(s)
    PROVE  status' \in StatusType /\ queued' \in BOOLEAN /\ count' \in CountType
<1>1. count' \in CountType
  BY FaultType DEF WriteStatus
<1> QED
  BY <1>1 DEF WriteStatus, Written, NotWritten, TypeOK

LEMMA PhaseType ==
    ASSUME TypeOK,
           NEW phase \in {"Running", "Failed", "Suspended", "Degraded"}
    PROVE  Phase(phase) \in StatusType
  BY DEF TypeOK, StatusType, Phase

LEMMA EndRunType == TypeOK /\ EndRun => run' \in RunType
<1> SUFFICES ASSUME TypeOK, EndRun
             PROVE  run' \in RunType
  OBVIOUS
<1>1. run' = [n |-> run.n, pod |-> NoPod, asked |-> 0, clean |-> FALSE, counted |-> FALSE,
              content |-> 0, doomed |-> {}]
  BY DEF EndRun, NoRun
<1>2. run.n \in 0..MaxRuns
  BY DEF TypeOK, RunType
<1> QED
  BY <1>1, <1>2, BoundsAssumption DEF RunType, Dataset

\* A pod's record stays one when any of its fields is set.
LEMMA PodUpdate ==
    ASSUME TypeOK, NEW p \in Pods, NEW r \in PodType, redis' = [redis EXCEPT ![p] = r]
    PROVE  redis' \in [Pods -> PodType]
  BY DEF TypeOK

\* Every step of the pass keeps the types.
LEMMA PassTypeOK == TypeOK /\ RunInv /\ Pass => TypeOK'
<1> SUFFICES ASSUME TypeOK, RunInv, Pass
             PROVE  TypeOK'
  OBVIOUS
<1> USE DEF TypeOK, crVars, bucket, notRedis, notBucket, Steps, At, Goto
<1>1. CASE Begin
  <2>1. seen' \in SeenType BY <1>1 DEF Begin, SeenType
  <2> QED BY <1>1, <2>1 DEF Begin
<1>2. ASSUME Retry PROVE TypeOK'
  <2>1. seen' \in SeenType BY <1>2 DEF Retry, SeenType
  <2>2. count' \in CountType BY <1>2, FaultType DEF Retry
  <2> QED BY <1>2, <2>1, <2>2 DEF Retry
<1>a. ASSUME NoRunNeeded PROVE seen' \in SeenType
  BY <1>a DEF NoRunNeeded, SeenType
<1>3. CASE NotFound
  BY <1>3, <1>a DEF NotFound, NoRunNeeded
<1>4. CASE HandleDeletion
  <2>1. ASSUME cr' = [cr EXCEPT !.state = "absent"] PROVE cr' \in CRType
    BY <2>1 DEF CRType
  <2>2. NoStatus \in StatusType BY BoundsAssumption DEF NoStatus, StatusType
  <2> QED BY <1>2, <1>4, <1>a, <2>1, <2>2 DEF HandleDeletion, NoRunNeeded
<1>5. CASE AddFinalizer
  <2>1. ASSUME cr' = [cr EXCEPT !.state = "live"] PROVE cr' \in CRType
    BY <2>1 DEF CRType
  <2> QED BY <1>2, <1>5, <2>1 DEF AddFinalizer
<1>6. CASE RejectSchedule
  BY <1>6, <1>a, PhaseType, WriteStatusType DEF RejectSchedule, Refuse, NoRunNeeded
<1>7. CASE Suspend
  BY <1>7, <1>a, PhaseType, WriteStatusType DEF Suspend, Refuse, NoRunNeeded
<1>8. CASE RejectDestination
  BY <1>8, <1>a, PhaseType, WriteStatusType DEF RejectDestination, Refuse, NoRunNeeded
<1>9. CASE NotYet
  BY <1>9, <1>a DEF NotYet, NoRunNeeded
<1>10. CASE StartRun
  <2>1. seen' \in SeenType BY <1>10 DEF StartRun, SeenType
  <2> QED BY <1>10, <2>1, PhaseType, WriteStatusType DEF StartRun
<1>11. CASE GetBackupPod
  <2>1. run' \in RunType
    BY <1>11 DEF GetBackupPod, RunType, Replicas, Masters
  <2>2. count' \in CountType BY <1>11, FaultType DEF GetBackupPod
  <2> QED BY <1>11, <2>1, <2>2 DEF GetBackupPod
<1>12. ASSUME NEW step, CallFails(step) PROVE TypeOK'
  <2>1. count' \in CountType BY <1>12, FaultType DEF CallFails
  <2> QED BY <1>12, <2>1 DEF CallFails
<1>13. ASSUME pc \in {"trigger", "bgsave", "lastsave", "wait", "compare", "count", "open", "cat"}
       PROVE  /\ run.pod \in Pods /\ Pod \in PodType
              /\ Pod.saving # NoDump => [run EXCEPT !.asked = Pod.saving] \in RunType
              /\ [run EXCEPT !.asked = Pod.data] \in RunType
  <2>1. run.pod \in Pods BY <1>13 DEF RunInv
  <2>2. Pod \in PodType BY <2>1 DEF Pod
  <2> QED BY <2>1, <2>2 DEF PodType, RunType, Dump
<1>14. CASE TriggerBGSave
  <2>1. CASE CallFails("trigger") BY <2>1, <1>12
  <2>2. CASE At("trigger") /\ Up /\ NoFault /\ ~CallFails("trigger")
    BY <1>13, <1>14, <2>2, FaultType DEF TriggerBGSave
  <2> QED BY <1>14, <2>1, <2>2 DEF TriggerBGSave
<1>15. CASE BGSave
  <2>1. count' \in CountType BY <1>15, FaultType DEF BGSave
  <2>2. run' \in RunType BY <1>13, <1>15 DEF BGSave
  <2>3. ASSUME Fork(run.pod) PROVE redis' \in [Pods -> PodType]
    BY <1>13, <1>15, <2>3 DEF BGSave, Fork, Pod, PodType, Dump
  <2> QED BY <1>15, <2>1, <2>2, <2>3 DEF BGSave
<1>16. CASE LastSave
  <2>1. CASE CallFails("lastsave") BY <2>1, <1>12
  <2>2. CASE At("lastsave") /\ Up /\ NoFault /\ ~CallFails("lastsave")
    <3>1. redis' = [redis EXCEPT ![run.pod] = [Pod EXCEPT !.newer = FALSE]]
      BY <1>16, <2>2 DEF LastSave, Pod
    <3>2. [Pod EXCEPT !.newer = FALSE] \in PodType
      BY <1>13, <2>2 DEF PodType
    <3>3. redis' \in [Pods -> PodType]
      BY <1>13, <2>2, <3>1, <3>2, PodUpdate
    <3> QED BY <1>16, <2>2, <3>3, FaultType DEF LastSave
  <2> QED BY <1>16, <2>1, <2>2 DEF LastSave
<1>17. CASE PersistenceInfo
  <2>1. run' \in RunType BY <1>13, <1>17 DEF PersistenceInfo, RunType
  <2> QED BY <1>17, <2>1, FaultType DEF PersistenceInfo
<1>18. CASE CompareLastSave
  <2>1. count' \in CountType BY <1>18, FaultType DEF CompareLastSave
  <2> QED BY <1>18, <2>1 DEF CompareLastSave
<1>19. CASE BackupKeyCount
  <2>1. run' \in RunType BY <1>19 DEF BackupKeyCount, RunType
  <2>2. count' \in CountType BY <1>19, FaultType DEF BackupKeyCount
  <2> QED BY <1>19, <2>1, <2>2 DEF BackupKeyCount
<1>20. CASE ConnectS3
  <2>1. count' \in CountType BY <1>20, FaultType DEF ConnectS3
  <2> QED BY <1>20, <2>1 DEF ConnectS3
<1>21. CASE OpenStream
  <2>1. run' \in RunType
    <3>1. ASSUME Pod.dump # NoDump PROVE Pod.dump \in Dataset
      BY <1>13, <1>21, <3>1 DEF OpenStream, PodType, Dump
    <3>2. ASSUME run.n < MaxRuns PROVE run.n + 1 \in 0..MaxRuns
      BY <3>2, BoundsAssumption DEF RunType
    <3> QED BY <1>21, <3>1, <3>2 DEF OpenStream, RunType
  <2>2. count' \in CountType BY <1>21, FaultType DEF OpenStream
  <2> QED BY <1>21, <2>1, <2>2 DEF OpenStream
<1>22. ASSUME pc \in {"stream", "abort"} PROVE run.n \in 1..MaxRuns
  BY <1>22, BoundsAssumption DEF RunInv, RunType
<1>23. CASE Finish
  <2>1. count' \in CountType BY <1>23, FaultType DEF Finish
  <2> QED BY <1>22, <1>23, <2>1 DEF Finish
<1>24. CASE Abort
  <2>1. count' \in CountType BY <1>24, FaultType DEF Abort
  <2>2. seen' \in SeenType BY <1>22, <1>24 DEF Abort, SeenType
  <2> QED BY <1>24, <2>1, <2>2 DEF Abort
<1>25. CASE ListBackups
  <2>1. run' \in RunType BY <1>25 DEF ListBackups, RunType, Doomed
  <2>2. count' \in CountType BY <1>25, FaultType DEF ListBackups
  <2> QED BY <1>25, <2>1, <2>2 DEF ListBackups
<1>26. CASE DeleteObject
  <2>1. run' \in RunType BY <1>26 DEF DeleteObject, RunType
  <2>2. count' \in CountType BY <1>26, FaultType DEF DeleteObject
  <2> QED BY <1>26, <2>1, <2>2 DEF DeleteObject
<1>27. CASE Deleted
  BY <1>27 DEF Deleted
<1>28. CASE ReportFailure
  BY <1>28, PhaseType, WriteStatusType, EndRunType DEF ReportFailure
<1>29. CASE ReportCompleted
  <2>1. status' \in StatusType /\ queued' \in BOOLEAN
    <3>1. [phase |-> "Completed", last |-> TRUE, location |-> run.n,
           counted |-> IF run.counted THEN run.n ELSE 0] \in StatusType
      BY BoundsAssumption DEF StatusType, RunType
    <3> QED BY <1>29, <3>1 DEF ReportCompleted, Written, NotWritten
  <2>2. count' \in CountType BY <1>29, FaultType DEF ReportCompleted
  <2>3. seen' \in SeenType BY <1>29 DEF ReportCompleted, SeenType
  <2> QED BY <1>29, <2>1, <2>2, <2>3, EndRunType DEF ReportCompleted
<1> QED
  BY <1>1, <1>3, <1>4, <1>5, <1>6, <1>7, <1>8, <1>9, <1>10, <1>11, <1>14, <1>15, <1>16, <1>17,
     <1>18, <1>19, <1>20, <1>21, <1>23, <1>24, <1>25, <1>26, <1>27, <1>28, <1>29 DEF Pass

\* So do Redis, time, the user, the failures and the crash of the operator.
LEMMA NextTypeOK == TypeOK /\ RunInv /\ [Next]_vars => TypeOK'
<1> SUFFICES ASSUME TypeOK, RunInv, [Next]_vars
             PROVE  TypeOK'
  OBVIOUS
<1> USE DEF TypeOK, crVars, bucket, notRedis, notBucket, notPod, notUser, Steps, At, Goto
<1>1. CASE UNCHANGED vars
  BY <1>1 DEF vars
<1>2. CASE Timeout
  <2>1. count' \in CountType BY <1>2, FaultType DEF Timeout
  <2> QED BY <1>2, <2>1 DEF Timeout
<1>3. CASE RejectHeader
  BY <1>3, FaultType DEF RejectHeader
<1>4. CASE CreateMultipartUpload
  <2>1. count' \in CountType BY <1>4, FaultType DEF CreateMultipartUpload
  <2>2. run.n \in 1..MaxRuns BY <1>4, BoundsAssumption DEF CreateMultipartUpload, RunInv, RunType
  <2>3. seen' \in SeenType BY <1>4, <2>2 DEF CreateMultipartUpload, SeenType
  <2> QED BY <1>4, <2>1, <2>2, <2>3 DEF CreateMultipartUpload
<1>5. CASE StreamBreaks
  BY <1>5, FaultType DEF StreamBreaks
<1>6. ASSUME NEW p \in Pods PROVE redis[p] \in PodType
  OBVIOUS
<1>7. ASSUME NEW p \in Pods, Write(p) PROVE TypeOK'
  <2>1. [redis[p] EXCEPT !.data = @ + 1] \in PodType
    BY <1>6, <1>7, BoundsAssumption DEF Write, PodType, Dataset
  <2>2. redis' \in [Pods -> PodType] BY <1>7, <2>1, PodUpdate DEF Write
  <2> QED BY <1>7, <2>2 DEF Write
<1>8. ASSUME NEW p \in Pods, SavePoint(p) PROVE TypeOK'
  <2>1. redis' \in [Pods -> PodType]
    BY <1>6, <1>8 DEF SavePoint, Fork, PodType, Dump
  <2> QED BY <1>8, <2>1 DEF SavePoint
<1>9. ASSUME NEW p \in Pods, SaveDone(p) PROVE TypeOK'
  <2>1. PICK newer \in {redis[p].newer, TRUE} :
            redis' = [redis EXCEPT ![p] =
                        [@ EXCEPT !.dump = redis[p].saving, !.saved = redis[p].saving,
                                  !.saving = NoDump, !.ok = TRUE, !.newer = newer]]
    BY <1>9 DEF SaveDone
  <2>2. redis[p].saving \in Dataset BY <1>6, <1>9 DEF SaveDone, PodType, Dump
  <2>3. [redis[p] EXCEPT !.dump = redis[p].saving, !.saved = redis[p].saving,
                         !.saving = NoDump, !.ok = TRUE, !.newer = newer] \in PodType
    BY <1>6, <2>2 DEF PodType, Dump
  <2>4. redis' \in [Pods -> PodType] BY <2>1, <2>3, PodUpdate
  <2> QED BY <1>9, <2>4 DEF SaveDone
<1>10. ASSUME NEW p \in Pods, SaveFails(p) PROVE TypeOK'
  <2>1. redis' \in [Pods -> PodType] BY ZenonT(60), <1>6, <1>10 DEF SaveFails, PodType, Dump
  <2> QED BY <1>10, <2>1, FaultType DEF SaveFails
<1>11. ASSUME NEW p \in Pods, Restart(p) PROVE TypeOK'
  <2>1. PICK newer \in {redis[p].newer, TRUE}, saved \in {redis[p].saved, redis[p].data} :
            redis' = [redis EXCEPT ![p] =
                        [@ EXCEPT !.saved = saved, !.saving = NoDump, !.ok = TRUE, !.newer = newer]]
    BY <1>11 DEF Restart
  <2>2. [redis[p] EXCEPT !.saved = saved, !.saving = NoDump, !.ok = TRUE, !.newer = newer] \in PodType
    BY <1>6 DEF PodType, Dump
  <2>3. redis' \in [Pods -> PodType] BY <2>1, <2>2, PodUpdate
  <2>4. seen' \in SeenType BY <1>11 DEF Restart, SeenType
  <2> QED BY <1>11, <2>3, <2>4, FaultType DEF Restart
<1>12. ASSUME NEW p \in Pods, ChangeRole(p) PROVE TypeOK'
  <2>1. redis' \in [Pods -> PodType] BY <1>6, <1>12 DEF ChangeRole, PodType
  <2>2. count' \in CountType BY <1>12, FaultType DEF ChangeRole
  <2> QED BY <1>12, <2>1, <2>2 DEF ChangeRole
<1>13. CASE TimerFires
  <2>1. seen' \in SeenType BY <1>13 DEF TimerFires, SeenType
  <2> QED BY <1>13, <2>1 DEF TimerFires
<1>14. CASE SlotPasses
  <2>1. count' \in CountType BY <1>14, BoundsAssumption DEF SlotPasses, CountType
  <2> QED BY <1>14, <2>1 DEF SlotPasses
<1>15. ASSUME NEW cost \in {0, 1}, NEW change, Edit(cost, change),
              cr' \in CRType, status' \in StatusType, due' \in BOOLEAN
       PROVE  TypeOK'
  <2>1. seen' \in SeenType BY <1>15 DEF Edit, SeenType
  <2>2. count' \in CountType BY <1>15, BoundsAssumption DEF Edit, CountType
  <2> QED BY <1>15, <2>1, <2>2 DEF Edit
<1>16. NoStatus \in StatusType
  BY BoundsAssumption DEF NoStatus, StatusType
<1>17. CASE EditSpec
  <2>1. cr' \in CRType /\ status' \in StatusType /\ due' \in BOOLEAN
    BY <1>17 DEF EditSpec, Edit, CRType
  <2> QED BY <1>15, <1>17, <2>1 DEF EditSpec
<1>18. CASE Delete
  <2>1. cr' \in CRType /\ status' \in StatusType /\ due' \in BOOLEAN
    BY <1>16, <1>18 DEF Delete, Edit, CRType
  <2> QED BY <1>15, <1>18, <2>1 DEF Delete
<1>19. CASE Create
  <2>1. cr' \in CRType /\ status' \in StatusType /\ due' \in BOOLEAN
    BY <1>16, <1>19 DEF Create, Edit, CRType
  <2> QED BY <1>15, <1>19, <2>1 DEF Create
<1>20. CASE Crash
  <2>1. seen' \in SeenType BY <1>20 DEF Crash, SeenType
  <2> QED BY <1>20, <2>1, FaultType, EndRunType DEF Crash
<1> QED
  BY PassTypeOK, <1>1, <1>2, <1>3, <1>4, <1>5, <1>7, <1>8, <1>9, <1>10, <1>11, <1>12, <1>13, <1>14,
     <1>17, <1>18, <1>19, <1>20 DEF Next

-----------------------------------------------------------------------------
(* The bucket, the uploads and the queue                                   *)

BookInv == RunInv /\ BucketInv /\ UploadInv /\ WakeInv /\ CountDescribesLocation

\* A phase is written over what else status says, and wakes nobody.
LEMMA PhaseWritten ==
    ASSUME TypeOK, NEW phase \in {"Running", "Failed", "Suspended", "Degraded"},
           WriteStatus(Phase(phase))
    PROVE  /\ queued' = queued
           /\ status'.location = status.location /\ status'.counted = status.counted
<1>1. (queued \/ Wakes("status")) = queued
  BY DEF Wakes, TypeOK
<1>2. Phase(phase).location = status.location /\ Phase(phase).counted = status.counted
  BY DEF Phase, TypeOK, StatusType
<1> QED
  BY <1>1, <1>2 DEF WriteStatus, Written, NotWritten

\* Retention keeps the newest object.
LEMMA NewestIsKept ==
    ASSUME NEW listed \in SUBSET Int, NEW n \in Int, \A o \in listed : o <= n,
           NEW keep \in Nat, keep > 0
    PROVE  n \notin Doomed(listed, keep)
<1>1. {l \in listed : l > n} = {}
  <2>1. ASSUME NEW l \in listed PROVE ~(l > n)
    <3>1. l \in Int /\ l <= n
      OBVIOUS
    <3> QED
      BY <3>1
  <2> QED
    BY <2>1
<1>2. Cardinality({l \in listed : l > n}) = 0
  BY <1>1, FS_EmptySet
<1> QED
  BY <1>2 DEF Doomed

LEMMA StepBookInv == TypeOK /\ BookInv /\ [Next]_vars => BookInv'
<1> SUFFICES ASSUME TypeOK, BookInv, [Next]_vars
             PROVE  BookInv'
  OBVIOUS
<1> USE DEF BookInv, RunInv, BucketInv, UploadInv, WakeInv, CountDescribesLocation,
            crVars, bucket, notRedis, notBucket, notPod, notUser, At, Goto
<1>0. /\ run.n \in Int /\ run \in RunType /\ seen \in SeenType
  BY DEF TypeOK, RunType
<1>1. CASE UNCHANGED vars
  BY <1>1 DEF vars
<1>2. CASE Begin
  BY <1>0, <1>2 DEF Begin, SeenType
<1>3. CASE NotFound
  BY <1>0, <1>3 DEF NotFound, NoRunNeeded, SeenType
<1>4. CASE HandleDeletion
  BY <1>0, <1>4 DEF HandleDeletion, NoRunNeeded, Retry, NoStatus, SeenType
<1>5. CASE AddFinalizer
  BY <1>0, <1>5 DEF AddFinalizer, Retry, SeenType
<1>6. CASE RejectSchedule
  BY <1>0, <1>6, PhaseWritten DEF RejectSchedule, Refuse, NoRunNeeded, Live, SeenType
<1>7. CASE Suspend
  BY <1>0, <1>7, PhaseWritten DEF Suspend, Refuse, NoRunNeeded, Live, SeenType
<1>8. CASE RejectDestination
  BY <1>0, <1>8, PhaseWritten DEF RejectDestination, Refuse, NoRunNeeded, Live, SeenType
<1>9. CASE NotYet
  BY <1>0, <1>9 DEF NotYet, NoRunNeeded, Live, SeenType
<1>10. CASE StartRun
  BY <1>0, <1>10, PhaseWritten DEF StartRun, Live, SeenType
<1>11. CASE GetBackupPod
  BY <1>0, <1>11 DEF GetBackupPod, Replicas, Masters, RunType, Steps
<1>12. CASE TriggerBGSave
  BY <1>0, <1>12 DEF TriggerBGSave, CallFails, RunType, Steps
<1>13. CASE BGSave
  BY <1>0, <1>13 DEF BGSave, RunType, Steps
<1>14. CASE LastSave
  BY <1>0, <1>14 DEF LastSave, CallFails, Steps
<1>15. CASE PersistenceInfo
  BY <1>0, <1>15 DEF PersistenceInfo, RunType, Steps
<1>16. CASE CompareLastSave
  BY <1>0, <1>16 DEF CompareLastSave, Steps
<1>17. CASE BackupKeyCount
  BY <1>0, <1>17 DEF BackupKeyCount, RunType, Steps
<1>18. CASE ConnectS3
  BY <1>0, <1>18 DEF ConnectS3, Steps
<1>19. CASE OpenStream
  <2>1. CASE Goto("failed") /\ UNCHANGED run
    BY <1>19, <2>1 DEF OpenStream, Steps
  <2>2. CASE Goto("stream") /\ run' = [run EXCEPT !.n = @ + 1, !.content = Pod.dump]
    <3>1. run'.n = run.n + 1 /\ run'.pod = run.pod
      BY <2>2, <1>0 DEF RunType
    <3>2. run.n >= 0
      BY <1>0 DEF RunType
    <3>3. \A o \in objects : o \in Int
      BY DEF TypeOK
    <3> QED
      BY <1>19, <1>0, <2>2, <3>1, <3>2, <3>3 DEF OpenStream, Steps
  <2> QED
    BY <1>19, <2>1, <2>2 DEF OpenStream
<1>20. CASE Finish
  <2>1. CASE objects' = objects \cup {run.n} /\ uploads' = uploads \ {run.n}
    BY <1>20, <1>0, <2>1 DEF Finish, Steps
  <2>2. CASE Goto("abort") /\ UNCHANGED bucket
    BY <1>20, <1>0, <2>2 DEF Finish, Steps
  <2> QED
    BY <1>20, <2>1, <2>2 DEF Finish
<1>21. CASE Abort
  BY <1>0, <1>21 DEF Abort, SeenType
<1>22. CASE ListBackups
  <2>1. CASE Goto("report") /\ UNCHANGED run
    BY <1>22, <2>1 DEF ListBackups, Steps
  <2>2. CASE /\ held.spec.retention > 0 /\ Goto("delete")
             /\ run' = [run EXCEPT !.doomed = Doomed(objects, held.spec.retention)]
    <3>1. run.n \notin Doomed(objects, held.spec.retention)
      <4>1. held.spec.retention \in Nat
        BY SpecsAssumption DEF TypeOK, CRType, SpecType
      <4>2. objects \in SUBSET Int
        BY DEF TypeOK
      <4> QED
        BY <1>0, <2>2, <4>1, <4>2, NewestIsKept
    <3>2. run'.doomed = Doomed(objects, held.spec.retention) /\ run'.n = run.n /\ run'.pod = run.pod
      BY <1>0, <2>2 DEF RunType
    <3> QED
      BY <1>22, <2>2, <3>1, <3>2 DEF ListBackups, Steps
  <2> QED
    BY <1>22, <2>1, <2>2 DEF ListBackups
<1>23. CASE DeleteObject
  BY <1>0, <1>23 DEF DeleteObject, RunType
<1>24. CASE Deleted
  BY <1>0, <1>24 DEF Deleted, Steps
<1>25. CASE ReportFailure
  BY <1>0, <1>25, PhaseWritten DEF ReportFailure, EndRun, NoRun
<1>26. CASE ReportCompleted
  BY <1>0, <1>26 DEF ReportCompleted, EndRun, NoRun, Written, NotWritten, Wakes, SeenType
<1>27. CASE Timeout
  BY <1>0, <1>27 DEF Timeout
<1>28. CASE RejectHeader
  BY <1>0, <1>28 DEF RejectHeader, Steps
<1>29. CASE CreateMultipartUpload
  BY <1>0, <1>29 DEF CreateMultipartUpload, SeenType
<1>30. CASE StreamBreaks
  BY <1>0, <1>30 DEF StreamBreaks, Steps
<1>31. CASE TimerFires
  BY <1>0, <1>31 DEF TimerFires, SeenType
<1>32. CASE SlotPasses
  BY <1>0, <1>32 DEF SlotPasses
<1>33. CASE EditSpec
  BY <1>0, <1>33 DEF EditSpec, Edit, SeenType
<1>34. CASE Delete
  BY <1>0, <1>34 DEF Delete, Edit, SeenType, NoStatus
<1>35. CASE Create
  BY <1>0, <1>35 DEF Create, Edit, SeenType, NoStatus
<1>36. CASE Crash
  BY <1>0, <1>36 DEF Crash, EndRun, NoRun, SeenType
<1>37. ASSUME NEW p \in Pods, Write(p) PROVE BookInv'
  BY <1>0, <1>37 DEF Write, SeenType
<1>38. ASSUME NEW p \in Pods, SavePoint(p) PROVE BookInv'
  BY <1>0, <1>38 DEF SavePoint, Fork, SeenType
<1>39. ASSUME NEW p \in Pods, SaveDone(p) PROVE BookInv'
  BY <1>0, <1>39 DEF SaveDone, SeenType
<1>40. ASSUME NEW p \in Pods, SaveFails(p) PROVE BookInv'
  BY <1>0, <1>40 DEF SaveFails, SeenType
<1>41. ASSUME NEW p \in Pods, Restart(p) PROVE BookInv'
  BY <1>0, <1>41 DEF Restart, SeenType
<1>42. ASSUME NEW p \in Pods, ChangeRole(p) PROVE BookInv'
  BY <1>0, <1>42 DEF ChangeRole, SeenType
<1> QED
  BY <1>1, <1>2, <1>3, <1>4, <1>5, <1>6, <1>7, <1>8, <1>9, <1>10, <1>11, <1>12, <1>13, <1>14, <1>15, <1>16, <1>17, <1>18, <1>19, <1>20, <1>21, <1>22, <1>23, <1>24, <1>25, <1>26, <1>27, <1>28, <1>29, <1>30, <1>31, <1>32, <1>33, <1>34, <1>35, <1>36, <1>37, <1>38, <1>39, <1>40, <1>41, <1>42 DEF Next, Pass

-----------------------------------------------------------------------------
(* The snapshot                                                            *)

LEMMA PodFields ==
    ASSUME TypeOK, NEW p \in Pods
    PROVE  /\ redis[p].data \in Int /\ redis[p].saving \in Int /\ redis[p].dump \in Int
           /\ redis[p].data # NoDump
  BY BoundsAssumption DEF TypeOK, PodType, Dump, Dataset, NoDump

\* What a pod has held only grows, and it saves what it holds.
LEMMA StepPodInv == TypeOK /\ RunInv /\ PodInv /\ [Next]_vars => PodInv'
<1> SUFFICES ASSUME TypeOK, RunInv, PodInv, [Next]_vars
             PROVE  PodInv'
  OBVIOUS
<1>1. CASE UNCHANGED redis
  BY <1>1 DEF PodInv
<1>2. ASSUME NEW p \in Pods, NEW r, redis' = [redis EXCEPT ![p] = r],
             r.saving <= r.data, r.dump <= r.data
      PROVE  PodInv'
  BY <1>2 DEF PodInv, TypeOK
<1>3. ASSUME NEW p \in Pods, Fork(p) PROVE PodInv'
  BY <1>3, PodFields DEF PodInv, TypeOK, PodType, Fork
<1>4. CASE BGSave
  <2>1. run.pod \in Pods
    BY <1>4 DEF BGSave, At, RunInv, Steps
  <2> QED
    BY <1>1, <1>3, <1>4, <2>1 DEF BGSave
<1>5. CASE LastSave
  <2>1. run.pod \in Pods
    BY <1>5 DEF LastSave, CallFails, At, RunInv, Steps
  <2>2. CASE redis' = [redis EXCEPT ![run.pod].newer = FALSE]
    BY <2>1, <2>2 DEF PodInv, TypeOK, PodType
  <2> QED
    BY <1>1, <1>5, <2>2 DEF LastSave, CallFails
<1>6. ASSUME NEW p \in Pods, Write(p) PROVE PodInv'
  BY <1>6, PodFields DEF PodInv, TypeOK, PodType, Write
<1>7. ASSUME NEW p \in Pods, SavePoint(p) PROVE PodInv'
  BY <1>3, <1>7 DEF SavePoint
<1>8. ASSUME NEW p \in Pods, SaveDone(p) PROVE PodInv'
  <2>1. PICK newer \in {redis[p].newer, TRUE} :
            redis' = [redis EXCEPT ![p] =
                        [@ EXCEPT !.dump = redis[p].saving, !.saved = redis[p].saving,
                                  !.saving = NoDump, !.ok = TRUE, !.newer = newer]]
    BY <1>8 DEF SaveDone
  <2>2. NoDump <= redis[p].data
    BY BoundsAssumption DEF TypeOK, PodType, Dataset, NoDump
  <2> QED
    BY <1>2, <2>1, <2>2 DEF PodInv, TypeOK, PodType
<1>9. ASSUME NEW p \in Pods, SaveFails(p) \/ Restart(p) PROVE PodInv'
  <2>1. NoDump <= redis[p].data
    BY BoundsAssumption DEF TypeOK, PodType, Dataset, NoDump
  <2>2. CASE SaveFails(p)
    BY <1>2, <2>1, <2>2 DEF PodInv, TypeOK, PodType, SaveFails
  <2>3. CASE Restart(p)
    <3>1. PICK newer \in {redis[p].newer, TRUE}, saved \in {redis[p].saved, redis[p].data} :
              redis' = [redis EXCEPT ![p] =
                          [@ EXCEPT !.saved = saved, !.saving = NoDump, !.ok = TRUE,
                                    !.newer = newer]]
      BY <2>3 DEF Restart
    <3> QED
      BY <1>2, <2>1, <3>1 DEF PodInv, TypeOK, PodType
  <2> QED
    BY <1>9, <2>2, <2>3
<1>10. ASSUME NEW p \in Pods, ChangeRole(p) PROVE PodInv'
  BY <1>10 DEF PodInv, TypeOK, PodType, ChangeRole
<1>11. ASSUME Pass, ~BGSave, ~LastSave PROVE UNCHANGED redis
  BY <1>11 DEF Pass, Begin, NotFound, HandleDeletion, Retry, AddFinalizer, RejectSchedule, Suspend,
     RejectDestination, Refuse, NotYet, StartRun, GetBackupPod, TriggerBGSave, CallFails,
     PersistenceInfo, CompareLastSave, BackupKeyCount, ConnectS3, OpenStream, Finish, Abort,
     ListBackups, DeleteObject, Deleted, ReportFailure, ReportCompleted, notBucket
<1>12. ASSUME Next, ~Pass,
              ~\E p \in Pods : \/ Write(p) \/ SavePoint(p) \/ SaveDone(p) \/ SaveFails(p)
                               \/ Restart(p) \/ ChangeRole(p)
       PROVE  UNCHANGED redis
  BY <1>12 DEF Next, Timeout, RejectHeader, CreateMultipartUpload, StreamBreaks, TimerFires,
     SlotPasses, EditSpec, Delete, Create, Edit, Crash, notBucket, notUser
<1> QED
  BY <1>1, <1>4, <1>5, <1>6, <1>7, <1>8, <1>9, <1>10, <1>11, <1>12 DEF vars

\* The steps of a run at which what the pod saves matters.
Polls == {"lastsave", "wait", "compare", "count", "open", "cat"}

\* Nothing is said of the other steps of a pass.
LEMMA SaveElsewhere == pc' \notin Polls \cup {"stream"} => SaveInv'
  BY DEF SaveInv, Polls, At

\* What happens elsewhere does not matter.
LEMMA SaveFrame ==
    ASSUME SaveInv, UNCHANGED <<pc, run>>, seen'.restart = seen.restart,
           pc \in Polls => redis'[run.pod] = redis[run.pod]
    PROVE  SaveInv'
  BY DEF SaveInv, Polls, At, Pod

\* From BGSAVE to the stream, the dump a run waits for is not an earlier one.
LEMMA StepSaveInv == TypeOK /\ RunInv /\ PodInv /\ SaveInv /\ [Next]_vars => SaveInv'
<1> SUFFICES ASSUME TypeOK, RunInv, PodInv, SaveInv, [Next]_vars
             PROVE  SaveInv'
  OBVIOUS
<1> USE DEF At, Goto, Polls, crVars, bucket, notRedis, notBucket, notPod, notUser
<1>0. ASSUME pc \in Polls \cup {"trigger", "bgsave"}
      PROVE  /\ run.pod \in Pods /\ Pod = redis[run.pod] /\ Pod.data # NoDump
             /\ Pod.data \in Int /\ Pod.saving \in Int /\ Pod.dump \in Int
             /\ Pod.saving <= Pod.data /\ Pod.dump <= Pod.data
  <2>1. run.pod \in Pods BY <1>0 DEF RunInv, Steps
  <2> QED BY <2>1, PodFields DEF PodInv, Pod
<1>1. run \in RunType /\ run.asked \in Int
  BY DEF TypeOK, RunType, Dataset
<1>2. CASE UNCHANGED vars
  BY <1>2, SaveFrame DEF vars
<1>3. CASE \/ Begin \/ NotFound \/ HandleDeletion \/ RejectSchedule \/ Suspend \/ RejectDestination
           \/ NotYet \/ StartRun \/ GetBackupPod \/ Finish \/ Abort \/ ListBackups \/ DeleteObject
           \/ Deleted \/ ReportFailure \/ ReportCompleted \/ Timeout \/ RejectHeader \/ StreamBreaks
           \/ Crash
  BY <1>3, SaveElsewhere DEF Begin, NotFound, HandleDeletion, Retry, RejectSchedule, Suspend,
     RejectDestination, Refuse, NoRunNeeded, NotYet, StartRun, GetBackupPod, Finish, Abort, ListBackups,
     DeleteObject, Deleted, ReportFailure, ReportCompleted, Timeout, RejectHeader, StreamBreaks, Crash
<1>4. CASE AddFinalizer
  BY <1>4, SaveFrame, SaveElsewhere DEF AddFinalizer, Retry
<1>5. CASE CreateMultipartUpload
  BY <1>5, SaveFrame, SaveElsewhere DEF CreateMultipartUpload
<1>6. CASE TimerFires \/ SlotPasses
  BY <1>6, SaveFrame DEF TimerFires, SlotPasses, TypeOK, SeenType
<1>7. CASE EditSpec \/ Delete \/ Create
  BY <1>7, SaveFrame DEF EditSpec, Delete, Create, Edit, TypeOK, SeenType
<1>8. CASE TriggerBGSave
  <2>1. CASE pc' = "lastsave"
    <3>1. /\ Pod.saving # NoDump /\ run' = [run EXCEPT !.asked = Pod.saving] /\ pc = "trigger"
          /\ UNCHANGED <<redis, seen>>
      BY <1>8, <2>1 DEF TriggerBGSave, CallFails
    <3>2. run'.asked = Pod.saving /\ run'.pod = run.pod
      BY <1>1, <3>1 DEF RunType
    <3> QED BY <1>0, <2>1, <3>1, <3>2 DEF SaveInv, Pod
  <2> QED BY <1>8, <2>1, SaveElsewhere DEF TriggerBGSave, CallFails
<1>9. CASE BGSave
  <2>1. CASE Goto("failed") BY <2>1, SaveElsewhere
  <2>2. CASE Goto("lastsave") /\ Fork(run.pod) /\ run' = [run EXCEPT !.asked = Pod.data]
    <3>1. run'.asked = Pod.data /\ run'.pod = run.pod
      BY <1>1, <2>2 DEF RunType
    <3>2. redis'[run.pod].saving = Pod.data /\ redis'[run.pod].data = Pod.data
      BY <1>0, <1>9, <2>2 DEF BGSave, Fork, TypeOK, PodType
    <3> QED BY <1>0, <1>9, <2>2, <3>1, <3>2 DEF BGSave, SaveInv, Pod
  <2>3. CASE Goto("lastsave") /\ Pod.saving # NoDump /\ run' = [run EXCEPT !.asked = Pod.saving]
             /\ UNCHANGED redis
    <3>1. run'.asked = Pod.saving /\ run'.pod = run.pod
      BY <1>1, <2>3 DEF RunType
    <3> QED BY <1>0, <1>9, <2>3, <3>1 DEF BGSave, SaveInv, Pod
  <2> QED BY <1>9, <2>1, <2>2, <2>3 DEF BGSave
<1>10. CASE LastSave
  <2>1. CASE Goto("failed") BY <2>1, SaveElsewhere
  <2>2. CASE /\ pc = "lastsave" /\ Goto("wait") /\ redis' = [redis EXCEPT ![run.pod].newer = FALSE]
             /\ UNCHANGED <<run, seen>>
    <3>1. /\ Pod'.saving = Pod.saving /\ Pod'.data = Pod.data /\ Pod'.dump = Pod.dump
          /\ Pod'.ok = Pod.ok
      BY <1>0, <2>2 DEF Pod, TypeOK, PodType
    <3> QED BY <2>2, <3>1 DEF SaveInv
  <2> QED BY <1>10, <2>1, <2>2 DEF LastSave, CallFails
<1>11. CASE PersistenceInfo
  <2>1. CASE Goto("failed") BY <2>1, SaveElsewhere
  <2>2. CASE Goto("compare") /\ Pod.ok /\ run' = [run EXCEPT !.clean = Pod.saved = Pod.data]
    <3>1. run'.asked = run.asked /\ run'.pod = run.pod
      BY <1>1, <2>2 DEF RunType
    <3> QED BY <1>11, <2>2, <3>1 DEF PersistenceInfo, SaveInv, Pod
  <2> QED BY <1>11, <2>1, <2>2 DEF PersistenceInfo
<1>12. CASE CompareLastSave
  BY <1>12 DEF CompareLastSave, SaveInv, Pod
<1>13. CASE BackupKeyCount
  <2>1. run'.asked = run.asked /\ run'.pod = run.pod
    BY <1>1, <1>13 DEF BackupKeyCount, RunType
  <2> QED BY <1>13, <2>1 DEF BackupKeyCount, SaveInv, Pod
<1>14. CASE ConnectS3
  BY <1>14 DEF ConnectS3, SaveInv, Pod
<1>15. CASE OpenStream
  <2>1. CASE Goto("failed") BY <2>1, SaveElsewhere
  <2>2. CASE Goto("stream") /\ run' = [run EXCEPT !.n = @ + 1, !.content = Pod.dump]
    <3>1. run'.asked = run.asked /\ run'.content = Pod.dump
      BY <1>1, <2>2 DEF RunType
    <3> QED BY <1>15, <2>2, <3>1 DEF OpenStream, SaveInv
  <2> QED BY <1>15, <2>1, <2>2 DEF OpenStream
<1>16. ASSUME NEW p \in Pods,
              Write(p) \/ SavePoint(p) \/ SaveDone(p) \/ SaveFails(p) \/ Restart(p) \/ ChangeRole(p)
       PROVE  SaveInv'
  <2>1. UNCHANGED <<pc, run>>
    BY <1>16 DEF Write, SavePoint, SaveDone, SaveFails, Restart, ChangeRole
  <2>2. CASE pc \notin Polls \cup {"stream"} BY <2>1, <2>2, SaveElsewhere
  <2>3. CASE pc = "stream"
    BY <1>16, <2>1, <2>3
    DEF Write, SavePoint, SaveDone, SaveFails, Restart, ChangeRole, SaveInv, TypeOK, SeenType
  <2>4. CASE pc \in Polls /\ run.pod # p
    <3>1. redis'[run.pod] = redis[run.pod]
      BY <1>0, <1>16, <2>4
      DEF Write, SavePoint, Fork, SaveDone, SaveFails, Restart, ChangeRole, TypeOK
    <3>2. seen'.restart = seen.restart
      BY <1>16, <2>4
      DEF Write, SavePoint, SaveDone, SaveFails, Restart, ChangeRole, TypeOK, SeenType
    <3> QED BY <2>1, <3>1, <3>2, SaveFrame
  <2>5. CASE pc \in Polls /\ run.pod = p
    <3>0. redis[p] \in PodType /\ Pod = redis[p] /\ Pod' = redis'[p]
      BY <2>1, <2>5 DEF TypeOK, Pod
    <3>1. CASE Write(p)
      <4>1. /\ Pod'.saving = Pod.saving /\ Pod'.data = Pod.data + 1 /\ Pod'.dump = Pod.dump
            /\ Pod'.ok = Pod.ok
        BY <3>0, <3>1 DEF Write, TypeOK, PodType
      <4> QED BY <1>0, <1>1, <2>1, <2>5, <3>1, <4>1 DEF Write, SaveInv
    <3>2. CASE SavePoint(p)
      <4>1. Pod'.saving = Pod.data /\ Pod'.data = Pod.data /\ Pod'.dump = Pod.dump
        BY <3>0, <3>2 DEF SavePoint, Fork, TypeOK, PodType
      <4> QED BY <1>0, <2>1, <2>5, <3>2, <4>1 DEF SavePoint, SaveInv
    <3>3. CASE SaveDone(p)
      <4>1. Pod'.saving = NoDump /\ Pod'.data = Pod.data /\ Pod'.dump = Pod.saving
        BY <3>0, <3>3 DEF SaveDone, TypeOK, PodType
      <4> QED BY <1>0, <2>1, <2>5, <3>0, <3>3, <4>1 DEF SaveDone, SaveInv
    <3>4. CASE SaveFails(p)
      <4>1. Pod'.saving = NoDump /\ Pod'.data = Pod.data /\ Pod'.dump = Pod.dump /\ ~Pod'.ok
        BY <3>0, <3>4 DEF SaveFails, TypeOK, PodType
      <4> QED BY <1>0, <2>1, <2>5, <3>4, <4>1 DEF SaveFails, SaveInv
    <3>5. CASE Restart(p)
      <4>1. seen'.restart
        BY <2>5, <3>5 DEF Restart, TypeOK, SeenType
      <4> QED BY <4>1 DEF SaveInv
    <3>6. CASE ChangeRole(p)
      <4>1. /\ Pod'.saving = Pod.saving /\ Pod'.data = Pod.data /\ Pod'.dump = Pod.dump
            /\ Pod'.ok = Pod.ok
        BY <3>0, <3>6 DEF ChangeRole, TypeOK, PodType
      <4> QED BY <2>1, <2>5, <3>6, <4>1 DEF ChangeRole, SaveInv
    <3> QED BY <1>16, <3>1, <3>2, <3>3, <3>4, <3>5, <3>6
  <2> QED BY <2>2, <2>3, <2>4, <2>5
<1> QED
  BY <1>2, <1>3, <1>4, <1>5, <1>6, <1>7, <1>8, <1>9, <1>10, <1>11, <1>12, <1>13, <1>14, <1>15, <1>16
  DEF Next, Pass

-----------------------------------------------------------------------------
(* The theorems                                                            *)

LEMMA InitIndInv == Init => IndInv
<1> SUFFICES ASSUME Init
             PROVE  IndInv
  OBVIOUS
<1>1. RunInv /\ BucketInv /\ UploadInv /\ WakeInv /\ CountDescribesLocation /\ SaveInv
  BY DEF Init, RunInv, BucketInv, UploadInv, WakeInv, CountDescribesLocation, SaveInv, At, NoStatus
<1>2. PodInv
  BY DEF Init, PodInv, NoDump
<1> QED
  BY <1>1, <1>2, InitTypeOK DEF IndInv

LEMMA StepIndInv == IndInv /\ [Next]_vars => IndInv'
  BY NextTypeOK, StepBookInv, StepPodInv, StepSaveInv DEF IndInv, BookInv

\* The invariant of BackupRun holds in every reachable state.
THEOREM Invariance == Spec => []IndInv
  BY InitIndInv, StepIndInv, PTL DEF Spec

\* Every reconcile pass, BGSAVE, upload and status write keeps the declared types.
THEOREM TypeCorrect == Spec => []TypeOK
<1>1. IndInv => TypeOK
  BY DEF IndInv
<1> QED
  BY <1>1, Invariance, PTL

\* waitForBGSave never lets the run stream a dump older than the BGSAVE it asked for,
\* unless the pod restarted during the run.
THEOREM SnapshotCorrect == Spec => []SnapshotIsNew
<1>1. IndInv => SnapshotIsNew
  BY DEF IndInv, SaveInv, SnapshotIsNew, TypeOK, RunType, Dataset, At
<1> QED
  BY <1>1, Invariance, PTL

\* Between runs every multipart upload in progress is one whose abort failed, whose
\* creation was not answered or whose operator died.
THEOREM UploadsCorrect == Spec => []NoAbandonedUpload
<1>1. IndInv => NoAbandonedUpload
  BY DEF IndInv, UploadInv, NoAbandonedUpload, At
<1> QED
  BY <1>1, Invariance, PTL

\* The key count in status belongs to the object status names.
THEOREM CountCorrect == Spec => []CountDescribesLocation
<1>1. IndInv => CountDescribesLocation
  BY DEF IndInv
<1> QED
  BY <1>1, Invariance, PTL

\* Every run answers an edit, a timer or a start of the operator that no run before it
\* answered: a failed run and a status write put nothing into the queue.
THEOREM NoHotLoopCorrect == Spec => NoHotLoop
<1>1. IndInv => [At("check") /\ pc' = "choose" => seen.reason]_vars
  BY DEF IndInv, WakeInv
<1> QED
  BY <1>1, Invariance, PTL DEF NoHotLoop

-----------------------------------------------------------------------------
(* The catalog                                                             *)

\* The steps that touch neither the bucket nor the location in status.
LEMMA CatalogFrame ==
    ASSUME UNCHANGED objects, status'.location = status.location
    PROVE  [Catalog!CatalogNext]_(Catalog!catalog)
  BY DEF Catalog!catalog

\* The RedisBackup goes away, or a new one of its name has no status yet.
LEMMA CatalogForgets ==
    ASSUME UNCHANGED objects, status' = NoStatus
    PROVE  [Catalog!CatalogNext]_(Catalog!catalog)
  BY DEF Catalog!CatalogNext, Catalog!Forget, NoStatus

LEMMA StepCatalog == IndInv /\ [Next]_vars => [Catalog!CatalogNext]_(Catalog!catalog)
<1> SUFFICES ASSUME IndInv, [Next]_vars
             PROVE  [Catalog!CatalogNext]_(Catalog!catalog)
  OBVIOUS
<1>0. TypeOK /\ RunInv /\ BucketInv
  BY DEF IndInv
<1> USE DEF At, Goto, crVars, bucket, notRedis, notBucket, notPod, notUser
<1>1. CASE UNCHANGED <<objects, status>>
  BY <1>1, CatalogFrame
<1>2. CASE HandleDeletion \/ EditSpec \/ Delete \/ Create
  BY <1>2, CatalogFrame, CatalogForgets DEF HandleDeletion, Retry, EditSpec, Delete, Create, Edit
<1>3. CASE RejectSchedule \/ Suspend \/ RejectDestination \/ StartRun \/ ReportFailure
  BY <1>0, <1>3, PhaseWritten, CatalogFrame
  DEF RejectSchedule, Suspend, RejectDestination, Refuse, StartRun, ReportFailure
<1>4. ASSUME pc \in {"stream", "list", "delete", "report"} PROVE run.n \in Catalog!Runs
  BY <1>0, <1>4, BoundsAssumption DEF TypeOK, RunInv, RunType, Catalog!Runs
<1>5. CASE Finish
  <2>1. CASE objects' = objects \cup {run.n}
    <3>1. \A o \in objects : o < run.n
      BY <1>0, <1>5 DEF Finish, BucketInv, TypeOK, RunType
    <3>2. Catalog!Store(run.n)
      BY <1>5, <2>1, <3>1 DEF Finish, Catalog!Store
    <3> QED BY <1>4, <1>5, <3>2 DEF Finish, Catalog!CatalogNext
  <2> QED BY <1>1, <1>5, <2>1 DEF Finish
<1>6. CASE DeleteObject
  <2>1. PICK o \in run.doomed : objects' \in {objects, objects \ {o}}
    BY <1>6 DEF DeleteObject
  <2>2. CASE o \in objects /\ objects' = objects \ {o}
    <3>1. Catalog!Expire(run.n, {o})
      BY <1>0, <1>6, <2>1, <2>2 DEF DeleteObject, BucketInv, Catalog!Expire, Catalog!Newest
    <3>2. run.n \in Catalog!Runs /\ {o} \in SUBSET objects
      BY <1>4, <1>6, <2>2 DEF DeleteObject
    <3> QED BY <3>1, <3>2 DEF Catalog!CatalogNext
  <2>3. CASE objects' = objects
    BY <1>1, <1>6, <2>3 DEF DeleteObject
  <2> QED BY <2>1, <2>2, <2>3
<1>7. CASE ReportCompleted
  <2>1. CASE NotWritten BY <1>1, <1>7, <2>1 DEF ReportCompleted, NotWritten
  <2>2. CASE status'.location = run.n
    <3>1. Catalog!ReportNewest(run.n)
      BY <1>0, <1>7, <2>2 DEF ReportCompleted, BucketInv, Catalog!ReportNewest, Catalog!Newest
    <3> QED BY <1>4, <1>7, <3>1 DEF ReportCompleted, Catalog!CatalogNext
  <2> QED BY <1>7, <2>1, <2>2 DEF ReportCompleted, Written
<1>8. CASE \/ Begin \/ NotFound \/ AddFinalizer \/ NotYet \/ GetBackupPod \/ TriggerBGSave \/ BGSave
           \/ LastSave \/ PersistenceInfo \/ CompareLastSave \/ BackupKeyCount \/ ConnectS3
           \/ OpenStream \/ Abort \/ ListBackups \/ Deleted
  BY <1>1, <1>8 DEF Begin, NotFound, AddFinalizer, Retry, NotYet, GetBackupPod, TriggerBGSave,
     CallFails, BGSave, LastSave, PersistenceInfo, CompareLastSave, BackupKeyCount, ConnectS3,
     OpenStream, Abort, ListBackups, Deleted
<1>9. CASE \/ Timeout \/ RejectHeader \/ CreateMultipartUpload \/ StreamBreaks \/ TimerFires
           \/ SlotPasses \/ Crash \/ UNCHANGED vars
  BY <1>1, <1>9 DEF Timeout, RejectHeader, CreateMultipartUpload, StreamBreaks, TimerFires,
     SlotPasses, Crash, vars
<1>10. ASSUME NEW p \in Pods,
              Write(p) \/ SavePoint(p) \/ SaveDone(p) \/ SaveFails(p) \/ Restart(p) \/ ChangeRole(p)
       PROVE  UNCHANGED <<objects, status>>
  BY <1>10 DEF Write, SavePoint, SaveDone, SaveFails, Restart, ChangeRole
<1> QED
  BY <1>1, <1>2, <1>3, <1>5, <1>6, <1>7, <1>8, <1>9, <1>10 DEF Next, Pass

\* The controller implements BackupCatalog: what it stores is newer than what is there,
\* status names the newest object, and retention never takes it away.
THEOREM Implementation == Spec => ImplementsCatalog
<1>1. Init => Catalog!CatalogInit
  BY DEF Init, NoStatus, Catalog!CatalogInit
<1> QED
  BY <1>1, Invariance, StepCatalog, PTL DEF Spec, ImplementsCatalog, Catalog!CatalogSpec

Promise == INSTANCE BackupCatalogProofs WITH stored <- objects, reported <- status.location

\* What BackupCatalog promises holds of the controller: a cluster that was backed up
\* keeps an object at least as recent as the one status names.
THEOREM ReportCorrect == Spec => []Catalog!Covered
<1>1. Catalog!CatalogInit => Promise!CatalogInit
  BY DEF Catalog!CatalogInit, Promise!CatalogInit
<1>2. [Catalog!CatalogNext]_(Catalog!catalog) => [Promise!CatalogNext]_(Promise!catalog)
  BY DEF Catalog!CatalogNext, Catalog!catalog, Catalog!Store, Catalog!ReportNewest, Catalog!Expire,
     Catalog!Forget, Catalog!Newest, Catalog!Runs, Promise!CatalogNext, Promise!catalog,
     Promise!Store, Promise!ReportNewest, Promise!Expire, Promise!Forget, Promise!Newest, Promise!Runs
<1>3. Promise!Covered => Catalog!Covered
  BY DEF Promise!Covered, Catalog!Covered
<1>4. Promise!CatalogSpec => []Promise!Covered
  BY Promise!ReportIsCovered
<1> QED
  BY <1>1, <1>2, <1>3, <1>4, Implementation, PTL
  DEF ImplementsCatalog, Catalog!CatalogSpec, Promise!CatalogSpec
=============================================================================
