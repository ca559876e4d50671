------------------------- MODULE RestoreFlowProofs -------------------------
(***************************************************************************)
(* Proofs about RestoreFlow for any number of objects, pods and sentinels  *)
(* and every bound. What a run promises holds as long as one RedisRestore  *)
(* is at work and nothing failed over (Undisturbed): the code ensures      *)
(* neither, and with either disturbed the promises fail.                   *)
(***************************************************************************)
EXTENDS RestoreFlow, TLAPS

-----------------------------------------------------------------------------
(* What a step does to each part of the state.                             *)

\* The steps that touch the life of an object.
LEMMA LifeChanges ==
    ASSUME [Next]_vars
    PROVE  \/ UNCHANGED life
           \/ DeletionDone
           \/ \E c \in Restores : UserDeletes(c)
<1> USE DEF ClusterUnchanged, crVars, passVars, podVars, sentinelVars, syncVars, history
<1>1. CASE Phase
  BY <1>1 DEF Phase, StartRun, Conflict, TargetDown, GatePassed, Refused, Stage,
     WriteRestoring, PayloadLost, PayloadConsumed, PayloadPresent, ListSentinels, RaiseDone,
     Shutdown, VerifyFails, Verified, EnableAof, LowerDone, WriteCompleted, SweepDone,
     Reaof, WriteFailed, Raise, Lower, Sweep, SetDownAfter
<1>2. CASE (\E c \in Restores : Begin(c)) \/ Sync \/ RefreshMaster \/ Tick
  BY <1>2 DEF Begin, Sync, BeginPass, BeginDeletion, SyncRead, SyncSet, RefreshMaster, Tick
<1>3. CASE Environment
  BY <1>3 DEF Environment, UserDeletesCluster, UserEditsSpec, PassFails, OperatorRestarts, Boot, Replicate,
     Crash, Failover, SentinelStops, SentinelStarts
<1> QED
  BY <1>1, <1>2, <1>3 DEF Next, vars

\* The steps that touch its finalizer or its generation.
LEMMA SpecChanges ==
    ASSUME [Next]_vars
    PROVE  \/ UNCHANGED <<finalizer, gen>>
           \/ \E c \in Restores : BeginPass(c) \/ UserEditsSpec(c)
<1> USE DEF ClusterUnchanged, crVars, passVars, podVars, sentinelVars, syncVars, history
<1>1. CASE Phase
  BY <1>1 DEF Phase, StartRun, Conflict, TargetDown, GatePassed, Refused, Stage,
     WriteRestoring, PayloadLost, PayloadConsumed, PayloadPresent, ListSentinels, RaiseDone,
     Shutdown, VerifyFails, Verified, EnableAof, LowerDone, WriteCompleted, SweepDone,
     Reaof, WriteFailed, DeletionDone, Raise, Lower, Sweep, SetDownAfter
<1>2. CASE (\E c \in Restores : Begin(c)) \/ Sync \/ RefreshMaster \/ Tick
  BY <1>2 DEF Begin, Sync, BeginDeletion, SyncRead, SyncSet, RefreshMaster, Tick
<1>3. CASE Environment
  BY <1>3 DEF Environment, UserDeletesCluster, UserDeletes, PassFails, OperatorRestarts, Boot, Replicate, Crash,
     Failover, SentinelStops, SentinelStarts
<1> QED
  BY <1>1, <1>2, <1>3 DEF Next, vars

\* The steps that touch its phase.
LEMMA StatusChanges ==
    ASSUME [Next]_vars
    PROVE  \/ UNCHANGED <<phase, observed>>
           \/ StartRun \/ GatePassed \/ WriteRestoring \/ PayloadLost \/ PayloadConsumed \/ WriteCompleted \/ WriteFailed
<1> USE DEF ClusterUnchanged, crVars, passVars, podVars, sentinelVars, syncVars, history
<1>1. CASE Phase
  BY <1>1 DEF Phase, Conflict, TargetDown, Refused, Stage, PayloadPresent, ListSentinels,
     RaiseDone, Shutdown, VerifyFails, Verified, EnableAof, LowerDone, SweepDone, Reaof,
     DeletionDone, Raise, Lower, Sweep, SetDownAfter
<1>2. CASE (\E c \in Restores : Begin(c)) \/ Sync \/ RefreshMaster \/ Tick
  BY <1>2 DEF Begin, Sync, BeginPass, BeginDeletion, SyncRead, SyncSet, RefreshMaster, Tick
<1>3. CASE Environment
  BY <1>3 DEF Environment, UserDeletesCluster, UserEditsSpec, UserDeletes, PassFails, OperatorRestarts, Boot,
     Replicate, Crash, Failover, SentinelStops, SentinelStarts
<1> QED
  BY <1>1, <1>2, <1>3 DEF Next, vars

\* The steps that touch its breadcrumb.
LEMMA CrumbChanges ==
    ASSUME [Next]_vars
    PROVE  \/ UNCHANGED crumb
           \/ StartRun \/ PayloadPresent \/ WriteCompleted \/ WriteFailed
<1> USE DEF ClusterUnchanged, crVars, passVars, podVars, sentinelVars, syncVars, history
<1>1. CASE Phase
  BY <1>1 DEF Phase, Conflict, TargetDown, GatePassed, Refused, Stage, WriteRestoring,
     PayloadLost, PayloadConsumed, ListSentinels, RaiseDone, Shutdown, VerifyFails,
     Verified, EnableAof, LowerDone, SweepDone, Reaof, DeletionDone, Raise, Lower, Sweep,
     SetDownAfter
<1>2. CASE (\E c \in Restores : Begin(c)) \/ Sync \/ RefreshMaster \/ Tick
  BY <1>2 DEF Begin, Sync, BeginPass, BeginDeletion, SyncRead, SyncSet, RefreshMaster, Tick
<1>3. CASE Environment
  BY <1>3 DEF Environment, UserDeletesCluster, UserEditsSpec, UserDeletes, PassFails, OperatorRestarts, Boot,
     Replicate, Crash, Failover, SentinelStops, SentinelStarts
<1> QED
  BY <1>1, <1>2, <1>3 DEF Next, vars

\* The steps that touch what else its status records of a run.
LEMMA RunChanges ==
    ASSUME [Next]_vars
    PROVE  \/ UNCHANGED <<replaced, age>>
           \/ StartRun \/ PayloadConsumed \/ Tick
<1> USE DEF ClusterUnchanged, crVars, passVars, podVars, sentinelVars, syncVars, history
<1>1. CASE Phase
  BY <1>1 DEF Phase, Conflict, TargetDown, GatePassed, Refused, Stage, WriteRestoring,
     PayloadLost, PayloadPresent, ListSentinels, RaiseDone, Shutdown, VerifyFails, Verified,
     EnableAof, LowerDone, WriteCompleted, SweepDone, Reaof, WriteFailed, DeletionDone,
     Raise, Lower, Sweep, SetDownAfter
<1>2. CASE (\E c \in Restores : Begin(c)) \/ Sync \/ RefreshMaster \/ Tick
  BY <1>2 DEF Begin, Sync, BeginPass, BeginDeletion, SyncRead, SyncSet, RefreshMaster
<1>3. CASE Environment
  BY <1>3 DEF Environment, UserDeletesCluster, UserEditsSpec, UserDeletes, PassFails, OperatorRestarts, Boot,
     Replicate, Crash, Failover, SentinelStops, SentinelStarts
<1> QED
  BY <1>1, <1>2, <1>3 DEF Next, vars

\* The steps that touch a container.
LEMMA PodChanges ==
    ASSUME [Next]_vars
    PROVE  \/ UNCHANGED <<up, data>>
           \/ Shutdown
           \/ \E n \in Redis : Boot(n) \/ Replicate(n) \/ Crash(n)
<1> USE DEF ClusterUnchanged, crVars, passVars, podVars, sentinelVars, syncVars, history
<1>1. CASE Phase
  BY <1>1 DEF Phase, StartRun, Conflict, TargetDown, GatePassed, Refused, Stage,
     WriteRestoring, PayloadLost, PayloadConsumed, PayloadPresent, ListSentinels, RaiseDone,
     VerifyFails, Verified, EnableAof, LowerDone, WriteCompleted, SweepDone, Reaof,
     WriteFailed, DeletionDone, Raise, Lower, Sweep, SetDownAfter
<1>2. CASE (\E c \in Restores : Begin(c)) \/ Sync \/ RefreshMaster \/ Tick
  BY <1>2 DEF Begin, Sync, BeginPass, BeginDeletion, SyncRead, SyncSet, RefreshMaster, Tick
<1>3. CASE Environment
  BY <1>3 DEF Environment, UserDeletesCluster, UserEditsSpec, UserDeletes, PassFails, OperatorRestarts,
     Failover, SentinelStops, SentinelStarts
<1> QED
  BY <1>1, <1>2, <1>3 DEF Next, vars

\* The steps that touch an append only file.
LEMMA AofChanges ==
    ASSUME [Next]_vars
    PROVE  \/ UNCHANGED <<aof, aofDir>>
           \/ EnableAof \/ Reaof
           \/ \E n \in Redis : Boot(n) \/ Replicate(n)
<1> USE DEF ClusterUnchanged, crVars, passVars, podVars, sentinelVars, syncVars, history
<1>1. CASE Phase
  BY <1>1 DEF Phase, StartRun, Conflict, TargetDown, GatePassed, Refused, Stage,
     WriteRestoring, PayloadLost, PayloadConsumed, PayloadPresent, ListSentinels, RaiseDone,
     Shutdown, VerifyFails, Verified, LowerDone, WriteCompleted, SweepDone, WriteFailed,
     DeletionDone, Raise, Lower, Sweep, SetDownAfter
<1>2. CASE (\E c \in Restores : Begin(c)) \/ Sync \/ RefreshMaster \/ Tick
  BY <1>2 DEF Begin, Sync, BeginPass, BeginDeletion, SyncRead, SyncSet, RefreshMaster, Tick
<1>3. CASE Environment
  BY <1>3 DEF Environment, UserDeletesCluster, UserEditsSpec, UserDeletes, PassFails, OperatorRestarts, Crash,
     Failover, SentinelStops, SentinelStarts
<1> QED
  BY <1>1, <1>2, <1>3 DEF Next, vars

\* The steps that touch a payload.
LEMMA PayloadChanges ==
    ASSUME [Next]_vars
    PROVE  \/ UNCHANGED <<payload, served>>
           \/ Stage \/ Tick
           \/ \E n \in Redis : Sweep(n) \/ Boot(n)
<1> USE DEF ClusterUnchanged, crVars, passVars, podVars, sentinelVars, syncVars, history
<1>1. CASE Phase
  BY <1>1 DEF Phase, StartRun, Conflict, TargetDown, GatePassed, Refused, WriteRestoring,
     PayloadLost, PayloadConsumed, PayloadPresent, ListSentinels, RaiseDone, Shutdown,
     VerifyFails, Verified, EnableAof, LowerDone, WriteCompleted, SweepDone, Reaof,
     WriteFailed, DeletionDone, Raise, Lower, SetDownAfter
<1>2. CASE (\E c \in Restores : Begin(c)) \/ Sync \/ RefreshMaster \/ Tick
  BY <1>2 DEF Begin, Sync, BeginPass, BeginDeletion, SyncRead, SyncSet, RefreshMaster
<1>3. CASE Environment
  BY <1>3 DEF Environment, UserDeletesCluster, UserEditsSpec, UserDeletes, PassFails, OperatorRestarts,
     Replicate, Crash, Failover, SentinelStops, SentinelStarts
<1> QED
  BY <1>1, <1>2, <1>3 DEF Next, vars

\* The steps that touch a sentinel's settings.
LEMMA SentinelChanges ==
    ASSUME [Next]_vars
    PROVE  \/ UNCHANGED quiesced
           \/ \E s \in Sentinels : Raise(s) \/ Lower(s) \/ SyncSet(s)
<1> USE DEF ClusterUnchanged, crVars, passVars, podVars, sentinelVars, syncVars, history
<1>1. CASE Phase
  BY <1>1 DEF Phase, StartRun, Conflict, TargetDown, GatePassed, Refused, Stage,
     WriteRestoring, PayloadLost, PayloadConsumed, PayloadPresent, ListSentinels, RaiseDone,
     Shutdown, VerifyFails, Verified, EnableAof, LowerDone, WriteCompleted, SweepDone,
     Reaof, WriteFailed, DeletionDone, Sweep
<1>2. CASE (\E c \in Restores : Begin(c)) \/ Sync \/ RefreshMaster \/ Tick
  BY <1>2 DEF Begin, Sync, BeginPass, BeginDeletion, SyncRead, RefreshMaster, Tick
<1>3. CASE Environment
  BY <1>3 DEF Environment, UserDeletesCluster, UserEditsSpec, UserDeletes, PassFails, OperatorRestarts, Boot,
     Replicate, Crash, Failover, SentinelStops, SentinelStarts
<1> QED
  BY <1>1, <1>2, <1>3 DEF Next, vars

\* The steps of the repair pass.
LEMMA SyncChanges ==
    ASSUME [Next]_vars
    PROVE  \/ UNCHANGED <<syncTodo, syncHold>>
           \/ SyncRead \/ OperatorRestarts
           \/ \E s \in Sentinels : SyncSet(s)
<1> USE DEF ClusterUnchanged, crVars, passVars, podVars, sentinelVars, syncVars, history
<1>1. CASE Phase
  BY <1>1 DEF Phase, StartRun, Conflict, TargetDown, GatePassed, Refused, Stage,
     WriteRestoring, PayloadLost, PayloadConsumed, PayloadPresent, ListSentinels, RaiseDone,
     Shutdown, VerifyFails, Verified, EnableAof, LowerDone, WriteCompleted, SweepDone,
     Reaof, WriteFailed, DeletionDone, Raise, Lower, Sweep, SetDownAfter
<1>2. CASE (\E c \in Restores : Begin(c)) \/ Sync \/ RefreshMaster \/ Tick
  BY <1>2 DEF Begin, Sync, BeginPass, BeginDeletion, RefreshMaster, Tick
<1>3. CASE Environment
  BY <1>3 DEF Environment, UserDeletesCluster, UserEditsSpec, UserDeletes, PassFails, Boot, Replicate, Crash,
     Failover, SentinelStops, SentinelStarts
<1> QED
  BY <1>1, <1>2, <1>3 DEF Next, vars

\* The steps that touch the master, or what status says of it.
LEMMA MasterChanges ==
    ASSUME [Next]_vars
    PROVE  \/ UNCHANGED <<master, statusMaster, failovers>>
           \/ RefreshMaster
           \/ \E n \in Redis : Failover(n)
<1> USE DEF ClusterUnchanged, crVars, passVars, podVars, sentinelVars, syncVars, history
<1>1. CASE Phase
  BY <1>1 DEF Phase, StartRun, Conflict, TargetDown, GatePassed, Refused, Stage,
     WriteRestoring, PayloadLost, PayloadConsumed, PayloadPresent, ListSentinels, RaiseDone,
     Shutdown, VerifyFails, Verified, EnableAof, LowerDone, WriteCompleted, SweepDone,
     Reaof, WriteFailed, DeletionDone, Raise, Lower, Sweep, SetDownAfter
<1>2. CASE (\E c \in Restores : Begin(c)) \/ Sync \/ RefreshMaster \/ Tick
  BY <1>2 DEF Begin, Sync, BeginPass, BeginDeletion, SyncRead, SyncSet, Tick
<1>3. CASE Environment
  BY <1>3 DEF Environment, UserDeletesCluster, UserEditsSpec, UserDeletes, PassFails, OperatorRestarts, Boot,
     Replicate, Crash, SentinelStops, SentinelStarts
<1> QED
  BY <1>1, <1>2, <1>3 DEF Next, vars

\* The steps after which passes are refused.
LEMMA RefusalChanges ==
    ASSUME [Next]_vars
    PROVE  \/ UNCHANGED refusal
           \/ OperatorRestarts \/ UserDeletesCluster
<1> USE DEF ClusterUnchanged, crVars, passVars, podVars, sentinelVars, syncVars, history
<1>1. CASE Phase
  BY <1>1 DEF Phase, StartRun, Conflict, TargetDown, GatePassed, Refused, Stage,
     WriteRestoring, PayloadLost, PayloadConsumed, PayloadPresent, ListSentinels, RaiseDone,
     Shutdown, VerifyFails, Verified, EnableAof, LowerDone, WriteCompleted, SweepDone,
     Reaof, WriteFailed, DeletionDone, Raise, Lower, Sweep, SetDownAfter
<1>2. CASE (\E c \in Restores : Begin(c)) \/ Sync \/ RefreshMaster \/ Tick
  BY <1>2 DEF Begin, Sync, BeginPass, BeginDeletion, SyncRead, SyncSet, RefreshMaster, Tick
<1>3. CASE Environment
  BY <1>3 DEF Environment, UserEditsSpec, UserDeletes, PassFails, Boot, Replicate, Crash,
     Failover, SentinelStops, SentinelStarts
<1> QED
  BY <1>1, <1>2, <1>3 DEF Next, vars

\* The steps that touch what the master is down for.
LEMMA ShutChanges ==
    ASSUME [Next]_vars
    PROVE  \/ UNCHANGED shut
           \/ Shutdown
           \/ \E n \in Redis : Boot(n) \/ Failover(n)
<1> USE DEF ClusterUnchanged, crVars, passVars, podVars, sentinelVars, syncVars, history
<1>1. CASE Phase
  BY <1>1 DEF Phase, StartRun, Conflict, TargetDown, GatePassed, Refused, Stage,
     WriteRestoring, PayloadLost, PayloadConsumed, PayloadPresent, ListSentinels, RaiseDone,
     VerifyFails, Verified, EnableAof, LowerDone, WriteCompleted, SweepDone, Reaof,
     WriteFailed, DeletionDone, Raise, Lower, Sweep, SetDownAfter
<1>2. CASE (\E c \in Restores : Begin(c)) \/ Sync \/ RefreshMaster \/ Tick
  BY <1>2 DEF Begin, Sync, BeginPass, BeginDeletion, SyncRead, SyncSet, RefreshMaster, Tick
<1>3. CASE Environment
  BY <1>3 DEF Environment, UserDeletesCluster, UserEditsSpec, UserDeletes, PassFails, OperatorRestarts,
     Replicate, Crash, SentinelStops, SentinelStarts
<1> QED
  BY <1>1, <1>2, <1>3 DEF Next, vars

\* The steps of a repair pass that misses the breadcrumb.
LEMMA RacedChanges ==
    ASSUME [Next]_vars
    PROVE  \/ UNCHANGED raced
           \/ PayloadPresent \/ SyncRead
<1> USE DEF ClusterUnchanged, crVars, passVars, podVars, sentinelVars, syncVars, history
<1>1. CASE Phase
  BY <1>1 DEF Phase, StartRun, Conflict, TargetDown, GatePassed, Refused, Stage,
     WriteRestoring, PayloadLost, PayloadConsumed, ListSentinels, RaiseDone, Shutdown,
     VerifyFails, Verified, EnableAof, LowerDone, WriteCompleted, SweepDone, Reaof,
     WriteFailed, DeletionDone, Raise, Lower, Sweep, SetDownAfter
<1>2. CASE (\E c \in Restores : Begin(c)) \/ Sync \/ RefreshMaster \/ Tick
  BY <1>2 DEF Begin, Sync, BeginPass, BeginDeletion, SyncSet, RefreshMaster, Tick
<1>3. CASE Environment
  BY <1>3 DEF Environment, UserDeletesCluster, UserEditsSpec, UserDeletes, PassFails, OperatorRestarts, Boot,
     Replicate, Crash, Failover, SentinelStops, SentinelStarts
<1> QED
  BY <1>1, <1>2, <1>3 DEF Next, vars

\* The steps that touch the pass of the reconciler: it begins, goes on or is over.
LEMMA PassChanges ==
    ASSUME [Next]_vars
    PROVE  \/ UNCHANGED passVars
           \/ EndPass
           \/ \E c \in Restores : BeginPass(c) \/ BeginDeletion(c)
           \/ Refused \/ Stage \/ PayloadPresent \/ ListSentinels \/ RaiseDone \/ VerifyFails
           \/ Verified \/ EnableAof \/ LowerDone \/ SweepDone \/ Reaof
           \/ \E s \in Sentinels : Raise(s) \/ Lower(s)
           \/ \E n \in Redis : Sweep(n)
<1>1. CASE Phase
  BY <1>1 DEF Phase, StartRun, Conflict, TargetDown, GatePassed, WriteRestoring, PayloadLost,
     PayloadConsumed, Shutdown, WriteCompleted, WriteFailed, DeletionDone
<1>2. CASE (\E c \in Restores : Begin(c)) \/ Sync \/ RefreshMaster \/ Tick
  BY <1>2 DEF Begin, Sync, SyncRead, SyncSet, RefreshMaster, Tick
<1>3. CASE Environment
  BY <1>3 DEF Environment, UserDeletesCluster, UserEditsSpec, UserDeletes, PassFails, OperatorRestarts, Boot,
     Replicate, Crash, Failover, SentinelStops, SentinelStarts
<1> QED
  BY <1>1, <1>2, <1>3 DEF Next, vars

\* The steps that stop or start a sentinel.
LEMMA SentinelUpChanges ==
    ASSUME [Next]_vars
    PROVE  \/ UNCHANGED sentinelUp
           \/ \E s \in Sentinels : SentinelStops(s) \/ SentinelStarts(s)
<1> USE DEF ClusterUnchanged, crVars, passVars, podVars, sentinelVars, syncVars, history
<1>1. CASE Phase
  BY <1>1 DEF Phase, StartRun, Conflict, TargetDown, GatePassed, Refused, Stage,
     WriteRestoring, PayloadLost, PayloadConsumed, PayloadPresent, ListSentinels, RaiseDone,
     Shutdown, VerifyFails, Verified, EnableAof, LowerDone, WriteCompleted, SweepDone,
     Reaof, WriteFailed, DeletionDone, Raise, Lower, Sweep, SetDownAfter
<1>2. CASE (\E c \in Restores : Begin(c)) \/ Sync \/ RefreshMaster \/ Tick
  BY <1>2 DEF Begin, Sync, BeginPass, BeginDeletion, SyncRead, SyncSet, RefreshMaster, Tick
<1>3. CASE Environment
  BY <1>3 DEF Environment, UserDeletesCluster, UserEditsSpec, UserDeletes, PassFails, OperatorRestarts, Boot,
     Replicate, Crash, Failover
<1> QED
  BY <1>1, <1>2, <1>3 DEF Next, vars

\* A step injects one failure or none.
LEMMA FaultChanges ==
    ASSUME [Next]_vars
    PROVE  UNCHANGED faults \/ Fault
<1> USE DEF ClusterUnchanged, crVars, passVars, podVars, sentinelVars, syncVars, history
<1>1. CASE Phase
  BY <1>1 DEF Phase, StartRun, Conflict, TargetDown, GatePassed, Refused, Stage,
     WriteRestoring, PayloadLost, PayloadConsumed, PayloadPresent, ListSentinels, RaiseDone,
     Shutdown, VerifyFails, Verified, EnableAof, LowerDone, WriteCompleted, SweepDone,
     Reaof, WriteFailed, DeletionDone, Raise, Lower, Sweep, SetDownAfter
<1>2. CASE (\E c \in Restores : Begin(c)) \/ Sync \/ RefreshMaster \/ Tick
  BY <1>2 DEF Begin, Sync, BeginPass, BeginDeletion, SyncRead, SyncSet, RefreshMaster, Tick
<1>3. CASE Environment
  BY <1>3 DEF Environment, UserDeletesCluster, UserEditsSpec, UserDeletes, PassFails, OperatorRestarts, Boot,
     Replicate, Crash, Failover, SentinelStops, SentinelStarts
<1> QED
  BY <1>1, <1>2, <1>3 DEF Next, vars

-----------------------------------------------------------------------------
(* Types.                                                                  *)

\* Where a pass goes first, and why it would not go to the handler of the phase.
LEMMA FirstStages ==
    ASSUME NEW c \in Restores, TypeOK
    PROVE  /\ FirstStage(c) \in {"start", "gate", "download", "check", "verify", "sweep"}
           /\ IF FirstStage(c) = "start" THEN phase[c] = "New" \/ Terminal(c) ELSE ~Terminal(c)
           /\ FirstStage(c) = "gate" => phase[c] = "Pending"
           /\ FirstStage(c) = "download" => phase[c] = "Downloading"
           /\ FirstStage(c) = "check" => phase[c] = "Restoring"
           /\ FirstStage(c) = "verify" => phase[c] = "Verifying" /\ refusal = "none" /\ ~Expired(c)
           /\ FirstStage(c) = "sweep" =>
                  refusal # "none" \/ (phase[c] \in {"Restoring", "Verifying"} /\ Expired(c))
<1>1. phase[c] \in Phases
  BY DEF TypeOK
<1>2. Handler["New"] = "start" /\ Handler["Pending"] = "gate"
      /\ Handler["Downloading"] = "download" /\ Handler["Restoring"] = "check"
      /\ Handler["Verifying"] = "verify"
  BY DEF Handler
<1> HIDE DEF Handler
<1> QED
  BY <1>1, <1>2 DEF Phases, Terminal, TerminalPhases, FirstStage

\* Only a payload somebody staged is armed.
LEMMA ArmedFacts ==
    ASSUME NEW n \in Redis, TypeOK, PassInv, Armed(n)
    PROVE  /\ payload[n].of \in Restores /\ payload[n].gen \in 1..MaxGen
           /\ payload[n].left \in 0..Timeout
  BY RestoreAssumption DEF TypeOK, PassInv, Armed

LEMMA ObjectTypes ==
    ASSUME TypeOK, PassInv, [Next]_vars
    PROVE  /\ life' \in [Restores -> {"live", "deleting", "gone"}]
           /\ finalizer' \in [Restores -> BOOLEAN]
           /\ gen' \in [Restores -> 1..MaxGen]
           /\ observed' \in [Restores -> 0..MaxGen]
           /\ phase' \in [Restores -> Phases]
           /\ crumb' \in [Restores -> BOOLEAN]
           /\ replaced' \in [Restores -> BOOLEAN]
           /\ age' \in [Restores -> 0..Timeout + 1]
<1>1. life' \in [Restores -> {"live", "deleting", "gone"}]
  BY LifeChanges DEF TypeOK, DeletionDone, UserDeletes
<1>2. finalizer' \in [Restores -> BOOLEAN] /\ gen' \in [Restores -> 1..MaxGen]
  <2>1. CASE UNCHANGED <<finalizer, gen>>
    BY <2>1 DEF TypeOK
  <2>2. ASSUME NEW c \in Restores, BeginPass(c)
        PROVE  finalizer' \in [Restores -> BOOLEAN] /\ gen' = gen
    BY <2>2 DEF TypeOK, BeginPass
  <2>3. ASSUME NEW c \in Restores, UserEditsSpec(c)
        PROVE  finalizer' = finalizer /\ gen' \in [Restores -> 1..MaxGen]
    BY <2>3, RestoreAssumption DEF TypeOK, UserEditsSpec
  <2> QED
    BY <2>1, <2>2, <2>3, SpecChanges DEF TypeOK
<1>3. observed' \in [Restores -> 0..MaxGen] /\ phase' \in [Restores -> Phases]
  BY SMTT(30), StatusChanges DEF TypeOK, StartRun, GatePassed, WriteRestoring, PayloadLost,
     PayloadConsumed, WriteCompleted, WriteFailed, UpdateStatus, Phases
<1>4. crumb' \in [Restores -> BOOLEAN]
  <2>1. CASE WriteFailed
    <3>1. crumb' = [crumb EXCEPT ![cur] = crumb[cur] /\ (failed \/ exit # "fail")]
      BY <2>1 DEF WriteFailed
    <3>2. (crumb[cur] /\ (failed \/ exit # "fail")) \in BOOLEAN
      OBVIOUS
    <3> QED
      BY <3>1, <3>2, Zenon DEF TypeOK
  <2> QED
    BY <2>1, CrumbChanges DEF TypeOK, StartRun, PayloadPresent, WriteCompleted
<1>5. replaced' \in [Restores -> BOOLEAN]
  BY RunChanges DEF TypeOK, StartRun, PayloadConsumed, Tick
<1>6. age' \in [Restores -> 0..Timeout + 1]
  <2>1. CASE StartRun \/ PayloadConsumed
    BY <2>1, RestoreAssumption DEF TypeOK, StartRun, PayloadConsumed
  <2>2. CASE Tick
    BY <2>2, RestoreAssumption DEF TypeOK, Tick
  <2> QED
    BY <2>1, <2>2, RunChanges DEF TypeOK
<1> QED
  BY <1>1, <1>2, <1>3, <1>4, <1>5, <1>6

\* The types of a pass.
PassType ==
    /\ pc \in {"idle", "download", "check", "quiesce", "raise", "shutdown", "verify", "aof",
               "sweep", "reaof", "lower"} \cup WriteStages
    /\ cur \in Restores \cup {None}
    /\ seen \in 0..MaxGen
    /\ target \in Redis \cup {None}
    /\ exit \in Refusals \cup {"fail", "delete"}
    /\ todo \subseteq Redis \cup Sentinels
    /\ failed \in BOOLEAN

LEMMA PassTypes ==
    ASSUME TypeOK, [Next]_vars
    PROVE  PassType'
<1>0. PassType
  BY DEF TypeOK, PassType
<1> USE DEF PassType, WriteStages, Refusals
<1>1. CASE UNCHANGED passVars
  BY <1>0, <1>1 DEF passVars
<1>2. CASE EndPass
  <2>1. 0 \in 0..MaxGen
    BY RestoreAssumption
  <2> QED
    BY <1>2, <2>1 DEF EndPass
<1>3. ASSUME NEW c \in Restores, BeginPass(c) PROVE PassType'
  <2>1. pc' \in {"start", "gate", "download", "check", "verify", "sweep"}
    BY <1>3, FirstStages DEF BeginPass
  <2>2. seen' \in 0..MaxGen /\ target' \in Redis \cup {None}
    BY <1>3, RestoreAssumption DEF BeginPass, TypeOK
  <2> QED
    BY <1>0, <1>3, <2>1, <2>2 DEF BeginPass, TypeOK
<1>4. ASSUME NEW c \in Restores, BeginDeletion(c) PROVE PassType'
  <2>1. seen' \in 0..MaxGen /\ target' \in Redis \cup {None}
    BY <1>4, RestoreAssumption DEF BeginDeletion, TypeOK
  <2> QED
    BY <1>0, <1>4, <2>1 DEF BeginDeletion
<1>5. CASE Refused \/ VerifyFails
  BY <1>0, <1>5 DEF Refused, VerifyFails, FailRestore
<1>6. CASE Stage \/ PayloadPresent \/ Verified
  BY <1>0, <1>6 DEF Stage, PayloadPresent, Verified
<1>7. CASE ListSentinels \/ RaiseDone \/ LowerDone
  BY <1>0, <1>2, <1>7 DEF ListSentinels, RaiseDone, LowerDone
<1>8. CASE EnableAof \/ SweepDone \/ Reaof
  BY <1>0, <1>8 DEF EnableAof, SweepDone, Reaof, LiftOrReport, RunningSentinels
<1>9. ASSUME NEW s \in Sentinels, Raise(s) \/ Lower(s) PROVE PassType'
  BY <1>0, <1>9 DEF Raise, Lower, SetDownAfter
<1>10. ASSUME NEW n \in Redis, Sweep(n) PROVE PassType'
  BY <1>0, <1>10 DEF Sweep
<1> QED
  BY <1>1, <1>2, <1>3, <1>4, <1>5, <1>6, <1>7, <1>8, <1>9, <1>10, PassChanges

LEMMA ClusterTypes ==
    ASSUME TypeOK, PassInv, [Next]_vars
    PROVE  /\ up' \in [Redis -> BOOLEAN]
           /\ data' \in [Redis -> Datasets]
           /\ aof' \in [Redis -> BOOLEAN]
           /\ aofDir' \in [Redis -> Datasets \cup {None}]
           /\ payload' \in [Redis -> [of : Restores \cup {None}, gen : 0..MaxGen,
                                      left : -1..Timeout]]
           /\ served' \in [Restores -> 0..MaxGen]
<1> USE DEF TypeOK
<1>1. up' \in [Redis -> BOOLEAN]
  BY PodChanges DEF Shutdown, Boot, Replicate, Crash
<1>2. ASSUME NEW n \in Redis, Boot(n)
      PROVE  /\ data' \in [Redis -> Datasets]
             /\ aof' \in [Redis -> BOOLEAN]
             /\ aofDir' \in [Redis -> Datasets \cup {None}]
             /\ payload' \in [Redis -> [of : Restores \cup {None}, gen : 0..MaxGen,
                                        left : -1..Timeout]]
             /\ served' \in [Restores -> 0..MaxGen]
  <2> DEFINE loads == IF Armed(n) THEN payload[n].of
                      ELSE IF aofDir[n] = None THEN Lost ELSE aofDir[n]
  <2>1. loads \in Datasets
    BY ArmedFacts DEF Datasets
  <2>2. Armed(n) \in BOOLEAN
    BY DEF Armed
  <2>3. data' = [data EXCEPT ![n] = loads]
    BY <1>2 DEF Boot
  <2>4. aofDir' = [aofDir EXCEPT ![n] = IF Armed(n) THEN None ELSE loads]
    BY <1>2 DEF Boot
  <2> HIDE DEF loads
  <2>5. data' \in [Redis -> Datasets] /\ aofDir' \in [Redis -> Datasets \cup {None}]
    BY <2>1, <2>3, <2>4
  <2>6. aof' \in [Redis -> BOOLEAN]
    BY <1>2, <2>2 DEF Boot
  <2>7. NoPayload \in [of : Restores \cup {None}, gen : 0..MaxGen, left : -1..Timeout]
    BY RestoreAssumption DEF NoPayload
  <2>8. payload' \in [Redis -> [of : Restores \cup {None}, gen : 0..MaxGen,
                                left : -1..Timeout]]
    BY <1>2, <2>7 DEF Boot
  <2>9. served' \in [Restores -> 0..MaxGen]
    BY <1>2, ArmedFacts, RestoreAssumption DEF Boot
  <2> QED
    BY <2>5, <2>6, <2>8, <2>9
<1>3. data' \in [Redis -> Datasets]
  BY <1>2, PodChanges DEF Shutdown, Replicate, Crash
<1>4. aof' \in [Redis -> BOOLEAN] /\ aofDir' \in [Redis -> Datasets \cup {None}]
  <2>1. CASE EnableAof \/ Reaof
    <3>1. CASE AppendonlyYes(target)
      <4>1. CASE target \in Redis
        BY <3>1, <4>1 DEF AppendonlyYes
      <4>2. CASE target \notin Redis
        BY <3>1, <4>2 DEF AppendonlyYes
      <4> QED
        BY <4>1, <4>2
    <3> QED
      BY <2>1, <3>1 DEF EnableAof, Reaof
  <2>2. ASSUME NEW n \in Redis, Replicate(n)
        PROVE  aof' = aof /\ aofDir' \in [Redis -> Datasets \cup {None}]
    BY <2>2 DEF Replicate
  <2> QED
    BY <1>2, <2>1, <2>2, AofChanges
<1>5. /\ payload' \in [Redis -> [of : Restores \cup {None}, gen : 0..MaxGen,
                                 left : -1..Timeout]]
      /\ served' \in [Restores -> 0..MaxGen]
  <2>1. CASE Stage
    <3>1. [of |-> cur, gen |-> seen, left |-> Timeout] \in
              [of : Restores \cup {None}, gen : 0..MaxGen, left : -1..Timeout]
      BY RestoreAssumption
    <3>2. payload' = [payload EXCEPT ![target] = [of |-> cur, gen |-> seen, left |-> Timeout]]
      BY <2>1 DEF Stage
    <3>3. served' \in [Restores -> 0..MaxGen]
      <4>1. served' = [served EXCEPT ![cur] = 0] /\ 0 \in 0..MaxGen
        BY <2>1, RestoreAssumption DEF Stage
      <4> QED
        BY <4>1
    <3> QED
      BY <3>1, <3>2, <3>3
  <2>2. CASE Tick
    <3>1. served' = served
      BY <2>2 DEF Tick, history
    <3>2. ASSUME NEW n \in Redis
          PROVE  (IF Armed(n) THEN [payload[n] EXCEPT !.left = @ - 1] ELSE payload[n]) \in
                     [of : Restores \cup {None}, gen : 0..MaxGen, left : -1..Timeout]
      <4>1. CASE Armed(n)
        <5>0. payload[n].left \in 0..Timeout /\ Timeout \in Nat
          <6> HIDE DEF TypeOK
          <6> QED
            BY <4>1, ArmedFacts, RestoreAssumption
        <5>1. payload[n].left - 1 \in -1..Timeout
          BY <5>0
        <5>2. payload[n] \in [of : Restores \cup {None}, gen : 0..MaxGen, left : -1..Timeout]
          OBVIOUS
        <5> QED
          BY <4>1, <5>1, <5>2
      <4> QED
        BY <4>1
    <3> QED
      BY <2>2, <3>1, <3>2 DEF Tick
  <2>3. ASSUME NEW n \in Redis, Sweep(n)
        PROVE  served' = served /\ payload' \in [Redis -> [of : Restores \cup {None},
                   gen : 0..MaxGen, left : -1..Timeout]]
    <3>1. NoPayload \in [of : Restores \cup {None}, gen : 0..MaxGen, left : -1..Timeout]
      BY RestoreAssumption DEF NoPayload
    <3> QED
      BY <2>3, <3>1 DEF Sweep, history
  <2> QED
    BY <1>2, <2>1, <2>2, <2>3, PayloadChanges
<1> QED
  BY <1>1, <1>3, <1>4, <1>5

LEMMA SentinelTypes ==
    ASSUME TypeOK, PassInv, [Next]_vars
    PROVE  /\ sentinelUp' \in [Sentinels -> BOOLEAN]
           /\ quiesced' \in [Sentinels -> BOOLEAN]
           /\ master' \in Redis
           /\ statusMaster' \in Redis
           /\ syncTodo' \subseteq Sentinels
           /\ syncHold' \in BOOLEAN
           /\ refusal' \in Refusals
           /\ failovers' \in 0..MaxFailovers
           /\ faults' \in 0..MaxFaults
           /\ shut' \in Restores \cup {None}
           /\ raced' \in BOOLEAN
<1> USE DEF TypeOK
<1>1. sentinelUp' \in [Sentinels -> BOOLEAN]
  BY SentinelUpChanges DEF SentinelStops, SentinelStarts
<1>2. quiesced' \in [Sentinels -> BOOLEAN]
  BY SentinelChanges DEF Raise, Lower, SyncSet, SetDownAfter
<1>3. master' \in Redis /\ statusMaster' \in Redis /\ failovers' \in 0..MaxFailovers
  <2>1. CASE RefreshMaster
    BY <2>1 DEF RefreshMaster
  <2>2. ASSUME NEW n \in Redis, Failover(n)
        PROVE  master' \in Redis /\ statusMaster' \in Redis /\ failovers' \in 0..MaxFailovers
    <3>1. master' = n /\ statusMaster' = statusMaster /\ failovers' = failovers + 1
          /\ failovers < MaxFailovers
      BY <2>2 DEF Failover
    <3> QED
      BY <3>1, RestoreAssumption
  <2> QED
    BY <2>1, <2>2, MasterChanges
<1>4. syncTodo' \subseteq Sentinels
  BY SyncChanges DEF SyncRead, OperatorRestarts, SyncSet, RunningSentinels
<1>5. syncHold' \in BOOLEAN
  BY SyncChanges DEF SyncRead, OperatorRestarts, SyncSet, Holding
<1>6. refusal' \in Refusals
  BY RefusalChanges DEF OperatorRestarts, UserDeletesCluster, Refusals
<1>7. faults' \in 0..MaxFaults
  BY FaultChanges, RestoreAssumption DEF Fault
<1>8. shut' \in Restores \cup {None}
  <2>1. CASE Shutdown
    BY <2>1 DEF Shutdown
  <2> QED
    BY <2>1, ShutChanges DEF Boot, Failover
<1>9. raced' \in BOOLEAN
  BY RacedChanges DEF PayloadPresent, SyncRead
<1> QED
  BY <1>1, <1>2, <1>3, <1>4, <1>5, <1>6, <1>7, <1>8, <1>9

LEMMA TypeStep ==
    ASSUME TypeOK, PassInv, [Next]_vars
    PROVE  TypeOK'
  BY ObjectTypes, PassTypes, ClusterTypes, SentinelTypes DEF TypeOK, PassType

-----------------------------------------------------------------------------
(* The pass of the reconciler.                                             *)

\* A step that changes the status ends the pass, except the one that writes the breadcrumb.
LEMMA PassGoesOn ==
    ASSUME [Next]_vars, pc' # "idle"
    PROVE  /\ UNCHANGED <<phase, observed>>
           /\ refusal # "none" => refusal' # "none"
           /\ UNCHANGED crumb \/ PayloadPresent
           /\ UNCHANGED age \/ Tick
           /\ UNCHANGED life \/ \E c \in Restores : UserDeletes(c)
<1>1. UNCHANGED <<phase, observed>>
  BY StatusChanges DEF EndPass, StartRun, GatePassed, WriteRestoring, PayloadLost,
     PayloadConsumed, WriteCompleted, WriteFailed
<1>2. UNCHANGED crumb \/ PayloadPresent
  BY CrumbChanges DEF EndPass, StartRun, WriteCompleted, WriteFailed
<1>3. UNCHANGED age \/ Tick
  BY RunChanges DEF EndPass, StartRun, PayloadConsumed
<1>4. UNCHANGED life \/ \E c \in Restores : UserDeletes(c)
  BY LifeChanges DEF EndPass, DeletionDone
<1>5. refusal # "none" => refusal' # "none"
  BY RefusalChanges DEF OperatorRestarts, UserDeletesCluster
<1> QED
  BY <1>1, <1>2, <1>3, <1>4, <1>5

\* A pass that is over leaves nothing behind.
LEMMA PassIsOver ==
    ASSUME TypeOK, [Next]_vars, pc' = "idle"
    PROVE  EndPass \/ (UNCHANGED passVars /\ pc = "idle")
<1>1. ASSUME NEW c \in Restores, BeginPass(c) PROVE FALSE
  BY <1>1, FirstStages DEF BeginPass
<1>2. ASSUME NEW s \in Sentinels, Raise(s) \/ Lower(s) PROVE FALSE
  BY <1>2 DEF Raise, Lower, SetDownAfter
<1>3. ASSUME NEW n \in Redis, Sweep(n) PROVE FALSE
  BY <1>3 DEF Sweep
<1>4. CASE \E c \in Restores : BeginDeletion(c)
  BY <1>4 DEF BeginDeletion
<1>5. CASE Refused \/ Stage \/ PayloadPresent \/ Verified \/ VerifyFails
  BY <1>5 DEF Refused, Stage, PayloadPresent, Verified, VerifyFails, FailRestore
<1>6. CASE ListSentinels \/ RaiseDone \/ LowerDone
  BY <1>6 DEF ListSentinels, RaiseDone, LowerDone
<1>7. CASE EnableAof \/ SweepDone \/ Reaof
  BY <1>7 DEF EnableAof, SweepDone, Reaof, LiftOrReport
<1> QED
  BY <1>1, <1>2, <1>3, <1>4, <1>5, <1>6, <1>7, PassChanges DEF passVars

\* Time does not run backwards: only a new run gets time again.
LEMMA ExpiredStays ==
    ASSUME TypeOK, [Next]_vars, NEW c \in Restores, Expired(c), ~StartRun
    PROVE  Expired(c)'
  BY RunChanges DEF TypeOK, Expired, PayloadConsumed, Tick

\* The object of a pass under way, and the generation it read, stay those it began with.
LEMMA PassKeeps ==
    ASSUME TypeOK, [Next]_vars, pc' # "idle"
    PROVE  \/ \E c \in Restores : BeginPass(c) \/ BeginDeletion(c)
           \/ pc # "idle" /\ UNCHANGED <<cur, seen, target>>
<1>1. CASE EndPass
  BY <1>1 DEF EndPass
<1>2. CASE UNCHANGED passVars
  BY <1>2 DEF passVars
<1>3. CASE Refused \/ Stage \/ PayloadPresent \/ Verified \/ VerifyFails
  BY <1>3 DEF Refused, Stage, PayloadPresent, Verified, VerifyFails
<1>4. CASE ListSentinels \/ RaiseDone \/ LowerDone
  BY <1>1, <1>4 DEF ListSentinels, RaiseDone, LowerDone
<1>5. CASE EnableAof \/ SweepDone \/ Reaof
  BY <1>5 DEF EnableAof, SweepDone, Reaof
<1>6. ASSUME NEW s \in Sentinels, Raise(s) \/ Lower(s)
      PROVE  pc # "idle" /\ UNCHANGED <<cur, seen, target>>
  BY <1>6 DEF Raise, Lower, SetDownAfter
<1>7. ASSUME NEW n \in Redis, Sweep(n)
      PROVE  pc # "idle" /\ UNCHANGED <<cur, seen, target>>
  BY <1>7 DEF Sweep
<1> QED
  BY <1>1, <1>2, <1>3, <1>4, <1>5, <1>6, <1>7, PassChanges

\* Only a pass that ends a deletion goes by "delete", and it only sweeps.
LEMMA DeleteOnlySweeps ==
    ASSUME TypeOK, [Next]_vars, pc' # "idle", exit' = "delete", StageInv,
           ~\E c \in Restores : BeginDeletion(c), exit = "delete" => pc \in {"idle", "sweep"}
    PROVE  exit = "delete" /\ pc' = "sweep"
<1>1. CASE EndPass
  BY <1>1 DEF EndPass
<1>2. CASE UNCHANGED passVars
  BY <1>2 DEF passVars
<1>3. CASE Refused \/ Stage \/ PayloadPresent \/ Verified \/ VerifyFails
  BY <1>3 DEF Refused, Stage, PayloadPresent, Verified, VerifyFails, FailRestore
<1>4. CASE ListSentinels \/ RaiseDone \/ LowerDone
  BY <1>1, <1>4 DEF ListSentinels, RaiseDone, LowerDone
<1>5. CASE EnableAof \/ SweepDone \/ Reaof
  BY <1>5 DEF EnableAof, SweepDone, Reaof
<1>6. ASSUME NEW s \in Sentinels, Raise(s) \/ Lower(s) PROVE FALSE
  BY <1>6 DEF Raise, Lower, SetDownAfter
<1>7. ASSUME NEW n \in Redis, Sweep(n) PROVE exit = "delete" /\ pc' = "sweep"
  BY <1>7 DEF Sweep
<1>8. ASSUME NEW c \in Restores, BeginPass(c) PROVE FALSE
  BY <1>8 DEF BeginPass, TypeOK, Refusals
<1> QED
  BY <1>1, <1>2, <1>3, <1>4, <1>5, <1>6, <1>7, <1>8, PassChanges

LEMMA PassStep ==
    ASSUME TypeOK, PassInv, StageInv, [Next]_vars
    PROVE  PassInv'
<1>1. TypeOK'
  BY TypeStep
<1>2. ASSUME NEW c \in Restores, finalizer[c] PROVE finalizer[c]'
  BY <1>2, SpecChanges DEF TypeOK, BeginPass, UserEditsSpec
<1>3. ASSUME NEW c \in Restores, life[c]' = "deleting" PROVE finalizer[c]'
  <2>1. CASE life[c] = "deleting"
    BY <2>1, <1>2 DEF PassInv
  <2>2. CASE life[c] # "deleting"
    <3>1. finalizer[c]
      BY <2>2, <1>3, LifeChanges DEF TypeOK, DeletionDone, UserDeletes
    <3> QED
      BY <3>1, <1>2
  <2> QED
    BY <2>1, <2>2
<1>4. ASSUME NEW n \in Redis, payload[n]' # NoPayload
      PROVE  payload[n]'.of \in Restores /\ payload[n]'.gen > 0
  <2>1. CASE UNCHANGED payload
    BY <1>4, <2>1 DEF PassInv
  <2>2. CASE Stage
    <3>1. cur \in Restores /\ seen > 0
      BY <2>2 DEF Stage, PassInv
    <3>2. payload' = [payload EXCEPT ![target] = [of |-> cur, gen |-> seen, left |-> Timeout]]
      BY <2>2 DEF Stage
    <3>3. CASE n = target
      BY <3>1, <3>2, <3>3 DEF TypeOK
    <3>4. CASE n # target
      BY <1>4, <3>2, <3>4 DEF TypeOK, PassInv
    <3> QED
      BY <3>3, <3>4
  <2>3. CASE Tick
    <3>1. payload'[n] = IF Armed(n) THEN [payload[n] EXCEPT !.left = @ - 1] ELSE payload[n]
      BY <2>3 DEF Tick
    <3>2. CASE Armed(n)
      <4>1. payload[n] \in [of : Restores \cup {None}, gen : 0..MaxGen, left : -1..Timeout]
        BY DEF TypeOK
      <4>2. payload'[n].of = payload[n].of /\ payload'[n].gen = payload[n].gen
        BY <3>1, <3>2, <4>1
      <4> QED
        BY <3>2, <4>2 DEF PassInv, Armed
    <3> QED
      BY <1>4, <3>1, <3>2 DEF PassInv
  <2>4. ASSUME NEW m \in Redis, Sweep(m) \/ Boot(m)
        PROVE  payload[n]'.of \in Restores /\ payload[n]'.gen > 0
    <3>1. payload' \in {payload, [payload EXCEPT ![m] = NoPayload]}
      BY <2>4 DEF Sweep, Boot
    <3>2. payload'[n] = payload[n]
      BY <1>4, <3>1 DEF TypeOK
    <3> QED
      BY <1>4, <3>2 DEF PassInv
  <2> QED
    BY <2>1, <2>2, <2>3, <2>4, PayloadChanges
<1>5. ASSUME pc' # "idle"
      PROVE  /\ cur' \in Restores /\ seen' > 0 /\ finalizer'[cur'] /\ life'[cur'] # "gone"
             /\ IF exit' = "delete" THEN pc' = "sweep" /\ life'[cur'] = "deleting"
                ELSE target' \in Redis
  <2>1. ASSUME NEW c \in Restores, BeginPass(c)
        PROVE  /\ cur' \in Restores /\ seen' > 0 /\ finalizer'[cur'] /\ life'[cur'] # "gone"
               /\ exit' # "delete" /\ target' \in Redis
    BY <2>1, RestoreAssumption DEF BeginPass, TypeOK, Refusals
  <2>2. ASSUME NEW c \in Restores, BeginDeletion(c)
        PROVE  /\ cur' \in Restores /\ seen' > 0 /\ finalizer'[cur'] /\ life'[cur'] # "gone"
               /\ exit' = "delete" /\ pc' = "sweep" /\ life'[cur'] = "deleting"
    BY <2>2, RestoreAssumption DEF BeginDeletion, TypeOK, PassInv, crVars
  <2>3. CASE ~\E c \in Restores : BeginPass(c) \/ BeginDeletion(c)
    <3>1. pc # "idle" /\ cur' = cur /\ seen' = seen /\ target' = target
      BY <1>5, <2>3, PassKeeps
    <3>2. cur \in Restores /\ seen > 0 /\ finalizer[cur] /\ life[cur] # "gone"
      BY <3>1 DEF PassInv
    <3>3. life'[cur] # "gone" /\ (life[cur] = "deleting" => life'[cur] = "deleting")
      BY <3>2, <1>5, PassGoesOn DEF UserDeletes, TypeOK
    <3>4. exit' = "delete" => exit = "delete" /\ pc' = "sweep"
      BY <1>5, <2>3, <3>1, DeleteOnlySweeps DEF PassInv
    <3>5. exit' # "delete" => target \in Redis
      <4>1. exit = "delete" => exit' = "delete"
        <5>1. ASSUME exit = "delete" PROVE pc = "sweep"
          BY <3>1, <5>1 DEF PassInv
        <5>2. CASE UNCHANGED passVars
          BY <5>2 DEF passVars
        <5>3. ASSUME NEW n \in Redis, Sweep(n) PROVE exit' = exit
          BY <5>3 DEF Sweep
        <5>4. CASE SweepDone
          BY <5>4 DEF SweepDone
        <5> QED
          BY <1>5, <2>3, <5>1, <5>2, <5>3, <5>4, PassChanges DEF EndPass, Refused, Stage,
             PayloadPresent, ListSentinels, RaiseDone, VerifyFails, Verified, EnableAof,
             LowerDone, Reaof, Raise, Lower
      <4> QED
        BY <3>1, <4>1 DEF PassInv
    <3>6. exit = "delete" => life[cur] = "deleting"
      BY <3>1 DEF PassInv
    <3> QED
      BY <1>2, <3>1, <3>2, <3>3, <3>4, <3>5, <3>6
  <2> QED
    BY <2>1, <2>2, <2>3
<1> QED
  BY <1>3, <1>4, <1>5 DEF PassInv

LEMMA TouchedStep ==
    ASSUME TypeOK, PassInv, TouchedInv, StageInv, [Next]_vars
    PROVE  TouchedInv'
<1>1. ASSUME NEW c \in Restores, phase'[c] # "New" PROVE finalizer'[c]
  <2>1. finalizer[c]
    BY <1>1, StatusChanges DEF TouchedInv, PassInv, TypeOK, StartRun, GatePassed,
       WriteRestoring, PayloadLost, PayloadConsumed, WriteCompleted, WriteFailed, UpdateStatus
  <2> QED
    BY <2>1, SpecChanges DEF TypeOK, BeginPass, UserEditsSpec
<1>2. ASSUME NEW c \in Restores, phase[c] # "New" PROVE phase'[c] # "New"
  BY <1>2, StatusChanges DEF TypeOK, StartRun, GatePassed, WriteRestoring, PayloadLost,
     PayloadConsumed, WriteCompleted, WriteFailed, UpdateStatus
<1>3. ASSUME NEW n \in Redis, payload'[n] # NoPayload
      PROVE  payload'[n].of \in Restores /\ phase[payload'[n].of] # "New"
  <2>0. payload[n] \in [of : Restores \cup {None}, gen : 0..MaxGen, left : -1..Timeout]
    BY DEF TypeOK
  <2>1. CASE Stage
    <3>1. cur \in Restores /\ phase[cur] = "Downloading"
      BY <2>1 DEF Stage, PassInv, StageInv
    <3>2. payload' = [payload EXCEPT ![target] = [of |-> cur, gen |-> seen, left |-> Timeout]]
      BY <2>1 DEF Stage
    <3>3. CASE n = target
      BY <3>1, <3>2, <3>3 DEF TypeOK
    <3>4. CASE n # target
      BY <1>3, <3>2, <3>4 DEF TypeOK, PassInv, TouchedInv
    <3> QED
      BY <3>3, <3>4
  <2>2. CASE Tick
    <3>1. payload'[n] = IF Armed(n) THEN [payload[n] EXCEPT !.left = @ - 1] ELSE payload[n]
      BY <2>2 DEF Tick
    <3>2. payload'[n].of = payload[n].of /\ payload[n] # NoPayload
      BY <1>3, <2>0, <3>1 DEF Armed
    <3> QED
      BY <3>2 DEF PassInv, TouchedInv
  <2>3. ASSUME NEW m \in Redis, Sweep(m) \/ Boot(m) PROVE payload'[n] = payload[n]
    <3>1. payload' \in {payload, [payload EXCEPT ![m] = NoPayload]}
      BY <2>3 DEF Sweep, Boot
    <3> QED
      BY <1>3, <3>1 DEF TypeOK
  <2> QED
    BY <1>3, <2>1, <2>2, <2>3, PayloadChanges DEF PassInv, TouchedInv
<1> QED
  BY <1>1, <1>2, <1>3 DEF TouchedInv

LEMMA StageStep ==
    ASSUME TypeOK, PassInv, StageInv, [Next]_vars
    PROVE  StageInv'
<1>1. CASE pc' = "idle"
  <2>1. exit' = "none"
    BY <1>1, PassIsOver DEF EndPass, passVars, StageInv
  <2> QED
    BY <1>1, <2>1 DEF StageInv
<1>2. ASSUME pc' # "idle", NEW c \in Restores, BeginPass(c)
      PROVE  StageInv'
  <2>1. phase' = phase /\ refusal' = refusal /\ age' = age /\ cur' = c /\ pc' = FirstStage(c)
        /\ observed' = observed /\ seen' = gen[c] /\ ~(Terminal(c) /\ observed[c] = gen[c])
        /\ exit' = IF FirstStage(c) # "sweep" THEN "none"
                   ELSE IF refusal = "none" THEN "fail" ELSE refusal
    BY <1>2 DEF BeginPass
  <2>2. exit' = "fail" => Expired(c)
    BY <2>1, FirstStages DEF TypeOK, Refusals
  <2> QED
    BY <2>1, <2>2, FirstStages DEF StageInv, Expired, Terminal
<1>3. ASSUME pc' # "idle", NEW c \in Restores, BeginDeletion(c)
      PROVE  StageInv'
  BY <1>3 DEF BeginDeletion, StageInv
<1>4. CASE pc' # "idle" /\ ~\E c \in Restores : BeginPass(c) \/ BeginDeletion(c)
  <2>1. pc # "idle" /\ cur' = cur /\ seen' = seen /\ cur \in Restores
    BY <1>4, PassKeeps DEF PassInv
  <2>2. phase' = phase /\ observed' = observed /\ (refusal # "none" => refusal' # "none")
    BY <1>4, PassGoesOn
  <2>3. Expired(cur) => Expired(cur)'
    BY <2>1, <1>4, ExpiredStays DEF StartRun, EndPass
  <2> USE <2>1, <2>2, <2>3 DEF StageInv, Expired, Terminal
  <2>5. CASE UNCHANGED passVars
    BY <2>5 DEF passVars
  <2>6. CASE EndPass
    BY <1>4, <2>6 DEF EndPass
  <2>7. CASE Refused \/ VerifyFails
    BY <2>7 DEF Refused, VerifyFails, FailRestore
  <2>8. CASE Stage \/ PayloadPresent \/ Verified
    BY <2>8 DEF Stage, PayloadPresent, Verified
  <2>9. CASE ListSentinels \/ RaiseDone \/ LowerDone
    BY <2>6, <2>9 DEF ListSentinels, RaiseDone, LowerDone
  <2>10. CASE EnableAof \/ SweepDone \/ Reaof
    BY <2>10 DEF EnableAof, SweepDone, Reaof, LiftOrReport
  <2>11. ASSUME NEW s \in Sentinels, Raise(s) \/ Lower(s) PROVE StageInv'
    BY <2>11 DEF Raise, Lower, SetDownAfter
  <2>12. ASSUME NEW n \in Redis, Sweep(n) PROVE StageInv'
    BY <2>12 DEF Sweep
  <2> QED
    BY <1>4, <2>5, <2>6, <2>7, <2>8, <2>9, <2>10, <2>11, <2>12, PassChanges
<1> QED
  BY <1>1, <1>2, <1>3, <1>4

-----------------------------------------------------------------------------
(* The breadcrumb and the quiesce.                                         *)

LEMMA CrumbStep ==
    ASSUME TypeOK, PassInv, StageInv, CrumbInv, [Next]_vars
    PROVE  CrumbInv'
<1>1. ASSUME NEW c \in Restores, phase'[c] \in {"New", "Pending", "Downloading"}
      PROVE  ~crumb'[c]
  <2>1. CASE UNCHANGED <<phase, observed>>
    <3>1. ~crumb[c]
      BY <1>1, <2>1 DEF CrumbInv
    <3>2. CASE PayloadPresent
      <4>1. c # cur
        BY <1>1, <2>1, <3>2 DEF PayloadPresent, StageInv
      <4> QED
        BY <3>1, <3>2, <4>1 DEF PayloadPresent, TypeOK
    <3>3. CASE StartRun \/ WriteCompleted \/ WriteFailed
      BY <3>1, <3>3 DEF StartRun, WriteCompleted, WriteFailed, TypeOK
    <3> QED
      BY <3>1, <3>2, <3>3, CrumbChanges
  <2>2. CASE StartRun
    BY <1>1, <2>2 DEF StartRun, UpdateStatus, TypeOK, CrumbInv, PassInv
  <2>3. CASE GatePassed \/ WriteRestoring \/ PayloadConsumed
    BY <1>1, <2>3 DEF GatePassed, WriteRestoring, PayloadConsumed, UpdateStatus, TypeOK,
       CrumbInv, PassInv, StageInv
  <2>4. CASE PayloadLost
    BY <1>1, <2>4 DEF PayloadLost, UpdateStatus, TypeOK, CrumbInv, PassInv
  <2>5. CASE WriteCompleted \/ WriteFailed
    <3>1. pc # "idle" /\ cur \in Restores
      BY <2>5 DEF WriteCompleted, WriteFailed, PassInv
    <3>2. phase'[cur] \in {"Completed", "Failed"}
      BY <2>5, <3>1 DEF WriteCompleted, WriteFailed, UpdateStatus, TypeOK
    <3>3. c # cur
      BY <1>1, <3>2
    <3> QED
      BY <1>1, <2>5, <3>3 DEF WriteCompleted, WriteFailed, UpdateStatus, TypeOK, CrumbInv
  <2> QED
    BY <2>1, <2>2, <2>3, <2>4, <2>5, StatusChanges
<1>2. ASSUME pc' \in {"quiesce", "raise", "shutdown"} PROVE crumb'[cur']
  <2>1. CASE PayloadPresent
    BY <2>1 DEF PayloadPresent, TypeOK, PassInv
  <2>2. CASE ~PayloadPresent
    <3>1. crumb' = crumb
      BY <1>2, <2>2, PassGoesOn
    <3>2. pc \in {"quiesce", "raise", "shutdown"} /\ cur' = cur
      <4>1. ASSUME NEW c \in Restores, BeginPass(c) PROVE FALSE
        BY <1>2, <4>1, FirstStages DEF BeginPass
      <4>2. ASSUME NEW c \in Restores, BeginDeletion(c) PROVE FALSE
        BY <1>2, <4>2 DEF BeginDeletion
      <4>3. ASSUME NEW n \in Redis, Sweep(n) PROVE FALSE
        BY <1>2, <4>3 DEF Sweep
      <4>4. CASE UNCHANGED passVars
        BY <1>2, <4>4 DEF passVars
      <4>5. ASSUME NEW s \in Sentinels, Raise(s) \/ Lower(s)
            PROVE  pc \in {"quiesce", "raise", "shutdown"} /\ cur' = cur
        BY <1>2, <4>5 DEF Raise, Lower, SetDownAfter
      <4> QED
        BY <1>2, <2>2, <4>1, <4>2, <4>3, <4>4, <4>5, PassChanges DEF EndPass, Refused, Stage,
           ListSentinels, RaiseDone, VerifyFails, Verified, EnableAof, LowerDone, SweepDone,
           Reaof, LiftOrReport, FailRestore
    <3> QED
      BY <3>1, <3>2 DEF CrumbInv
  <2> QED
    BY <2>1, <2>2
<1>3. ASSUME NEW c \in Restores, crumb'[c], ~Terminal(c)', life'[c] # "gone"
      PROVE  syncTodo' = {} \/ syncHold' \/ raced'
  <2>1. raced => raced'
    BY RacedChanges DEF PayloadPresent, SyncRead
  <2>2. life[c] # "gone"
    BY <1>3, LifeChanges DEF DeletionDone, UserDeletes, TypeOK
  <2>3. CASE crumb[c] /\ ~Terminal(c)
    <3>1. syncTodo = {} \/ syncHold \/ raced
      BY <2>2, <2>3 DEF CrumbInv
    <3>2. CASE SyncRead
      BY <2>2, <2>3, <3>2 DEF SyncRead, Holding
    <3>3. CASE OperatorRestarts
      BY <3>3 DEF OperatorRestarts
    <3>4. ASSUME NEW s \in Sentinels, SyncSet(s) PROVE syncTodo' = {} \/ syncHold' \/ raced'
      BY <2>1, <3>1, <3>4 DEF SyncSet
    <3> QED
      BY <2>1, <3>1, <3>2, <3>3, <3>4, SyncChanges
  <2>4. CASE ~crumb[c]
    <3>1. CASE PayloadPresent
      <4>1. c = cur
        BY <1>3, <2>4, <3>1 DEF PayloadPresent, TypeOK
      <4> QED
        BY <2>4, <3>1, <4>1 DEF PayloadPresent, ClusterUnchanged, syncVars
    <3>2. CASE StartRun \/ WriteCompleted \/ WriteFailed
      BY <1>3, <2>4, <3>2 DEF StartRun, WriteCompleted, WriteFailed, TypeOK
    <3> QED
      BY <1>3, <2>4, <3>1, <3>2, CrumbChanges
  <2>5. CASE crumb[c] /\ Terminal(c)
    <3>1. CASE StartRun
      BY <1>3, <2>5, <3>1 DEF StartRun, UpdateStatus, Terminal, TypeOK
    <3>2. CASE GatePassed \/ WriteRestoring \/ PayloadLost \/ PayloadConsumed
      BY <1>3, <2>5, <3>2 DEF GatePassed, WriteRestoring, PayloadLost, PayloadConsumed,
         UpdateStatus, Terminal, TerminalPhases, TypeOK, StageInv
    <3>3. CASE WriteCompleted \/ WriteFailed
      BY <1>3, <2>5, <3>3 DEF WriteCompleted, WriteFailed, UpdateStatus, Terminal,
         TerminalPhases, TypeOK
    <3> QED
      BY <1>3, <2>5, <3>1, <3>2, <3>3, StatusChanges DEF Terminal
  <2> QED
    BY <2>3, <2>4, <2>5
<1> QED
  BY <1>1, <1>2, <1>3 DEF CrumbInv

\* A repair pass leaves the sentinels alone while a breadcrumb is honoured.
LEMMA HoldsQuiesce ==
    ASSUME CrumbInv, ~raced, NEW c \in Restores, crumb[c], ~Terminal(c), life[c] # "gone",
           NEW s \in Sentinels, SyncSet(s)
    PROVE  quiesced' = quiesced
  BY DEF SyncSet, CrumbInv

LEMMA RaiseStep ==
    ASSUME TypeOK, PassInv, StageInv, CrumbInv, RaiseInv, [Next]_vars
    PROVE  RaiseInv'
<1>1. ~raced' => ~raced
  BY RacedChanges DEF PayloadPresent, SyncRead
<1>2. ASSUME ~raced, pc \in {"raise", "shutdown"}
      PROVE  quiesced' = quiesced \/ \E s \in Sentinels : Raise(s)
  <2>1. cur \in Restores /\ crumb[cur] /\ ~Terminal(cur) /\ life[cur] # "gone"
    BY <1>2 DEF PassInv, StageInv, CrumbInv, Terminal, TerminalPhases
  <2>2. ASSUME NEW s \in Sentinels, SyncSet(s) PROVE quiesced' = quiesced
    BY <1>2, <2>1, <2>2, HoldsQuiesce
  <2> QED
    BY <1>2, <2>2, SentinelChanges DEF Lower
<1>3. ASSUME ~raced', pc' = "raise", ~failed', NEW s \in Sentinels \ todo'
      PROVE  quiesced'[s]
  <2>1. CASE ListSentinels
    BY <1>3, <2>1 DEF ListSentinels, EndPass
  <2>2. ASSUME NEW t \in Sentinels, Raise(t) PROVE quiesced'[s]
    <3>1. ~failed /\ sentinelUp[t] /\ quiesced' = [quiesced EXCEPT ![t] = TRUE]
          /\ todo' = todo \ {t}
      BY <1>3, <2>2 DEF Raise, SetDownAfter
    <3>2. s # t => quiesced[s]
      BY <1>1, <1>3, <2>2, <3>1 DEF Raise, RaiseInv
    <3> QED
      BY <3>1, <3>2 DEF TypeOK
  <2>3. CASE UNCHANGED passVars /\ ~\E t \in Sentinels : Raise(t)
    BY <1>1, <1>2, <1>3, <2>3 DEF passVars, RaiseInv
  <2>4. ASSUME NEW c \in Restores, BeginPass(c) PROVE FALSE
    BY <1>3, <2>4, FirstStages DEF BeginPass
  <2>5. ASSUME NEW c \in Restores, BeginDeletion(c) PROVE FALSE
    BY <1>3, <2>5 DEF BeginDeletion
  <2>6. ASSUME NEW n \in Redis, Sweep(n) PROVE FALSE
    BY <1>3, <2>6 DEF Sweep
  <2>7. ASSUME NEW t \in Sentinels, Lower(t) PROVE FALSE
    BY <1>3, <2>7 DEF Lower, SetDownAfter
  <2> QED
    BY <1>3, <2>1, <2>2, <2>3, <2>4, <2>5, <2>6, <2>7, PassChanges DEF EndPass, Refused,
       Stage, PayloadPresent, RaiseDone, VerifyFails, Verified, EnableAof, LowerDone,
       SweepDone, Reaof, LiftOrReport, FailRestore
<1>4. ASSUME ~raced', pc' = "shutdown", NEW s \in Sentinels
      PROVE  quiesced'[s]
  <2>1. CASE RaiseDone
    <3>1. pc = "raise" /\ todo = {} /\ ~failed /\ quiesced' = quiesced
      BY <1>4, <2>1 DEF RaiseDone, EndPass, ClusterUnchanged, sentinelVars
    <3> QED
      BY <1>1, <1>4, <3>1 DEF RaiseInv
  <2>2. CASE UNCHANGED passVars
    <3>1. ~\E t \in Sentinels : Raise(t)
      BY <1>4, <2>2 DEF Raise, passVars
    <3> QED
      BY <1>1, <1>2, <1>4, <2>2, <3>1 DEF passVars, RaiseInv
  <2>3. ASSUME NEW c \in Restores, BeginPass(c) PROVE FALSE
    BY <1>4, <2>3, FirstStages DEF BeginPass
  <2>4. ASSUME NEW c \in Restores, BeginDeletion(c) PROVE FALSE
    BY <1>4, <2>4 DEF BeginDeletion
  <2>5. ASSUME NEW n \in Redis, Sweep(n) PROVE FALSE
    BY <1>4, <2>5 DEF Sweep
  <2>6. ASSUME NEW t \in Sentinels, Raise(t) \/ Lower(t) PROVE FALSE
    BY <1>4, <2>6 DEF Raise, Lower, SetDownAfter
  <2> QED
    BY <1>4, <2>1, <2>2, <2>3, <2>4, <2>5, <2>6, PassChanges DEF EndPass, Refused,
       Stage, PayloadPresent, ListSentinels, VerifyFails, Verified, EnableAof, LowerDone,
       SweepDone, Reaof, LiftOrReport, FailRestore
<1> QED
  BY <1>3, <1>4 DEF RaiseInv

-----------------------------------------------------------------------------
(* A RedisRestore however many there are, and however the cluster moves.   *)

LEMMA InitInd == Init => IndInv
<1> SUFFICES ASSUME Init PROVE IndInv
  OBVIOUS
<1> USE RestoreAssumption DEF Init
<1>1. TypeOK
  <2>1. life \in [Restores -> {"live", "deleting", "gone"}]
        /\ finalizer \in [Restores -> BOOLEAN]
        /\ phase \in [Restores -> Phases]
        /\ crumb \in [Restores -> BOOLEAN]
        /\ replaced \in [Restores -> BOOLEAN]
    BY DEF Phases
  <2>2. gen \in [Restores -> 1..MaxGen] /\ observed \in [Restores -> 0..MaxGen]
        /\ age \in [Restores -> 0..Timeout + 1] /\ served \in [Restores -> 0..MaxGen]
        /\ seen \in 0..MaxGen /\ failovers \in 0..MaxFailovers /\ faults \in 0..MaxFaults
    OBVIOUS
  <2>3. NoPayload \in [of : Restores \cup {None}, gen : 0..MaxGen, left : -1..Timeout]
    BY DEF NoPayload
  <2>4. payload \in [Redis -> [of : Restores \cup {None}, gen : 0..MaxGen, left : -1..Timeout]]
    BY <2>3
  <2>5. data \in [Redis -> Datasets] /\ aofDir \in [Redis -> Datasets \cup {None}]
    BY DEF Datasets
  <2>6. /\ up \in [Redis -> BOOLEAN] /\ aof \in [Redis -> BOOLEAN]
        /\ sentinelUp \in [Sentinels -> BOOLEAN] /\ quiesced \in [Sentinels -> BOOLEAN]
        /\ master \in Redis /\ statusMaster \in Redis
        /\ syncTodo \subseteq Sentinels /\ syncHold \in BOOLEAN
        /\ refusal \in Refusals /\ shut \in Restores \cup {None} /\ raced \in BOOLEAN
    BY DEF Refusals
  <2>7. PassType
    BY <2>2 DEF PassType, Refusals
  <2> QED
    BY <2>1, <2>2, <2>4, <2>5, <2>6, <2>7 DEF TypeOK, PassType
<1>2. PassInv /\ TouchedInv /\ StageInv /\ CrumbInv /\ RaiseInv
  BY DEF PassInv, TouchedInv, StageInv, CrumbInv, RaiseInv
<1> QED
  BY <1>1, <1>2 DEF IndInv

LEMMA NextInd == IndInv /\ [Next]_vars => IndInv'
  BY TypeStep, PassStep, TouchedStep, StageStep, CrumbStep, RaiseStep DEF IndInv

\* For any number of RedisRestore objects and failovers: a pass works on an object that is
\* still there and on a pod, its stages follow the phase of that object, and a run in its
\* restart phase is only failed when its time is over. The breadcrumb is in the status from
\* before the first SENTINEL SET until the run is over, and every repair pass that begins in
\* between honours it.
THEOREM Invariance == Spec => []IndInv
  BY InitInd, NextInd, PTL DEF Spec

\* Every object, pass, pod, sentinel and counter stays within its type.
THEOREM TypeCorrect == Spec => []TypeOK
<1>1. IndInv => TypeOK
  BY DEF IndInv
<1> QED
  BY Invariance, <1>1, PTL

\* SHUTDOWN NOSAVE is only sent while every sentinel is quiesced, unless a repair pass was
\* under way when the breadcrumb was written, for any number of RedisRestore objects that
\* share the sentinels and whatever fails over.
THEOREM ShutdownIsQuiesced ==
    Spec => [][Shutdown => raced \/ \A s \in Sentinels : quiesced[s]]_vars
<1>1. IndInv => (Shutdown => raced \/ \A s \in Sentinels : quiesced[s])
  BY DEF IndInv, RaiseInv, Shutdown
<1> QED
  BY Invariance, <1>1, PTL DEF Spec

-----------------------------------------------------------------------------
(* As long as one RedisRestore is at work and the master stays.            *)

\* What was disturbed stays so: finalizers and failovers are not taken back.
LEMMA StillUndisturbed ==
    ASSUME IndInv, [Next]_vars, Undisturbed'
    PROVE  Undisturbed /\ ~\E n \in Redis : Failover(n)
<1> USE DEF IndInv
<1>1. \A c \in Restores : finalizer[c] => finalizer'[c]
  BY SpecChanges DEF TypeOK, BeginPass, UserEditsSpec
<1>2. failovers \in Nat
  BY RestoreAssumption DEF TypeOK
<1>3. ASSUME NEW n \in Redis, Failover(n) PROVE FALSE
  <2>1. failovers' = failovers + 1
    BY <1>3 DEF Failover
  <2>2. failovers' = 0
    BY DEF Undisturbed
  <2> QED
    BY <1>2, <2>1, <2>2
<1>4. failovers = 0
  BY <1>3, MasterChanges DEF Undisturbed, RefreshMaster
<1> QED
  BY <1>1, <1>3, <1>4 DEF Undisturbed

\* The step that is not possible, and the pod that every pass works on.
LEMMA MasterStep ==
    ASSUME Undisturbed', IndInv, MasterInv, [Next]_vars
    PROVE  MasterInv' /\ master' = master /\ ~\E n \in Redis : Failover(n)
<1> USE DEF IndInv
<1>1. ~\E n \in Redis : Failover(n)
  BY StillUndisturbed
<1>2. UNCHANGED <<master, statusMaster>>
  BY <1>1, MasterChanges DEF MasterInv, RefreshMaster
<1>3. target' \in {master, None}
  <2>1. CASE pc' = "idle"
    BY <2>1, PassIsOver DEF EndPass, passVars, MasterInv
  <2>2. CASE pc' # "idle"
    BY <2>2, PassKeeps DEF BeginPass, BeginDeletion, MasterInv
  <2> QED
    BY <2>1, <2>2
<1>4. ASSUME NEW n \in Redis \ {master} PROVE payload'[n] = NoPayload
  <2>1. payload[n] = NoPayload
    BY DEF MasterInv
  <2>2. CASE Stage
    <3>1. n # target
      BY RestoreAssumption DEF MasterInv
    <3>2. payload' = [payload EXCEPT ![target] = [of |-> cur, gen |-> seen, left |-> Timeout]]
      BY <2>2 DEF Stage
    <3> QED
      BY <2>1, <3>1, <3>2 DEF TypeOK
  <2>3. CASE Tick
    BY <2>1, <2>3 DEF Tick, Armed
  <2>4. ASSUME NEW m \in Redis, Sweep(m) \/ Boot(m) PROVE payload'[n] = NoPayload
    <3>1. payload' \in {payload, [payload EXCEPT ![m] = NoPayload]}
      BY <2>4 DEF Sweep, Boot
    <3> QED
      BY <2>1, <3>1 DEF TypeOK
  <2> QED
    BY <2>1, <2>2, <2>3, <2>4, PayloadChanges
<1> QED
  BY <1>1, <1>2, <1>3, <1>4 DEF MasterInv

\* The one object that was taken up is the one a pass works on.
LEMMA OneObject ==
    ASSUME Undisturbed', IndInv, [Next]_vars, pc # "idle", NEW c \in Restores, phase[c] # "New"
    PROVE  c = cur
<1>1. finalizer[c] /\ finalizer[cur] /\ cur \in Restores
  BY DEF IndInv, PassInv, TouchedInv
<1> QED
  BY <1>1, StillUndisturbed DEF Undisturbed

\* A pass that works on a running pod works on the running master.
LEMMA OnMaster ==
    ASSUME MasterInv, IndInv, pc # "idle", exit # "delete"
    PROVE  target = master
  BY RestoreAssumption DEF MasterInv, IndInv, PassInv

\* The phase becomes "Restoring" only when a payload was staged.
LEMMA BecomesRestoring ==
    ASSUME IndInv, [Next]_vars, NEW c \in Restores, phase'[c] = "Restoring"
    PROVE  phase[c] = "Restoring" \/ (WriteRestoring /\ c = cur)
  BY StatusChanges DEF IndInv, TypeOK, StartRun, GatePassed, WriteRestoring, PayloadLost,
     PayloadConsumed, WriteCompleted, WriteFailed, UpdateStatus

LEMMA ShutStep ==
    ASSUME Undisturbed', IndInv, MasterInv, ShutInv, [Next]_vars
    PROVE  ShutInv'
<1> USE DEF IndInv
<1>1. master' = master /\ ~\E n \in Redis : Failover(n)
  BY MasterStep
<1>2. shut' # None => shut' = shut \/ Shutdown
  BY <1>1, ShutChanges DEF Boot
<1>3. ASSUME Shutdown
      PROVE  shut' = cur /\ cur \in Restores /\ ~up'[master] /\ crumb'[cur] /\ pc' = "idle"
  <2>1. target = master /\ cur \in Restores
    BY <1>3, OnMaster DEF Shutdown, PassInv, StageInv
  <2>2. crumb[cur]
    BY <1>3 DEF Shutdown, CrumbInv
  <2> QED
    BY <1>3, <2>1, <2>2 DEF Shutdown, TypeOK, EndPass, crVars
<1>4. shut' # None => shut' \in Restores /\ ~up'[master']
  <2>1. CASE shut' = shut /\ shut # None
    <3>1. shut \in Restores /\ ~up[master]
      BY <2>1 DEF ShutInv
    <3>2. ASSUME NEW n \in Redis, Boot(n) PROVE n # master
      BY <2>1, <3>2 DEF Boot
    <3>3. ~up'[master]
      BY <3>1, <3>2, <1>3, PodChanges DEF Boot, Replicate, Crash, TypeOK
    <3> QED
      BY <1>1, <2>1, <3>1, <3>3
  <2> QED
    BY <1>1, <1>2, <1>3, <2>1
<1>5. shut' # None /\ phase'[shut'] = "Restoring" => crumb'[shut']
  <2> SUFFICES ASSUME shut' # None, phase'[shut'] = "Restoring", ~Shutdown
               PROVE  crumb'[shut']
    BY <1>3
  <2>1. shut' = shut /\ shut \in Restores
    BY <1>2, <1>4
  <2>2. phase[shut] = "Restoring"
    BY <2>1, BecomesRestoring DEF WriteRestoring, ShutInv
  <2>3. crumb[shut]
    BY <2>1, <2>2 DEF ShutInv
  <2>4. CASE PayloadPresent
    BY <2>1, <2>3, <2>4 DEF PayloadPresent, TypeOK
  <2>5. CASE StartRun \/ WriteCompleted \/ WriteFailed
    <3>1. pc # "idle"
      BY <2>5 DEF StartRun, WriteCompleted, WriteFailed
    <3>2. shut = cur
      BY <2>1, <2>2, <3>1, OneObject
    <3> QED
      BY <2>1, <2>5, <3>2 DEF StartRun, WriteCompleted, WriteFailed, UpdateStatus, TypeOK
  <2> QED
    BY <2>1, <2>3, <2>4, <2>5, CrumbChanges
<1>6. pc' = "staged" => shut' = None
  <2> SUFFICES ASSUME pc' = "staged" PROVE shut' = None
    OBVIOUS
  <2>1. ~Shutdown
    BY <1>3
  <2>2. shut = None => shut' = None
    BY <2>1, <1>2
  <2>3. CASE Stage
    BY <2>2, <2>3, OnMaster DEF Stage, StageInv, ShutInv
  <2>4. CASE UNCHANGED passVars
    BY <2>2, <2>4 DEF passVars, ShutInv
  <2>5. ASSUME NEW c \in Restores, BeginPass(c) PROVE FALSE
    BY <2>5, FirstStages DEF BeginPass
  <2>6. ASSUME NEW c \in Restores, BeginDeletion(c) PROVE FALSE
    BY <2>6 DEF BeginDeletion
  <2>7. ASSUME NEW n \in Redis, Sweep(n) PROVE FALSE
    BY <2>7 DEF Sweep
  <2>8. ASSUME NEW s \in Sentinels, Raise(s) \/ Lower(s) PROVE FALSE
    BY <2>8 DEF Raise, Lower, SetDownAfter
  <2> QED
    BY <2>3, <2>4, <2>5, <2>6, <2>7, <2>8, PassChanges DEF EndPass, Refused, PayloadPresent,
       ListSentinels, RaiseDone, VerifyFails, Verified, EnableAof, LowerDone, SweepDone,
       Reaof, LiftOrReport, FailRestore
<1> QED
  BY <1>4, <1>5, <1>6 DEF ShutInv

LEMMA QuiesceStep ==
    ASSUME Undisturbed', IndInv, MasterInv, ShutInv, QuiesceHeldUnlessRaced, [Next]_vars
    PROVE  QuiesceHeldUnlessRaced'
<1> USE DEF IndInv
<1> SUFFICES ASSUME shut' # None, ~raced', phase'[shut'] = "Restoring", life'[shut'] # "gone",
                    ~Expired(shut)', NEW s \in Sentinels
             PROVE  quiesced'[s]
  BY DEF QuiesceHeldUnlessRaced, QuiesceHeld
<1>1. ~raced
  BY RacedChanges DEF PayloadPresent, SyncRead
<1>2. CASE Shutdown
  BY <1>1, <1>2 DEF Shutdown, RaiseInv, sentinelVars
<1>3. CASE ~Shutdown
  <2>1. shut' = shut
    BY <1>3, MasterStep, ShutChanges DEF Boot
  <2>2. shut \in Restores
    BY <2>1 DEF ShutInv
  <2>3. phase[shut] = "Restoring"
    BY <2>1, <2>2, BecomesRestoring DEF WriteRestoring, ShutInv
  <2>4. life[shut] # "gone"
    BY <2>1, <2>2, LifeChanges DEF DeletionDone, UserDeletes, TypeOK
  <2>5. ~StartRun
    BY <2>1, <2>2, <2>3, OneObject DEF StartRun, UpdateStatus, TypeOK
  <2>6. ~Expired(shut)
    BY <2>1, <2>2, <2>5, ExpiredStays DEF Expired
  <2>7. quiesced[s]
    BY <1>1, <2>1, <2>3, <2>4, <2>6 DEF QuiesceHeldUnlessRaced, QuiesceHeld
  <2>8. ASSUME NEW t \in Sentinels, SyncSet(t) PROVE quiesced' = quiesced
    <3>1. crumb[shut] /\ ~Terminal(shut)
      BY <2>1, <2>3 DEF ShutInv, Terminal, TerminalPhases
    <3> QED
      BY <1>1, <2>2, <2>4, <2>8, <3>1, HoldsQuiesce
  <2>9. ASSUME NEW t \in Sentinels, Lower(t) PROVE FALSE
    <3>1. pc = "lower" /\ shut = cur
      BY <2>2, <2>3, <2>9, OneObject DEF Lower
    <3> QED
      BY <2>3, <2>6, <3>1 DEF StageInv
  <2>10. ASSUME NEW t \in Sentinels, Raise(t) PROVE quiesced'[s]
    BY <2>7, <2>10 DEF Raise, SetDownAfter, TypeOK
  <2> QED
    BY <2>7, <2>8, <2>9, <2>10, SentinelChanges
<1> QED
  BY <1>2, <1>3

\* A payload is put on the master by a staging pass, and taken away by a sweep or a boot.
LEMMA PayloadOfMaster ==
    ASSUME Undisturbed', IndInv, MasterInv, [Next]_vars
    PROVE  \/ payload'[master] = payload[master]
           \/ Stage /\ payload'[master] = [of |-> cur, gen |-> seen, left |-> Timeout]
           \/ /\ Tick /\ Armed(master)
              /\ payload'[master] = [payload[master] EXCEPT !.left = @ - 1]
           \/ Sweep(master) /\ payload'[master] = NoPayload
           \/ Boot(master) /\ payload'[master] = NoPayload
<1> USE DEF IndInv
<1>0. master \in Redis
  BY DEF TypeOK
<1>1. CASE Stage
  <2>1. target = master
    BY <1>1, OnMaster DEF Stage, StageInv
  <2>2. payload' = [payload EXCEPT ![target] = [of |-> cur, gen |-> seen, left |-> Timeout]]
    BY <1>1 DEF Stage
  <2> QED
    BY <1>0, <1>1, <2>1, <2>2 DEF TypeOK
<1>2. CASE Tick
  BY <1>0, <1>2 DEF Tick
<1>3. ASSUME NEW n \in Redis, Sweep(n)
      PROVE  payload'[master] = payload[master] \/ (n = master /\ payload'[master] = NoPayload)
  <2>1. payload' \in {payload, [payload EXCEPT ![n] = NoPayload]}
    BY <1>3 DEF Sweep
  <2> QED
    BY <1>0, <2>1 DEF TypeOK
<1>4. ASSUME NEW n \in Redis, Boot(n)
      PROVE  payload'[master] = payload[master] \/ (n = master /\ payload'[master] = NoPayload)
  <2>1. payload' = [payload EXCEPT ![n] = NoPayload]
    BY <1>4 DEF Boot
  <2> QED
    BY <1>0, <2>1 DEF TypeOK
<1> QED
  BY <1>1, <1>2, <1>3, <1>4, PayloadChanges

\* Only a new staging forgets that a payload was loaded.
LEMMA ServedStays ==
    ASSUME IndInv, [Next]_vars, NEW c \in Restores, served[c] # 0, ~(Stage /\ c = cur)
    PROVE  served'[c] # 0
<1> USE DEF IndInv
<1>1. CASE Stage
  BY <1>1 DEF Stage, TypeOK
<1>2. ASSUME NEW n \in Redis, Boot(n) PROVE served'[c] # 0
  <2>1. CASE Armed(n)
    <3>1. payload[n].gen # 0
      BY <2>1, ArmedFacts
    <3>2. served' = [served EXCEPT ![payload[n].of] = payload[n].gen]
      BY <1>2, <2>1 DEF Boot
    <3> QED
      BY <3>1, <3>2 DEF TypeOK
  <2>2. CASE ~Armed(n)
    BY <1>2, <2>2 DEF Boot
  <2> QED
    BY <2>1, <2>2
<1> QED
  BY <1>1, <1>2, PayloadChanges DEF Tick, Sweep, history

\* A run that nothing is owed to stays so until a new one starts.
LEMMA OverStays ==
    ASSUME IndInv, [Next]_vars, NEW c \in Restores, Over(c), ~StartRun
    PROVE  Over(c)'
<1> USE DEF IndInv
<1>1. CASE Expired(c)
  BY <1>1, ExpiredStays DEF Over
<1>2. CASE refusal # "none"
  BY <1>2, RefusalChanges DEF Over, OperatorRestarts, UserDeletesCluster
<1>3. CASE life[c] # "live"
  BY <1>3, LifeChanges DEF Over, DeletionDone, UserDeletes, TypeOK
<1> QED
  BY <1>1, <1>2, <1>3 DEF Over

\* A pass that is at "staged" staged the payload itself.
LEMMA BecomesStaged ==
    ASSUME IndInv, [Next]_vars, pc' = "staged"
    PROVE  Stage \/ (pc = "staged" /\ cur' = cur)
<1> USE DEF IndInv
<1>1. CASE UNCHANGED passVars
  BY <1>1 DEF passVars
<1>2. ASSUME NEW c \in Restores, BeginPass(c) PROVE FALSE
  BY <1>2, FirstStages DEF BeginPass
<1>3. ASSUME NEW c \in Restores, BeginDeletion(c) PROVE FALSE
  BY <1>3 DEF BeginDeletion
<1>4. ASSUME NEW n \in Redis, Sweep(n) PROVE FALSE
  BY <1>4 DEF Sweep
<1>5. ASSUME NEW s \in Sentinels, Raise(s) \/ Lower(s) PROVE FALSE
  BY <1>5 DEF Raise, Lower, SetDownAfter
<1> QED
  BY <1>1, <1>2, <1>3, <1>4, <1>5, PassChanges DEF EndPass, Refused, PayloadPresent,
     ListSentinels, RaiseDone, VerifyFails, Verified, EnableAof, LowerDone, SweepDone,
     Reaof, LiftOrReport, FailRestore

LEMMA LoadStep ==
    ASSUME Undisturbed', IndInv, MasterInv, LoadInv, [Next]_vars
    PROVE  LoadInv'
<1> USE DEF IndInv
<1>0. master' = master /\ master \in Redis
  BY MasterStep DEF TypeOK
<1>1. ASSUME NEW c \in Restores, phase'[c] = "Restoring" \/ (pc' = "staged" /\ cur' = c),
             payload'[master] # NoPayload, ~Expired(c)'
      PROVE  age'[c] + payload'[master].left >= Timeout
  <2>1. CASE Stage
    <3>1. payload'[master].left = Timeout
      <4>1. target = master
        BY <2>1, OnMaster DEF Stage, StageInv
      <4>2. payload' = [payload EXCEPT ![target] = [of |-> cur, gen |-> seen, left |-> Timeout]]
        BY <2>1 DEF Stage
      <4>3. payload'[master] = [of |-> cur, gen |-> seen, left |-> Timeout]
        BY <1>0, <4>1, <4>2 DEF TypeOK
      <4> QED
        BY <4>3
    <3>2. age'[c] \in Nat
      BY ObjectTypes, RestoreAssumption
    <3> QED
      BY <3>1, <3>2, RestoreAssumption
  <2>2. CASE ~Stage
    <3>1. phase[c] = "Restoring" \/ (pc = "staged" /\ cur = c)
      BY <1>1, <2>2, BecomesStaged, BecomesRestoring DEF WriteRestoring
    <3>2. ~StartRun
      <4>1. ASSUME StartRun PROVE FALSE
        BY <1>1, <3>1, <4>1, OneObject DEF StartRun, UpdateStatus, EndPass, TypeOK
      <4> QED
        BY <4>1
    <3>3. ~Expired(c)
      BY <1>1, <3>2, ExpiredStays
    <3>4. payload[master] # NoPayload
      BY <1>1, <2>2, PayloadOfMaster DEF Armed
    <3>5. age[c] + payload[master].left >= Timeout
      BY <3>1, <3>3, <3>4 DEF LoadInv
    <3>6. age[c] \in 0..Timeout + 1 /\ payload[master].left \in -1..Timeout
      BY <1>0 DEF TypeOK
    <3>7. CASE Tick
      <4>1. age'[c] = age[c] + 1
        BY <3>3, <3>7 DEF Tick, Expired
      <4>2. payload[master] \in [of : Restores \cup {None}, gen : 0..MaxGen, left : -1..Timeout]
        BY <1>0 DEF TypeOK
      <4>3. payload'[master].left \in {payload[master].left, payload[master].left - 1}
        BY <1>0, <3>7, <4>2 DEF Tick
      <4> QED
        BY <3>5, <3>6, <4>1, <4>3, RestoreAssumption
    <3>8. CASE ~Tick
      <4>1. age'[c] = age[c]
        BY <3>2, <3>8, RunChanges DEF PayloadConsumed
      <4>2. payload'[master] = payload[master]
        BY <1>1, <2>2, <3>8, PayloadOfMaster
      <4> QED
        BY <3>5, <4>1, <4>2
    <3> QED
      BY <3>7, <3>8
  <2> QED
    BY <2>1, <2>2
<1>2. ASSUME NEW c \in Restores, phase'[c] = "Restoring", crumb'[c],
             payload'[master] = NoPayload
      PROVE  served'[c] # 0 \/ Over(c)'
  <2>1. phase[c] = "Restoring"
    <3>1. CASE WriteRestoring /\ c = cur
      BY <1>2, <3>1 DEF WriteRestoring, StageInv, CrumbInv
    <3> QED
      BY <1>2, <3>1, BecomesRestoring
  <2>2. ~PayloadPresent
    <3>1. ASSUME PayloadPresent PROVE FALSE
      <4>1. target = master /\ payload' = payload
        BY <3>1, OnMaster DEF PayloadPresent, StageInv, ClusterUnchanged, podVars
      <4> QED
        BY <1>2, <3>1, <4>1 DEF PayloadPresent
    <3> QED
      BY <3>1
  <2>3. crumb[c]
    <3>1. ASSUME StartRun \/ WriteCompleted \/ WriteFailed PROVE crumb'[c] => crumb[c]
      BY <3>1 DEF StartRun, WriteCompleted, WriteFailed, TypeOK
    <3> QED
      BY <1>2, <2>2, <3>1, CrumbChanges
  <2>4. ~StartRun /\ ~Stage
    <3>1. ASSUME StartRun PROVE FALSE
      BY <1>2, <2>1, <3>1, OneObject DEF StartRun, UpdateStatus, TypeOK
    <3>2. ASSUME Stage PROVE FALSE
      BY <2>1, <3>2, OneObject DEF Stage, StageInv
    <3> QED
      BY <3>1, <3>2
  <2>5. CASE served[c] # 0
    BY <2>4, <2>5, ServedStays
  <2>6. CASE Over(c)
    BY <2>4, <2>6, OverStays
  <2>7. CASE served[c] = 0 /\ ~Over(c)
    <3>1. payload[master] # NoPayload
      BY <2>1, <2>3, <2>7 DEF LoadInv
    <3>2. CASE Sweep(master)
      <4>1. pc = "sweep" /\ c = cur
        BY <2>1, <3>2, OneObject DEF Sweep
      <4>2. exit \in {"fail", "reject", "missing", "delete"}
        BY <4>1 DEF StageInv, TypeOK, Refusals
      <4>3. Over(c)
        BY <2>1, <4>1, <4>2 DEF StageInv, PassInv, Over
      <4> QED
        BY <2>7, <4>3
    <3>3. CASE Boot(master)
      <4>1. age[c] + payload[master].left >= Timeout /\ ~Expired(c)
        BY <2>1, <2>7, <3>1 DEF LoadInv, Over
      <4>2. age[c] \in 0..Timeout + 1 /\ payload[master].left \in -1..Timeout
        BY <1>0 DEF TypeOK
      <4>3. payload[master].left >= 0
        BY <4>1, <4>2, RestoreAssumption DEF Expired
      <4>4. Armed(master)
        BY <3>1, <4>3 DEF Armed
      <4>5. payload[master].of = c /\ payload[master].gen # 0
        <5>1. payload[master].of \in Restores /\ payload[master].gen # 0
          BY <1>0, <4>4, ArmedFacts
        <5>2. finalizer[payload[master].of] /\ finalizer[c]
          BY <1>0, <2>1, <3>1, <5>1 DEF TouchedInv
        <5> QED
          BY <5>1, <5>2, StillUndisturbed DEF Undisturbed
      <4>6. served' = [served EXCEPT ![c] = payload[master].gen]
        BY <3>3, <4>4, <4>5 DEF Boot
      <4> QED
        BY <4>5, <4>6 DEF TypeOK
    <3>4. CASE Tick /\ Armed(master)
      <4>1. payload[master] \in [of : Restores \cup {None}, gen : 0..MaxGen, left : -1..Timeout]
            /\ payload[master].gen # 0
        BY SMTT(30), <1>0, <3>4, ArmedFacts DEF TypeOK
      <4>2. payload'[master].gen # 0
        BY <1>0, <3>4, <4>1 DEF Tick
      <4> QED
        BY <1>2, <4>2 DEF NoPayload
    <3> QED
      BY <1>2, <2>4, <3>1, <3>2, <3>3, <3>4, PayloadOfMaster
  <2> QED
    BY <2>5, <2>6, <2>7
<1>3. ASSUME NEW c \in Restores, phase'[c] = "Verifying" PROVE served'[c] # 0 \/ Over(c)'
  <2>1. ~StartRun
    <3>1. ASSUME StartRun PROVE FALSE
      <4>1. c # cur
        BY <1>3, <3>1 DEF StartRun, UpdateStatus, TypeOK
      <4>2. phase[c] = "Verifying"
        BY <1>3, <3>1, <4>1 DEF StartRun, UpdateStatus, TypeOK
      <4> QED
        BY <3>1, <4>1, <4>2, OneObject DEF StartRun
    <3> QED
      BY <3>1
  <2>2. CASE PayloadConsumed
    <3>0. c # cur => phase[c] = "Verifying"
      BY <1>3, <2>2 DEF PayloadConsumed, UpdateStatus, TypeOK
    <3>1. c = cur /\ target = master
      BY <2>2, <3>0, OneObject, OnMaster DEF PayloadConsumed, StageInv
    <3>2. served[c] # 0 \/ Over(c)
      BY <2>2, <3>1 DEF PayloadConsumed, StageInv, LoadInv
    <3>3. ~Stage
      BY <2>2 DEF PayloadConsumed, Stage
    <3> QED
      BY <2>1, <3>2, <3>3, ServedStays, OverStays
  <2>3. CASE ~PayloadConsumed
    <3>1. phase[c] = "Verifying"
      BY <1>3, <2>3, StatusChanges DEF StartRun, GatePassed, WriteRestoring, PayloadLost,
         WriteCompleted, WriteFailed, UpdateStatus, TypeOK
    <3>2. ~Stage
      <4>1. ASSUME Stage PROVE FALSE
        BY <3>1, <4>1, OneObject DEF Stage, StageInv
      <4> QED
        BY <4>1
    <3>3. served[c] # 0 \/ Over(c)
      BY <3>1 DEF LoadInv
    <3> QED
      BY <2>1, <3>2, <3>3, ServedStays, OverStays
  <2> QED
    BY <2>2, <2>3
<1> QED
  BY <1>0, <1>1, <1>2, <1>3 DEF LoadInv

\* A pass that checks, persists or completes a dataset.
Completing == pc \in {"verify", "aof", "complete"} \/ (pc = "lower" /\ exit = "none")

\* It begins in the "Verifying" phase of a run that still has time, and only it completes.
LEMMA BecomesCompleting ==
    ASSUME IndInv, [Next]_vars, Completing'
    PROVE  \/ Completing /\ cur' = cur
           \/ \E c \in Restores : BeginPass(c) /\ FirstStage(c) = "verify"
<1> USE DEF IndInv, Completing
<1>1. CASE UNCHANGED passVars
  BY <1>1 DEF passVars
<1>2. ASSUME NEW c \in Restores, BeginPass(c)
      PROVE  FirstStage(c) = "verify"
  BY <1>2, FirstStages DEF BeginPass
<1>3. ASSUME NEW c \in Restores, BeginDeletion(c) PROVE FALSE
  BY <1>3 DEF BeginDeletion
<1>4. ASSUME NEW n \in Redis, Sweep(n) PROVE FALSE
  BY <1>4 DEF Sweep
<1>5. ASSUME NEW s \in Sentinels, Raise(s) \/ Lower(s) PROVE Completing /\ cur' = cur
  BY <1>5 DEF Raise, Lower, SetDownAfter
<1>6. CASE Verified \/ EnableAof
  BY <1>6 DEF Verified, EnableAof
<1>7. CASE LowerDone
  BY <1>7 DEF LowerDone, EndPass
<1>8. CASE SweepDone \/ Reaof
  BY <1>8 DEF SweepDone, Reaof, LiftOrReport, StageInv
<1> QED
  BY <1>1, <1>2, <1>3, <1>4, <1>5, <1>6, <1>7, <1>8, PassChanges DEF EndPass, Refused, Stage,
     PayloadPresent, ListSentinels, RaiseDone, VerifyFails, FailRestore

\* Beyond the restart phase a run reaches "Verifying", and "Completed" from there.
LEMMA BecomesVerified ==
    ASSUME IndInv, [Next]_vars, NEW c \in Restores, phase'[c] \in {"Verifying", "Completed"}
    PROVE  phase[c] = phase'[c] \/ (PayloadConsumed /\ c = cur) \/ (WriteCompleted /\ c = cur)
  BY StatusChanges DEF IndInv, TypeOK, StartRun, GatePassed, WriteRestoring, PayloadLost,
     PayloadConsumed, WriteCompleted, WriteFailed, UpdateStatus

\* While no payload waits for it, a master that is up comes and stays up with its append
\* only file on.
LEMMA AofStays ==
    ASSUME IndInv, [Next]_vars, master' = master, payload[master] = NoPayload,
           up[master] => aof[master]
    PROVE  up'[master] => aof'[master]
<1> USE DEF IndInv
<1>0. master \in Redis
  BY DEF TypeOK
<1>1. ASSUME NEW n \in Redis, Boot(n) PROVE up'[master] => aof'[master]
  BY <1>0, <1>1 DEF Boot, Armed, TypeOK
<1>2. CASE ~\E n \in Redis : Boot(n)
  <2>1. aof[master] => aof'[master]
    BY <1>0, <1>2, AofChanges DEF EnableAof, Reaof, Replicate, AppendonlyYes, TypeOK
  <2>2. up'[master] => up[master]
    BY <1>0, <1>2, PodChanges DEF Shutdown, Replicate, Crash, TypeOK
  <2> QED
    BY <2>1, <2>2
<1> QED
  BY <1>1, <1>2

LEMMA VerifyStep ==
    ASSUME Undisturbed', IndInv, MasterInv, LoadInv, VerifyInv, [Next]_vars
    PROVE  VerifyInv'
<1> USE DEF IndInv
<1>0. master' = master /\ master \in Redis
  BY MasterStep DEF TypeOK
<1>1. ASSUME NEW c \in Restores, phase[c] \in {"Verifying", "Completed"}
      PROVE  ~Stage /\ payload'[master] = NoPayload
  <2>1. ASSUME Stage PROVE FALSE
    BY <1>1, <2>1, OneObject DEF Stage, StageInv
  <2>2. payload[master] = NoPayload
    BY <1>1 DEF VerifyInv
  <2> QED
    BY <2>1, <2>2, PayloadOfMaster DEF Armed
<1>2. ASSUME NEW c \in Restores, phase'[c] \in {"Verifying", "Completed"}
      PROVE  payload'[master] = NoPayload
  <2>1. CASE PayloadConsumed /\ c = cur
    <3>1. target = master
      BY <2>1, OnMaster DEF PayloadConsumed, StageInv
    <3> QED
      BY <2>1, <3>1 DEF PayloadConsumed, ClusterUnchanged, podVars
  <2>2. CASE WriteCompleted /\ c = cur
    BY <1>1, <2>2 DEF WriteCompleted, StageInv
  <2>3. CASE phase[c] = phase'[c]
    BY <1>1, <1>2, <2>3
  <2> QED
    BY <1>2, <2>1, <2>2, <2>3, BecomesVerified
<1>3. ASSUME Completing
      PROVE  cur \in Restores /\ phase[cur] = "Verifying" /\ served'[cur] # 0
             /\ payload[master] = NoPayload
  <2>1. cur \in Restores /\ phase[cur] = "Verifying"
    BY <1>3 DEF Completing, StageInv, PassInv
  <2>2. served[cur] # 0 /\ payload[master] = NoPayload
    BY <1>3, <2>1 DEF VerifyInv, Completing
  <2> QED
    BY <1>1, <2>1, <2>2, ServedStays
<1>4. ASSUME Completing' PROVE served'[cur'] # 0
  <2>1. ASSUME NEW c \in Restores, BeginPass(c), FirstStage(c) = "verify"
        PROVE  served'[cur'] # 0
    <3>1. phase[c] = "Verifying" /\ ~Over(c)
      BY <2>1, FirstStages DEF BeginPass, Over
    <3>2. served[c] # 0
      BY <3>1 DEF LoadInv
    <3> QED
      BY <2>1, <3>2 DEF BeginPass, history
  <2> QED
    BY <1>3, <1>4, <2>1, BecomesCompleting
<1>5. ASSUME pc' = "complete" \/ (pc' = "lower" /\ exit' = "none")
      PROVE  up'[master] => aof'[master]
  <2>1. Completing
    <3>1. Completing'
      BY <1>5 DEF Completing
    <3>2. ASSUME NEW c \in Restores, BeginPass(c), FirstStage(c) = "verify" PROVE FALSE
      BY <1>5, <3>2 DEF BeginPass
    <3> QED
      BY <3>1, <3>2, BecomesCompleting
  <2>2. CASE EnableAof
    <3>1. target = master
      BY <2>2, OnMaster DEF EnableAof, StageInv
    <3> QED
      BY <1>0, <2>2, <3>1 DEF EnableAof, AppendonlyYes, TypeOK
  <2>3. CASE ~EnableAof
    <3>1. pc = "complete" \/ (pc = "lower" /\ exit = "none")
      <4>1. CASE UNCHANGED passVars
        BY <1>5, <4>1 DEF passVars
      <4>2. CASE pc \in {"verify", "aof"}
        <5>1. ASSUME NEW n \in Redis, Sweep(n) PROVE FALSE
          BY <4>2, <5>1 DEF Sweep
        <5>2. ASSUME NEW s \in Sentinels, Raise(s) \/ Lower(s) PROVE FALSE
          BY <4>2, <5>2 DEF Raise, Lower
        <5> QED
          BY <1>5, <2>3, <4>1, <4>2, <5>1, <5>2, PassChanges DEF EndPass, BeginPass,
             BeginDeletion, Refused, Stage, PayloadPresent, ListSentinels, RaiseDone,
             VerifyFails, Verified, LowerDone, SweepDone, Reaof, FailRestore
      <4> QED
        BY <2>1, <4>2 DEF Completing
    <3>2. up[master] => aof[master]
      BY <3>1 DEF VerifyInv
    <3> QED
      BY <1>0, <1>3, <2>1, <3>2, AofStays
  <2> QED
    BY <2>2, <2>3
<1>6. ASSUME NEW c \in Restores, phase'[c] = "Completed"
      PROVE  served'[c] # 0 /\ (up'[master] => aof'[master])
  <2>1. CASE phase[c] = "Completed"
    <3>1. served[c] # 0 /\ (up[master] => aof[master]) /\ payload[master] = NoPayload
      BY <2>1 DEF VerifyInv
    <3> QED
      BY <1>0, <1>1, <2>1, <3>1, ServedStays, AofStays
  <2>2. CASE WriteCompleted /\ c = cur
    <3>1. served[cur] # 0 /\ (up[master] => aof[master])
      BY <2>2 DEF WriteCompleted, VerifyInv
    <3> QED
      BY <2>2, <3>1 DEF WriteCompleted, ClusterUnchanged, podVars, history
  <2>3. CASE PayloadConsumed /\ c = cur
    BY <1>6, <2>3 DEF PayloadConsumed, UpdateStatus, TypeOK
  <2> QED
    BY <1>6, <2>1, <2>2, <2>3, BecomesVerified
<1> QED
  BY <1>0, <1>2, <1>4, <1>5, <1>6 DEF VerifyInv, Completing

LEMMA InitRun == Init => RunInv
<1> SUFFICES ASSUME Init PROVE RunInv
  OBVIOUS
<1>1. IndInv
  BY InitInd
<1>2. MasterInv /\ ShutInv /\ QuiesceHeldUnlessRaced
  BY RestoreAssumption DEF Init, MasterInv, ShutInv, QuiesceHeldUnlessRaced, QuiesceHeld
<1>3. LoadInv
  BY <1>1 DEF Init, LoadInv, IndInv, TypeOK
<1>4. VerifyInv
  BY <1>1 DEF Init, VerifyInv, IndInv, TypeOK
<1> QED
  BY <1>1, <1>2, <1>3, <1>4 DEF RunInv, QuietInv

LEMMA NextRun == RunInv /\ [Next]_vars => RunInv'
<1> SUFFICES ASSUME RunInv, [Next]_vars PROVE RunInv'
  OBVIOUS
<1>1. IndInv /\ IndInv'
  BY NextInd DEF RunInv
<1>2. ASSUME Undisturbed' PROVE QuietInv'
  <2>1. QuietInv
    BY <1>1, <1>2, StillUndisturbed DEF RunInv
  <2> QED
    BY <1>1, <1>2, <2>1, MasterStep, ShutStep, QuiesceStep, LoadStep, VerifyStep DEF QuietInv
<1> QED
  BY <1>1, <1>2 DEF RunInv

\* The invariant of an undisturbed run holds as long as it is undisturbed.
THEOREM RunInvariance == Spec => []RunInv
  BY InitRun, NextRun, PTL DEF Spec

\* As long as nothing failed over and at most one RedisRestore was taken up: while the master
\* is down for a restore that still has time, every sentinel stays quiesced, unless a repair
\* pass of the RedisSentinel reconciler was already under way when the breadcrumb was written;
\* for any number of objects, sentinels, restarts, edits, deletions and faults.
THEOREM QuiesceCorrect == Spec => [](Undisturbed => QuiesceHeldUnlessRaced)
<1>1. RunInv => (Undisturbed => QuiesceHeldUnlessRaced)
  BY DEF RunInv, QuietInv
<1> QED
  BY RunInvariance, <1>1, PTL

\* As long as nothing failed over and at most one RedisRestore was taken up: "Completed" is
\* only reported once a boot of the master loaded the payload of the run, whatever crashes,
\* expires or is edited meanwhile.
THEOREM LoadCorrect == Spec => []LoadedOnSameMaster
<1>1. RunInv => LoadedOnSameMaster
  BY DEF RunInv, QuietInv, VerifyInv, LoadedOnSameMaster, CompletedAfterLoad
<1> QED
  BY RunInvariance, <1>1, PTL

\* As long as it is undisturbed, no payload is left behind a completed run.
LEMMA NoneLeft ==
    ASSUME RunInv, Undisturbed, NEW c \in Restores, phase[c] = "Completed"
    PROVE  \A n \in Redis : payload[n] = NoPayload
  BY DEF RunInv, QuietInv, VerifyInv, MasterInv

\* As long as nothing failed over and at most one RedisRestore was taken up: a completed run
\* leaves a master with its append only file on and no payload that a later restart would
\* load.
THEOREM DurableCorrect == Spec => []DurableOnSameMaster
<1>1. RunInv => DurableOnSameMaster
  <2> SUFFICES ASSUME RunInv, Undisturbed, NEW c \in Restores, phase[c] = "Completed"
               PROVE  /\ up[master] => aof[master]
                      /\ \A n \in Redis : payload[n].of # c
    BY DEF DurableOnSameMaster, CompletedIsDurable
  <2>1. up[master] => aof[master]
    BY DEF RunInv, QuietInv, VerifyInv
  <2>2. \A n \in Redis : payload[n] = NoPayload
    BY NoneLeft
  <2> QED
    BY <2>1, <2>2, RestoreAssumption DEF NoPayload
<1> QED
  BY RunInvariance, <1>1, PTL

-----------------------------------------------------------------------------
(* The refinement.                                                         *)

\* The parts of the state that RestoreOutcome sees.
Seen == <<life, finalizer, gen, observed, phase, served, failovers>>

LEMMA Unseen ==
    ASSUME UNCHANGED Seen
    PROVE  UNCHANGED Outcome!outcomeVars
  BY DEF Seen, Outcome!outcomeVars, Wanted, Reported, Loaded, Undisturbed

LEMMA InitOutcome == Init => Outcome!OutcomeInit
<1> SUFFICES ASSUME Init PROVE Outcome!OutcomeInit
  OBVIOUS
<1>1. Wanted = [c \in Restores |-> TRUE]
  BY DEF Init, Wanted
<1>2. Reported = [c \in Restores |-> "none"]
  BY DEF Init, Reported, Reports
<1>3. Loaded = [c \in Restores |-> FALSE]
  BY DEF Init, Loaded
<1>4. Undisturbed = TRUE
  BY DEF Init, Undisturbed
<1> QED
  BY <1>1, <1>2, <1>3, <1>4 DEF Init, Outcome!OutcomeInit

\* A write of the status is a report about the generation there is.
LEMMA StatusReports ==
    ASSUME TypeOK, NEW p \in Phases, UpdateStatus(p), cur \in Restores,
           UNCHANGED <<life, finalizer, gen, served, failovers>>
    PROVE  Outcome!Report(cur, Reports(p))
<1>1. Wanted[cur] /\ Wanted' = Wanted /\ Loaded' = Loaded
  BY DEF Wanted, Loaded, UpdateStatus, Current
<1>2. Reported' = [Reported EXCEPT ![cur] = Reports(p)]
  <2>1. phase' = [phase EXCEPT ![cur] = p]
    BY DEF UpdateStatus
  <2> QED
    BY <2>1 DEF Reported, TypeOK
<1>3. observed' = [observed EXCEPT ![cur] = gen[cur]]
  BY DEF UpdateStatus, Current
<1>4. Undisturbed' = Undisturbed
  BY DEF Undisturbed
<1> QED
  BY <1>1, <1>2, <1>3, <1>4 DEF Outcome!Report

\* What each write of the status is.
LEMMA WritesReport ==
    ASSUME RunInv, StartRun \/ GatePassed \/ WriteRestoring \/ PayloadLost \/ PayloadConsumed
                   \/ WriteCompleted \/ WriteFailed
    PROVE  Outcome!OutcomeNext
<1> USE DEF RunInv, IndInv
<1>0. UNCHANGED <<life, finalizer, gen, served, failovers>> /\ cur \in Restores /\ exit # "delete"
  BY DEF StartRun, GatePassed, WriteRestoring, PayloadLost, PayloadConsumed, WriteCompleted,
     WriteFailed, ClusterUnchanged, history, PassInv
<1>a. \A p \in Phases : UpdateStatus(p) => Outcome!Report(cur, Reports(p))
  BY <1>0, StatusReports
<1>b. Reported[cur] = Reports(phase[cur]) /\ Loaded[cur] = (served[cur] # 0)
  BY <1>0 DEF Reported, Loaded
<1>c. /\ Reports("New") = "none" /\ Reports("Completed") = "completed"
      /\ Reports("Failed") = "failed"
      /\ \A p \in Phases : Reports(p) = "running" <=> p \notin {"New", "Completed", "Failed"}
  BY DEF Reports, Phases
<1>1. CASE StartRun
  <2>1. Outcome!Report(cur, "running")
    BY <1>1, <1>a, <1>c DEF StartRun, Phases
  <2>2. \/ Reported[cur] = "none"
        \/ Reported[cur] \in {"completed", "failed"} /\ observed[cur] # gen[cur]
    BY <1>1, <1>b, <1>c DEF StartRun, StageInv, Terminal, TerminalPhases, UpdateStatus, Current
  <2>3. Outcome!Start(cur)
    BY <2>1, <2>2 DEF Outcome!Start
  <2> QED
    BY <1>0, <2>3 DEF Outcome!OutcomeNext
<1>2. CASE GatePassed \/ WriteRestoring \/ PayloadLost \/ PayloadConsumed
  <2>1. Outcome!Report(cur, "running")
    BY <1>2, <1>a, <1>c DEF GatePassed, WriteRestoring, PayloadLost, PayloadConsumed, Phases
  <2>2. phase[cur] \in {"Pending", "Downloading", "Restoring"}
    BY <1>2 DEF GatePassed, WriteRestoring, PayloadLost, PayloadConsumed, StageInv
  <2>3. Reported[cur] = "running"
    BY <1>b, <1>c, <2>2 DEF Phases
  <2>4. Outcome!Progress(cur)
    BY <2>1, <2>3 DEF Outcome!Progress
  <2> QED
    BY <1>0, <2>4 DEF Outcome!OutcomeNext
<1>3. CASE WriteCompleted
  <2>1. Outcome!Report(cur, "completed")
    BY <1>3, <1>a, <1>c DEF WriteCompleted, Phases
  <2>2. phase[cur] = "Verifying"
    BY <1>3 DEF WriteCompleted, StageInv
  <2>3. Reported[cur] = "running"
    BY <1>b, <1>c, <2>2 DEF Phases
  <2>4. Undisturbed => Loaded[cur]
    BY <1>3, <1>b DEF WriteCompleted, QuietInv, VerifyInv
  <2>5. Outcome!Complete(cur)
    BY <2>1, <2>3, <2>4 DEF Outcome!Complete
  <2> QED
    BY <1>0, <2>5 DEF Outcome!OutcomeNext
<1>4. CASE WriteFailed
  <2>1. Outcome!Report(cur, "failed")
    BY <1>4, <1>a, <1>c DEF WriteFailed, Phases
  <2>2. phase[cur] \in Phases \ {"Completed", "Failed"}
    BY <1>0, <1>4 DEF WriteFailed, StageInv, Terminal, TerminalPhases, TypeOK
  <2>3. Reported[cur] \in {"none", "running"}
    BY <1>b, <1>c, <2>2 DEF Phases
  <2>4. Outcome!Fail(cur)
    BY <2>1, <2>3 DEF Outcome!Fail
  <2> QED
    BY <1>0, <2>4 DEF Outcome!OutcomeNext
<1> QED
  BY <1>1, <1>2, <1>3, <1>4

\* The user's edits and deletions.
LEMMA UserAsks ==
    ASSUME TypeOK, NEW c \in Restores, UserEditsSpec(c) \/ UserDeletes(c)
    PROVE  Outcome!OutcomeNext
<1>0. Reported' = Reported /\ Loaded' = Loaded /\ Undisturbed' = Undisturbed
      /\ observed' = observed /\ Wanted[c]
  BY DEF UserEditsSpec, UserDeletes, Reported, Loaded, Undisturbed, Wanted, history
<1>1. CASE UserEditsSpec(c)
  <2>1. Wanted' = Wanted /\ gen' = [gen EXCEPT ![c] = @ + 1]
    BY <1>1 DEF UserEditsSpec, Wanted
  <2>2. Outcome!Ask(c)
    BY <1>0, <2>1 DEF Outcome!Ask
  <2> QED
    BY <2>2 DEF Outcome!OutcomeNext
<1>2. CASE UserDeletes(c)
  <2>1. gen' = gen /\ Wanted' = [Wanted EXCEPT ![c] = FALSE]
    BY <1>2 DEF UserDeletes, Wanted, TypeOK
  <2>2. Outcome!Withdraw(c)
    BY <1>0, <2>1 DEF Outcome!Withdraw
  <2> QED
    BY <2>2 DEF Outcome!OutcomeNext
<1> QED
  BY <1>1, <1>2

\* A staging prepares data, a boot that finds them armed loads them.
LEMMA DataMove ==
    ASSUME RunInv, Stage \/ \E n \in Redis : Boot(n)
    PROVE  Outcome!OutcomeNext \/ UNCHANGED Outcome!outcomeVars
<1> USE DEF RunInv, IndInv
<1>0. Wanted' = Wanted /\ Reported' = Reported /\ Undisturbed' = Undisturbed
      /\ gen' = gen /\ observed' = observed
  BY DEF Stage, Boot, crVars, Wanted, Reported, Undisturbed
<1>1. CASE Stage
  <2>1. cur \in Restores /\ phase[cur] = "Downloading"
    BY <1>1 DEF Stage, PassInv, StageInv
  <2>2. Reported[cur] = "running"
    BY <2>1 DEF Reported, Reports
  <2>3. Loaded' = [Loaded EXCEPT ![cur] = FALSE]
    <3>1. served' = [served EXCEPT ![cur] = 0]
      BY <1>1 DEF Stage
    <3> QED
      BY <2>1, <3>1 DEF Loaded, TypeOK
  <2>4. Outcome!Prepare(cur)
    BY <1>0, <2>2, <2>3 DEF Outcome!Prepare
  <2> QED
    BY <2>1, <2>4 DEF Outcome!OutcomeNext
<1>2. ASSUME NEW n \in Redis, Boot(n), Armed(n) PROVE Outcome!OutcomeNext
  <2> DEFINE c == payload[n].of
  <2>1. c \in Restores /\ payload[n].gen # 0 /\ payload[n] # NoPayload
    BY <1>2, ArmedFacts DEF Armed
  <2>2. phase[c] \in Phases /\ phase[c] # "New" /\ (Undisturbed => phase[c] # "Completed")
    BY <2>1, NoneLeft DEF TouchedInv, TypeOK
  <2>3. Reported[c] # "none" /\ (Undisturbed => Reported[c] # "completed")
    BY <2>1, <2>2 DEF Reported, Reports, Phases
  <2>4. Loaded' = [Loaded EXCEPT ![c] = TRUE]
    <3>1. served' = [served EXCEPT ![c] = payload[n].gen]
      BY <1>2 DEF Boot
    <3> QED
      BY <2>1, <3>1 DEF Loaded, TypeOK
  <2>5. Outcome!Load(c)
    BY <1>0, <2>3, <2>4 DEF Outcome!Load
  <2> QED
    BY <2>1, <2>5 DEF Outcome!OutcomeNext
<1>3. ASSUME NEW n \in Redis, Boot(n), ~Armed(n) PROVE UNCHANGED Outcome!outcomeVars
  BY <1>3, Unseen DEF Boot, Seen, crVars
<1> QED
  BY <1>1, <1>2, <1>3

\* A failover, or another object that is taken up, disturbs the run; the end of a deletion
\* shows nothing new.
LEMMA Disturbance ==
    ASSUME RunInv, [Next]_vars,
           DeletionDone \/ (\E c \in Restores : BeginPass(c)) \/ \E n \in Redis : Failover(n)
    PROVE  Outcome!OutcomeNext \/ UNCHANGED Outcome!outcomeVars
<1> USE DEF RunInv, IndInv
<1>0. Reported' = Reported /\ Loaded' = Loaded /\ gen' = gen /\ observed' = observed
  BY DEF DeletionDone, BeginPass, Failover, crVars, Reported, Loaded, history
<1>1. Wanted' = Wanted
  <2>1. CASE DeletionDone
    <3>1. cur \in Restores /\ life[cur] = "deleting" /\ life' = [life EXCEPT ![cur] = "gone"]
      BY <2>1 DEF DeletionDone, PassInv
    <3> QED
      BY <3>1 DEF Wanted, TypeOK
  <2>2. CASE ~DeletionDone
    BY <2>2 DEF BeginPass, Failover, crVars, Wanted
  <2> QED
    BY <2>1, <2>2
<1>2. Undisturbed' \in BOOLEAN /\ Undisturbed \in BOOLEAN /\ (Undisturbed' => Undisturbed)
  BY StillUndisturbed DEF Undisturbed
<1>3. CASE Undisturbed' = Undisturbed
  BY <1>0, <1>1, <1>3 DEF Outcome!outcomeVars
<1>4. CASE Undisturbed' # Undisturbed
  <2>1. Undisturbed' = FALSE
    BY <1>2, <1>4
  <2> QED
    BY <1>0, <1>1, <2>1 DEF Outcome!OutcomeNext, Outcome!Disturb
<1> QED
  BY <1>3, <1>4

LEMMA NextOutcome ==
    ASSUME RunInv, [Next]_vars
    PROVE  [Outcome!OutcomeNext]_(Outcome!outcomeVars)
<1> DEFINE Quiet == /\ ~(StartRun \/ GatePassed \/ WriteRestoring \/ PayloadLost
                         \/ PayloadConsumed \/ WriteCompleted \/ WriteFailed)
                    /\ ~Stage /\ ~DeletionDone
                    /\ ~\E c \in Restores : UserEditsSpec(c) \/ UserDeletes(c) \/ BeginPass(c)
                    /\ ~\E n \in Redis : Boot(n) \/ Failover(n)
<1>1. CASE Quiet
  <2>1. UNCHANGED life
    BY <1>1, LifeChanges
  <2>2. UNCHANGED <<finalizer, gen>>
    BY <1>1, SpecChanges
  <2>3. UNCHANGED <<phase, observed>>
    BY <1>1, StatusChanges
  <2>4. UNCHANGED served
    BY <1>1, PayloadChanges DEF Tick, Sweep, history
  <2>5. UNCHANGED failovers
    BY <1>1, MasterChanges DEF RefreshMaster
  <2>6. UNCHANGED Seen
    BY <2>1, <2>2, <2>3, <2>4, <2>5 DEF Seen
  <2> QED
    BY <2>6, Unseen
<1>2. CASE ~Quiet
  <2>1. TypeOK
    BY DEF RunInv, IndInv
  <2> QED
    BY <1>2, <2>1, WritesReport, UserAsks, DataMove, Disturbance
<1> QED
  BY <1>1, <1>2

\* For any number of RedisRestores, failovers and faults: phases, edits, deletions, stagings
\* and boots are steps of RestoreOutcome.
THEOREM Implementation == Spec => ImplementsOutcome
<1>1. Init => Outcome!OutcomeInit
  BY InitOutcome
<1>2. RunInv /\ [Next]_vars => [Outcome!OutcomeNext]_(Outcome!outcomeVars)
  BY NextOutcome
<1> QED
  BY <1>1, <1>2, RunInvariance, PTL DEF Spec, ImplementsOutcome, Outcome!OutcomeSpec

\* "Terminal phases are sticky per spec generation": no step of any pass, begun before or
\* after an edit, takes back an answer to the generation there is.
THEOREM AnswerStands ==
    Spec => [][\A c \in Restores : Terminal(c) /\ observed[c] = gen[c] => phase'[c] = phase[c]]_vars
<1>1. ASSUME IndInv, [Next]_vars, NEW c \in Restores, Terminal(c), observed[c] = gen[c]
      PROVE  phase'[c] = phase[c]
  <2>1. CASE StartRun
    <3>1. c # cur
      BY <1>1, <2>1 DEF IndInv, StageInv, StartRun, UpdateStatus, Current, Terminal,
         TerminalPhases
    <3> QED
      BY <1>1, <2>1, <3>1 DEF IndInv, TypeOK, StartRun, UpdateStatus
  <2>2. CASE GatePassed \/ WriteRestoring \/ PayloadLost \/ PayloadConsumed \/ WriteCompleted
             \/ WriteFailed
    <3>1. pc \notin {"idle", "start"} /\ exit # "delete"
      BY <1>1, <2>2 DEF IndInv, PassInv, GatePassed, WriteRestoring, PayloadLost,
         PayloadConsumed, WriteCompleted, WriteFailed
    <3>2. c # cur
      BY <1>1, <3>1 DEF IndInv, StageInv
    <3> QED
      BY <1>1, <2>2, <3>2 DEF IndInv, TypeOK, GatePassed, WriteRestoring, PayloadLost,
         PayloadConsumed, WriteCompleted, WriteFailed, UpdateStatus
  <2> QED
    BY <1>1, <2>1, <2>2, StatusChanges
<1>2. IndInv /\ [Next]_vars =>
        [\A c \in Restores : Terminal(c) /\ observed[c] = gen[c] => phase'[c] = phase[c]]_vars
  BY <1>1
<1> QED
  BY <1>2, Invariance, PTL DEF Spec
=============================================================================
