---------------------------- MODULE RestoreFlow ----------------------------
(***************************************************************************)
(* A RedisRestore from S3 (internal/controller/redisrestore_controller.go):*)
(* the phases of its reconciler, the payload staged on the master's volume *)
(* and swapped in by the init script (internal/builder/configmap.go), the  *)
(* quiesce of the Sentinels, and the RedisSentinel reconciler that repairs *)
(* the Sentinels' monitor parameters (syncSentinelMonitorConfig) and moves *)
(* status.masterNode.                                                      *)
(*                                                                         *)
(* The two reconcilers run concurrently; a pass of the first is one worker *)
(* that takes one RedisRestore at a time. Each step of a pass is an API    *)
(* write, an exec or a command, and containers, Sentinels, the user and    *)
(* time move between any two of them.                                      *)
(*                                                                         *)
(* Abstractions: a dataset is the name of where it came from; time is the  *)
(* age of a run and the time left to a marker, in units of which the       *)
(* timeout is Timeout; down-after-milliseconds is "quiesced" or not; a     *)
(* container that restarts keeps its pod and address (no pod is replaced); *)
(* an AOF rewrite is instantaneous.                                        *)
(***************************************************************************)
EXTENDS Integers, FiniteSets

CONSTANTS
    Restores,     \* RedisRestore objects that refer to the cluster
    Redis,        \* its Redis pods
    Sentinels,    \* its Sentinel pods
    Quorum,       \* sentinels that must agree that the master is down
    Old,          \* the dataset before any restore
    Lost,         \* the empty dataset of a boot that finds no AOF
    None,         \* no RedisRestore, no pod
    Populated,    \* the datasets that hold keys
    Forced,       \* generations whose spec says force or skipDataCheck
    Timeout,      \* restoreTimeout
    MaxGen,       \* bound on the generations of a spec
    MaxFailovers, \* bound on failovers
    MaxFaults     \* bound on injected failures

Datasets == Restores \cup {Old, Lost}
Phases == {"New", "Pending", "Downloading", "Restoring", "Verifying", "Completed", "Failed"}
TerminalPhases == {"Completed", "Failed"}
Refusals == {"none", "reject", "missing"}

ASSUME RestoreAssumption ==
    /\ Old \notin Restores /\ Lost \notin Restores /\ Old # Lost
    /\ None \notin Restores \cup Redis
    /\ Redis # {}
    /\ Populated \subseteq Datasets \ {Lost}
    /\ Forced \subseteq Nat
    /\ Quorum \in Nat \ {0} /\ Timeout \in Nat \ {0} /\ MaxGen \in Nat \ {0}
    /\ MaxFailovers \in Nat /\ MaxFaults \in Nat

VARIABLES
    \* The RedisRestore objects
    life,         \* "live", "deleting" (deletionTimestamp is set) or "gone"
    finalizer,    \* whether the restore finalizer is in place
    gen,          \* metadata.generation
    observed,     \* status.observedGeneration
    phase,        \* status.phase
    crumb,        \* status.quiescedDownAfterMilliseconds # 0
    replaced,     \* status.datasetReplaced
    age,          \* time since status.startTime
    \* The pass of the RedisRestore reconciler
    pc,           \* what it does next
    cur,          \* the object it reconciles
    seen,         \* the generation it read
    target,       \* the pod getMasterPod resolves from the status it read
    exit,         \* "fail" (failRestore), "missing" (failRestore without a cluster),
                  \* "reject", "delete", or "none" so far
    todo,         \* pods or sentinels of the current loop still to visit
    failed,       \* a sentinel of the loop refused the setting
    \* The Redis pods and their volumes
    up,           \* whether the container runs
    data,         \* the dataset in memory
    aof,          \* whether appendonly is on
    aofDir,       \* the dataset appendonlydir holds, None: there is none
    payload,      \* the staged payload and its marker
    \* The Sentinels
    sentinelUp, quiesced,
    master,       \* the master they agree on
    statusMaster, \* status.masterNode of the RedisSentinel
    \* The repair pass of the RedisSentinel reconciler
    syncTodo,     \* sentinels it has still to read and repair
    syncHold,     \* restoreHoldingQuiesce, as it read it
    \* The operator's configuration, bounds and history
    refusal,      \* why every pass is refused: "reject" (the destination is not on the
                  \* allowlist), "missing" (there is no RedisSentinel any more) or "none"
    failovers, faults,
    served,       \* generation whose payload was loaded since the last staging, or 0
    shut,         \* whose SHUTDOWN NOSAVE the master is down for, or None
    raced         \* a repair pass, under way or from its cache, missed the breadcrumb

crVars == <<life, finalizer, gen, observed, phase, crumb, replaced, age>>
passVars == <<pc, cur, seen, target, exit, todo, failed>>
podVars == <<up, data, aof, aofDir, payload>>
sentinelVars == <<sentinelUp, quiesced>>
syncVars == <<syncTodo, syncHold>>
history == <<served, shut, raced>>
vars == <<crVars, passVars, podVars, sentinelVars, master, statusMaster, syncVars, refusal,
          failovers, faults, history>>

NoPayload == [of |-> None, gen |-> 0, left |-> 0]

Terminal(c) == phase[c] \in TerminalPhases
\* Mutant: a run is given all the time it wants.
ExpiredNever(c) == FALSE

\* restoreExpired
Expired(c) == age[c] > Timeout
RunningSentinels == {s \in Sentinels : sentinelUp[s]}

\* Stages of a pass whose next step is an update of the object's status.
WriteStages == {"start", "gate", "staged", "complete", "failed"}

TypeOK ==
    /\ life \in [Restores -> {"live", "deleting", "gone"}]
    /\ finalizer \in [Restores -> BOOLEAN]
    /\ gen \in [Restores -> 1..MaxGen]
    /\ observed \in [Restores -> 0..MaxGen]
    /\ phase \in [Restores -> Phases]
    /\ crumb \in [Restores -> BOOLEAN]
    /\ replaced \in [Restores -> BOOLEAN]
    /\ age \in [Restores -> 0..Timeout + 1]
    /\ pc \in {"idle", "download", "check", "quiesce", "raise", "shutdown", "verify", "aof",
               "sweep", "reaof", "lower"} \cup WriteStages
    /\ cur \in Restores \cup {None}
    /\ seen \in 0..MaxGen
    /\ target \in Redis \cup {None}
    /\ exit \in Refusals \cup {"fail", "delete"}
    /\ todo \subseteq Redis \cup Sentinels
    /\ failed \in BOOLEAN
    /\ up \in [Redis -> BOOLEAN]
    /\ data \in [Redis -> Datasets]
    /\ aof \in [Redis -> BOOLEAN]
    /\ aofDir \in [Redis -> Datasets \cup {None}]
    /\ payload \in [Redis -> [of : Restores \cup {None}, gen : 0..MaxGen, left : -1..Timeout]]
    /\ sentinelUp \in [Sentinels -> BOOLEAN]
    /\ quiesced \in [Sentinels -> BOOLEAN]
    /\ master \in Redis
    /\ statusMaster \in Redis
    /\ syncTodo \subseteq Sentinels
    /\ syncHold \in BOOLEAN
    /\ refusal \in Refusals
    /\ failovers \in 0..MaxFailovers
    /\ faults \in 0..MaxFaults
    /\ served \in [Restores -> 0..MaxGen]
    /\ shut \in Restores \cup {None}
    /\ raced \in BOOLEAN

\* A healthy cluster whose replicas are in sync, and objects nobody reconciled yet. The pods
\* are alike: which of them is the master makes no difference.
Init ==
    /\ life = [c \in Restores |-> "live"]
    /\ finalizer = [c \in Restores |-> FALSE]
    /\ gen = [c \in Restores |-> 1]
    /\ observed = [c \in Restores |-> 0]
    /\ phase = [c \in Restores |-> "New"]
    /\ crumb = [c \in Restores |-> FALSE]
    /\ replaced = [c \in Restores |-> FALSE]
    /\ age = [c \in Restores |-> 0]
    /\ pc = "idle" /\ cur = None /\ seen = 0 /\ target = None /\ exit = "none"
    /\ todo = {} /\ failed = FALSE
    /\ up = [n \in Redis |-> TRUE]
    /\ data = [n \in Redis |-> Old]
    /\ aof = [n \in Redis |-> TRUE]
    /\ aofDir = [n \in Redis |-> Old]
    /\ payload = [n \in Redis |-> NoPayload]
    /\ sentinelUp = [s \in Sentinels |-> TRUE]
    /\ quiesced = [s \in Sentinels |-> FALSE]
    /\ master = (CHOOSE n \in Redis : TRUE) /\ statusMaster = master
    /\ syncTodo = {} /\ syncHold = FALSE
    /\ refusal = "none"
    /\ failovers = 0 /\ faults = 0
    /\ served = [c \in Restores |-> 0]
    /\ shut = None /\ raced = FALSE

----------------------------------------------------------------------------
(* The user, and the faults                                                *)

UserEditsSpec(c) ==
    /\ life[c] = "live"
    /\ gen[c] < MaxGen
    /\ gen' = [gen EXCEPT ![c] = @ + 1]
    /\ UNCHANGED <<life, finalizer, observed, phase, crumb, replaced, age, passVars, podVars,
                   sentinelVars, master, statusMaster, syncVars, refusal, failovers, faults,
                   history>>

\* A finalizer keeps a deleted object until handleDeletion removed it.
UserDeletes(c) ==
    /\ life[c] = "live"
    /\ life' = [life EXCEPT ![c] = IF finalizer[c] THEN "deleting" ELSE "gone"]
    /\ UNCHANGED <<finalizer, gen, observed, phase, crumb, replaced, age, passVars, podVars,
                   sentinelVars, master, statusMaster, syncVars, refusal, failovers, faults,
                   history>>

Fault == faults < MaxFaults /\ faults' = faults + 1

\* The RedisSentinel is deleted: its own reconciler takes the finalizer off, so no repair pass
\* is under way. Its pods, which go later, are as they were.
UserDeletesCluster ==
    /\ refusal = "none" /\ syncTodo = {}
    /\ Fault
    /\ refusal' = "missing"
    /\ UNCHANGED <<crVars, passVars, podVars, sentinelVars, master, statusMaster, syncVars,
                   failovers, history>>

EndPass ==
    /\ pc' = "idle" /\ cur' = None /\ seen' = 0 /\ target' = None /\ exit' = "none"
    /\ todo' = {} /\ failed' = FALSE

----------------------------------------------------------------------------
(* Reconcile                                                               *)

Handler == [New |-> "start", Pending |-> "gate", Downloading |-> "download",
            Restoring |-> "check", Verifying |-> "verify"]

\* Where a pass over c goes: a new run when a finished one sees another generation, a
\* rejection, a failure when the time of the restart or verify phase is over, or the
\* handler of its phase.
FirstStage(c) ==
    IF Terminal(c) THEN "start"
    ELSE IF refusal # "none" \/ (phase[c] \in {"Restoring", "Verifying"} /\ Expired(c)) THEN "sweep"
    ELSE Handler[phase[c]]

\* Mutant: a finished run is started over whatever the generation.
BeginPassAgain(c) ==
    /\ pc = "idle"
    /\ life[c] = "live"
    /\ finalizer' = [finalizer EXCEPT ![c] = TRUE]
    /\ pc' = FirstStage(c)
    /\ exit' = IF FirstStage(c) # "sweep" THEN "none"
               ELSE IF refusal = "none" THEN "fail" ELSE refusal
    /\ todo' = IF FirstStage(c) = "sweep" THEN Redis ELSE {}
    /\ cur' = c /\ seen' = gen[c] /\ target' = statusMaster
    /\ UNCHANGED <<life, gen, observed, phase, crumb, replaced, age, failed, podVars,
                   sentinelVars, master, statusMaster, syncVars, refusal, failovers, faults,
                   history>>

\* Terminal phases are sticky per spec generation.
BeginPass(c) ==
    /\ pc = "idle"
    /\ life[c] = "live"
    /\ ~(Terminal(c) /\ observed[c] = gen[c])
    /\ finalizer' = [finalizer EXCEPT ![c] = TRUE]
    /\ pc' = FirstStage(c)
    /\ exit' = IF FirstStage(c) # "sweep" THEN "none"
               ELSE IF refusal = "none" THEN "fail" ELSE refusal
    /\ todo' = IF FirstStage(c) = "sweep" THEN Redis ELSE {}
    /\ cur' = c /\ seen' = gen[c] /\ target' = statusMaster
    /\ UNCHANGED <<life, gen, observed, phase, crumb, replaced, age, failed, podVars,
                   sentinelVars, master, statusMaster, syncVars, refusal, failovers, faults,
                   history>>

\* handleDeletion
BeginDeletion(c) ==
    /\ pc = "idle"
    /\ life[c] = "deleting"
    /\ pc' = "sweep" /\ exit' = "delete" /\ todo' = Redis
    /\ cur' = c /\ seen' = gen[c] /\ target' = None
    /\ UNCHANGED <<crVars, failed, podVars, sentinelVars, master, statusMaster, syncVars,
                   refusal, failovers, faults, history>>

\* The object is still the one the pass read: an update would not conflict.
Current == seen = gen[cur] /\ life[cur] = "live"

\* updateStatus
UpdateStatus(p) ==
    /\ Current
    /\ phase' = [phase EXCEPT ![cur] = p]
    /\ observed' = [observed EXCEPT ![cur] = seen]

\* A step of the pass that leaves the pods and the sentinels alone.
ClusterUnchanged ==
    UNCHANGED <<podVars, sentinelVars, master, statusMaster, syncVars, refusal, failovers>>

\* A first run, or a new one: what the last one recorded is cleared.
StartRun ==
    /\ pc = "start"
    /\ UpdateStatus("Pending")
    /\ age' = [age EXCEPT ![cur] = 0]
    /\ crumb' = [crumb EXCEPT ![cur] = FALSE]
    /\ replaced' = [replaced EXCEPT ![cur] = FALSE]
    /\ EndPass
    /\ ClusterUnchanged
    /\ UNCHANGED <<life, finalizer, gen, faults, history>>

Conflict ==
    /\ \/ pc \in WriteStages
       \/ pc = "check" /\ up[target] /\ (payload[target] = NoPayload \/ ~crumb[cur])
    /\ ~Current
    /\ EndPass
    /\ ClusterUnchanged
    /\ UNCHANGED <<crVars, faults, history>>

\* The step needs a container that does not answer: an error or a poll, and the pass is
\* over. The gate looks at the data only when it is not forced.
TargetDown ==
    /\ \/ pc \in {"download", "check", "shutdown", "verify", "aof"}
       \/ pc = "gate" /\ seen \notin Forced
    /\ ~up[target]
    /\ EndPass
    /\ ClusterUnchanged
    /\ UNCHANGED <<crVars, faults, history>>

\* An error of the API, of S3 or of a command: the pass is over.
PassFails ==
    /\ pc # "idle"
    /\ Fault
    /\ EndPass
    /\ ClusterUnchanged
    /\ UNCHANGED <<crVars, history>>

\* The operator restarts, perhaps with a tighter allowlist.
OperatorRestarts ==
    /\ Fault
    /\ EndPass
    /\ syncTodo' = {} /\ syncHold' = FALSE
    /\ refusal' \in IF refusal = "none" THEN {"none", "reject"} ELSE {refusal}
    /\ UNCHANGED <<crVars, podVars, sentinelVars, master, statusMaster, failovers, history>>

----------------------------------------------------------------------------
(* handlePendingPhase and handleDownloadingPhase                           *)

FailRestore == pc' = "sweep" /\ exit' = "fail" /\ todo' = Redis

\* The cluster may be overwritten and the object exists.
GatePassed ==
    /\ pc = "gate"
    /\ seen \in Forced \/ (up[target] /\ data[target] \notin Populated)
    /\ UpdateStatus("Downloading")
    /\ EndPass
    /\ ClusterUnchanged
    /\ UNCHANGED <<life, finalizer, gen, crumb, replaced, age, faults, history>>

\* The cluster holds keys, or the object is missing, empty or no RDB file.
Refused ==
    /\ \/ pc = "gate" /\ (seen \in Forced \/ up[target])
       \/ pc = "download"
    /\ FailRestore
    /\ ClusterUnchanged
    /\ UNCHANGED <<crVars, cur, seen, target, failed, faults, history>>

\* stageRestorePayload: the marker's deadline counts from now, not from the start.
Stage ==
    /\ pc = "download"
    /\ up[target]
    /\ payload' = [payload EXCEPT ![target] = [of |-> cur, gen |-> seen, left |-> Timeout]]
    /\ served' = [served EXCEPT ![cur] = 0]
    /\ pc' = "staged"
    /\ UNCHANGED <<crVars, cur, seen, target, exit, todo, failed, up, data, aof, aofDir,
                   sentinelVars, master, statusMaster, syncVars, refusal, failovers, faults,
                   shut, raced>>

WriteRestoring ==
    /\ pc = "staged"
    /\ UpdateStatus("Restoring")
    /\ EndPass
    /\ ClusterUnchanged
    /\ UNCHANGED <<life, finalizer, gen, crumb, replaced, age, faults, history>>

----------------------------------------------------------------------------
(* handleRestoringPhase                                                    *)

\* The payload is gone although this run shut nothing down.
PayloadLost ==
    /\ pc = "check"
    /\ up[target]
    /\ payload[target] = NoPayload
    /\ ~crumb[cur]
    /\ UpdateStatus("Downloading")
    /\ EndPass
    /\ ClusterUnchanged
    /\ UNCHANGED <<life, finalizer, gen, crumb, replaced, age, faults, history>>

\* The payload is gone after the shutdown: it is taken for loaded.
PayloadConsumed ==
    /\ pc = "check"
    /\ up[target]
    /\ payload[target] = NoPayload
    /\ crumb[cur]
    /\ UpdateStatus("Verifying")
    /\ replaced' = [replaced EXCEPT ![cur] = TRUE]
    /\ EndPass
    /\ ClusterUnchanged
    /\ UNCHANGED <<life, finalizer, gen, crumb, age, faults, history>>

\* Mutant: the breadcrumb is not written before the sentinels are touched.
PayloadPresentNoCrumb ==
    /\ pc = "check"
    /\ up[target]
    /\ payload[target] # NoPayload
    /\ crumb[cur] \/ Current
    /\ crumb' = crumb
    /\ raced' = (raced \/ (~crumb[cur] /\ syncTodo # {} /\ ~syncHold))
    /\ pc' = "quiesce"
    /\ ClusterUnchanged
    /\ UNCHANGED <<life, finalizer, gen, observed, phase, replaced, age, cur, seen, target,
                   exit, todo, failed, faults, served, shut>>

\* The payload is there: the breadcrumb is persisted before any SENTINEL SET.
PayloadPresent ==
    /\ pc = "check"
    /\ up[target]
    /\ payload[target] # NoPayload
    /\ crumb[cur] \/ Current
    /\ crumb' = [crumb EXCEPT ![cur] = TRUE]
    /\ raced' = (raced \/ (~crumb[cur] /\ syncTodo # {} /\ ~syncHold))
    /\ pc' = "quiesce"
    /\ ClusterUnchanged
    /\ UNCHANGED <<life, finalizer, gen, observed, phase, replaced, age, cur, seen, target,
                   exit, todo, failed, faults, served, shut>>

\* setSentinelDownAfter with requireAll: every sentinel of the spec, or none.
ListSentinels ==
    /\ pc = "quiesce"
    /\ IF RunningSentinels = Sentinels
       THEN /\ pc' = "raise" /\ todo' = Sentinels
            /\ UNCHANGED <<cur, seen, target, exit, failed>>
       ELSE EndPass
    /\ ClusterUnchanged
    /\ UNCHANGED <<crVars, faults, history>>

\* SetMasterOptionAll visits them all and reports whether one of them failed.
SetDownAfter(s, value) ==
    /\ s \in todo
    /\ todo' = todo \ {s}
    /\ quiesced' = IF sentinelUp[s] THEN [quiesced EXCEPT ![s] = value] ELSE quiesced
    /\ failed' = (failed \/ ~sentinelUp[s])
    /\ UNCHANGED <<crVars, pc, cur, seen, target, exit, podVars, sentinelUp, master,
                   statusMaster, syncVars, refusal, failovers, faults, history>>

Raise(s) == pc = "raise" /\ SetDownAfter(s, TRUE)

RaiseDone ==
    /\ pc = "raise"
    /\ todo = {}
    /\ IF failed THEN EndPass
       ELSE pc' = "shutdown" /\ UNCHANGED <<cur, seen, target, exit, todo, failed>>
    /\ ClusterUnchanged
    /\ UNCHANGED <<crVars, faults, history>>

\* SHUTDOWN NOSAVE of the pod that was the master when the pass began.
Shutdown ==
    /\ pc = "shutdown"
    /\ up[target]
    /\ up' = [up EXCEPT ![target] = FALSE]
    /\ shut' = IF target = master THEN cur ELSE shut
    /\ EndPass
    /\ UNCHANGED <<crVars, data, aof, aofDir, payload, sentinelVars, master, statusMaster,
                   syncVars, refusal, failovers, faults, served, raced>>

----------------------------------------------------------------------------
(* handleVerifyingPhase                                                    *)

\* PING, ROLE and INFO keyspace of the target.
VerifyFails ==
    /\ pc = "verify"
    /\ up[target]
    /\ target # master \/ data[target] \notin Populated
    /\ FailRestore
    /\ ClusterUnchanged
    /\ UNCHANGED <<crVars, cur, seen, target, failed, faults, history>>

Verified ==
    /\ pc = "verify"
    /\ up[target]
    /\ target = master
    /\ data[target] \in Populated
    /\ pc' = "aof"
    /\ ClusterUnchanged
    /\ UNCHANGED <<crVars, cur, seen, target, exit, todo, failed, faults, history>>

\* Mutant: the append only file is left off.
AppendonlyForgotten(n) == UNCHANGED <<aof, aofDir>>

\* CONFIG SET appendonly yes rewrites the file from the dataset in memory.
AppendonlyYes(n) ==
    /\ aof' = [aof EXCEPT ![n] = TRUE]
    /\ aofDir' = [aofDir EXCEPT ![n] = data[n]]

\* Then the pre-restore AOF is removed and restoreSentinelDownAfter begins.
EnableAof ==
    /\ pc = "aof"
    /\ up[target]
    /\ AppendonlyYes(target)
    /\ pc' = "lower" /\ todo' = RunningSentinels
    /\ UNCHANGED <<crVars, cur, seen, target, exit, failed, up, data, payload, sentinelVars,
                   master, statusMaster, syncVars, refusal, failovers, faults, history>>

Lower(s) == pc = "lower" /\ SetDownAfter(s, FALSE)

\* A completing pass retries when a sentinel failed, a failing one carries on.
LowerDone ==
    /\ pc = "lower"
    /\ todo = {}
    /\ IF failed /\ exit = "none" THEN EndPass
       ELSE /\ pc' = IF exit = "none" THEN "complete" ELSE "failed"
            /\ UNCHANGED <<cur, seen, target, exit, todo, failed>>
    /\ ClusterUnchanged
    /\ UNCHANGED <<crVars, faults, history>>

WriteCompleted ==
    /\ pc = "complete"
    /\ UpdateStatus("Completed")
    /\ crumb' = [crumb EXCEPT ![cur] = FALSE]
    /\ EndPass
    /\ ClusterUnchanged
    /\ UNCHANGED <<life, finalizer, gen, replaced, age, faults, history>>

----------------------------------------------------------------------------
(* failRestore, markDestinationRejected and the sweep                      *)

\* rm -f of payload and marker, when the exec succeeds.
Sweep(n) ==
    /\ pc = "sweep"
    /\ n \in todo
    /\ todo' = todo \ {n}
    /\ \/ /\ payload' = IF up[n] THEN [payload EXCEPT ![n] = NoPayload] ELSE payload
          /\ UNCHANGED faults
       \/ up[n] /\ Fault /\ UNCHANGED payload
    /\ UNCHANGED <<crVars, pc, cur, seen, target, exit, failed, up, data, aof, aofDir,
                   sentinelVars, master, statusMaster, syncVars, refusal, failovers, history>>

\* failRestore lifts the quiesce if there is a cluster; a rejection leaves that to the other
\* reconciler.
LiftOrReport ==
    IF exit = "fail" /\ crumb[cur]
    THEN pc' = "lower" /\ todo' = RunningSentinels
    ELSE pc' = "failed" /\ todo' = {}

\* Once the dataset is replaced its durability comes back first.
SweepDone ==
    /\ pc = "sweep"
    /\ todo = {}
    /\ exit # "delete"
    /\ IF replaced[cur] /\ exit # "missing" THEN pc' = "reaof" /\ UNCHANGED todo ELSE LiftOrReport
    /\ ClusterUnchanged
    /\ UNCHANGED <<crVars, cur, seen, target, exit, failed, faults, history>>

\* reenableAppendonly, best effort.
Reaof ==
    /\ pc = "reaof"
    /\ IF up[target] THEN AppendonlyYes(target) ELSE UNCHANGED <<aof, aofDir>>
    /\ LiftOrReport
    /\ UNCHANGED <<crVars, cur, seen, target, exit, failed, up, data, payload, sentinelVars,
                   master, statusMaster, syncVars, refusal, failovers, faults, history>>

WriteFailed ==
    /\ pc = "failed"
    /\ UpdateStatus("Failed")
    /\ crumb' = [crumb EXCEPT ![cur] = @ /\ (failed \/ exit # "fail")]
    /\ EndPass
    /\ ClusterUnchanged
    /\ UNCHANGED <<life, finalizer, gen, replaced, age, faults, history>>

\* handleDeletion removes the finalizer whatever the sweep reached.
DeletionDone ==
    /\ pc = "sweep"
    /\ todo = {}
    /\ exit = "delete"
    /\ life' = [life EXCEPT ![cur] = "gone"]
    /\ EndPass
    /\ ClusterUnchanged
    /\ UNCHANGED <<finalizer, gen, observed, phase, crumb, replaced, age, faults, history>>

----------------------------------------------------------------------------
(* The RedisSentinel reconciler                                            *)

\* Mutant: a finished run that kept its breadcrumb still holds the quiesce.
HoldingForever == \E c \in Restores : life[c] # "gone" /\ crumb[c]

\* restoreHoldingQuiesce
Holding == \E c \in Restores : life[c] # "gone" /\ crumb[c] /\ ~Terminal(c)

\* updateStatus repairs only while every sentinel of the spec is ready. The list of
\* RedisRestores comes from a cache, which may not have the breadcrumb yet.
SyncRead ==
    /\ refusal # "missing"
    /\ syncTodo = {}
    /\ RunningSentinels = Sentinels
    /\ syncTodo' = RunningSentinels
    /\ \/ syncHold' = Holding /\ UNCHANGED <<faults, raced>>
       \/ Holding /\ Fault /\ syncHold' = FALSE /\ raced' = TRUE
    /\ UNCHANGED <<crVars, passVars, podVars, sentinelVars, master, statusMaster, refusal,
                   failovers, served, shut>>

\* The spec's down-after-milliseconds, unless the pass found a restore holding it.
SyncSet(s) ==
    /\ s \in syncTodo
    /\ syncTodo' = syncTodo \ {s}
    /\ quiesced' = IF sentinelUp[s] /\ ~syncHold THEN [quiesced EXCEPT ![s] = FALSE]
                   ELSE quiesced
    /\ UNCHANGED <<crVars, passVars, podVars, sentinelUp, master, statusMaster, syncHold,
                   refusal, failovers, faults, history>>

\* status.masterNode follows what the sentinels report.
RefreshMaster ==
    /\ refusal # "missing"
    /\ statusMaster # master
    /\ statusMaster' = master
    /\ UNCHANGED <<crVars, passVars, podVars, sentinelVars, master, syncVars, refusal,
                   failovers, faults, history>>

----------------------------------------------------------------------------
(* Containers, Sentinels (external) and the init script                    *)

\* Mutant: the marker's deadline is not looked at.
ArmedAlways(n) == payload[n] # NoPayload

\* Mutant: the deadline itself is taken for past.
ArmedBefore(n) == payload[n] # NoPayload /\ payload[n].left > 0

\* The init script finds a payload whose marker is current.
Armed(n) == payload[n] # NoPayload /\ payload[n].left >= 0

\* An armed payload becomes the dataset, the AOF is moved aside and left off; otherwise
\* the payload, if any, is deleted and the AOF is loaded.
Boot(n) ==
    LET loads == IF Armed(n) THEN payload[n].of
                 ELSE IF aofDir[n] = None THEN Lost ELSE aofDir[n]
    IN  /\ ~up[n]
        /\ up' = [up EXCEPT ![n] = TRUE]
        /\ data' = [data EXCEPT ![n] = loads]
        /\ aof' = [aof EXCEPT ![n] = ~Armed(n)]
        /\ aofDir' = [aofDir EXCEPT ![n] = IF Armed(n) THEN None ELSE loads]
        /\ payload' = [payload EXCEPT ![n] = NoPayload]
        /\ served' = IF Armed(n) THEN [served EXCEPT ![payload[n].of] = payload[n].gen] ELSE served
        /\ shut' = IF n = master THEN None ELSE shut
        /\ UNCHANGED <<crVars, passVars, sentinelVars, master, statusMaster, syncVars, refusal,
                       failovers, faults, raced>>

\* A replica takes over the master's dataset.
Replicate(n) ==
    /\ n # master
    /\ up[n] /\ up[master]
    /\ data[n] # data[master]
    /\ data' = [data EXCEPT ![n] = data[master]]
    /\ aofDir' = IF aof[n] THEN [aofDir EXCEPT ![n] = data[master]] ELSE aofDir
    /\ UNCHANGED <<crVars, passVars, up, aof, payload, sentinelVars, master, statusMaster,
                   syncVars, refusal, failovers, faults, history>>

Crash(n) ==
    /\ up[n]
    /\ Fault
    /\ up' = [up EXCEPT ![n] = FALSE]
    /\ UNCHANGED <<crVars, passVars, data, aof, aofDir, payload, sentinelVars, master,
                   statusMaster, syncVars, refusal, failovers, history>>

\* The sentinels give up on a master that is down: at once when a quorum of them is not
\* quiesced, and also quiesced ones when it stays away for longer than that allows.
Failover(n) ==
    /\ failovers < MaxFailovers
    /\ n # master /\ up[n] /\ ~up[master]
    /\ \/ Cardinality({s \in RunningSentinels : ~quiesced[s]}) >= Quorum /\ UNCHANGED faults
       \/ Cardinality(RunningSentinels) >= Quorum /\ Fault
    /\ failovers' = failovers + 1
    /\ master' = n
    /\ shut' = None
    /\ UNCHANGED <<crVars, passVars, podVars, sentinelVars, statusMaster, syncVars, refusal,
                   served, raced>>

\* A sentinel keeps its settings in its own state file.
SentinelStops(s) ==
    /\ sentinelUp[s]
    /\ Fault
    /\ sentinelUp' = [sentinelUp EXCEPT ![s] = FALSE]
    /\ UNCHANGED <<crVars, passVars, podVars, quiesced, master, statusMaster, syncVars,
                   refusal, failovers, history>>

SentinelStarts(s) ==
    /\ ~sentinelUp[s]
    /\ sentinelUp' = [sentinelUp EXCEPT ![s] = TRUE]
    /\ UNCHANGED <<crVars, passVars, podVars, quiesced, master, statusMaster, syncVars,
                   refusal, failovers, faults, history>>

\* Time passes; what is past its deadline stays past it.
Tick ==
    /\ age' = [c \in Restores |-> IF age[c] > Timeout THEN age[c] ELSE age[c] + 1]
    /\ payload' = [n \in Redis |-> IF Armed(n) THEN [payload[n] EXCEPT !.left = @ - 1]
                                   ELSE payload[n]]
    /\ UNCHANGED <<life, finalizer, gen, observed, phase, crumb, replaced, passVars, up, data,
                   aof, aofDir, sentinelVars, master, statusMaster, syncVars, refusal,
                   failovers, faults, history>>

----------------------------------------------------------------------------
Phase ==
    \/ StartRun \/ Conflict \/ TargetDown
    \/ GatePassed \/ Refused \/ Stage \/ WriteRestoring
    \/ PayloadLost \/ PayloadConsumed \/ PayloadPresent \/ ListSentinels \/ RaiseDone \/ Shutdown
    \/ VerifyFails \/ Verified \/ EnableAof \/ LowerDone \/ WriteCompleted
    \/ SweepDone \/ Reaof \/ WriteFailed \/ DeletionDone
    \/ \E s \in Sentinels : Raise(s) \/ Lower(s)
    \/ \E n \in Redis : Sweep(n)

Begin(c) == BeginPass(c) \/ BeginDeletion(c)

Sync == SyncRead \/ \E s \in Sentinels : SyncSet(s)

Environment ==
    \/ \E c \in Restores : UserEditsSpec(c) \/ UserDeletes(c)
    \/ UserDeletesCluster \/ PassFails \/ OperatorRestarts
    \/ \E n \in Redis : Boot(n) \/ Replicate(n) \/ Crash(n) \/ Failover(n)
    \/ \E s \in Sentinels : SentinelStops(s) \/ SentinelStarts(s)

Next == Phase \/ (\E c \in Restores : Begin(c)) \/ Sync \/ RefreshMaster \/ Tick \/ Environment

Spec == Init /\ [][Next]_vars

\* Both reconcilers are requeued for ever and time passes. Nothing is assumed of the
\* containers and the sentinels: a pod may stay away for good.
Fairness ==
    /\ WF_vars(Phase)
    /\ \A c \in Restores : SF_vars(Begin(c))
    /\ WF_vars(Sync) /\ WF_vars(RefreshMaster) /\ WF_vars(Tick)

FairSpec == Spec /\ Fairness

----------------------------------------------------------------------------
(* Properties                                                              *)

\* So far the master has stayed, and the reconciler has taken up at most one RedisRestore:
\* neither is something the code ensures.
Undisturbed ==
    /\ failovers = 0
    /\ \A c, d \in Restores : finalizer[c] /\ finalizer[d] => c = d

\* "Completed" is only ever reported by a run whose staged payload a boot really loaded.
CompletedAfterLoad == \A c \in Restores : phase[c] = "Completed" => served[c] # 0

\* A completed restore leaves a master that persists its dataset, and no payload that a
\* later restart would load.
CompletedIsDurable ==
    \A c \in Restores : phase[c] = "Completed" =>
        /\ up[master] => aof[master]
        /\ \A n \in Redis : payload[n].of # c

\* Both hold while the master stays and no second RedisRestore interferes.
LoadedOnSameMaster == Undisturbed => CompletedAfterLoad
DurableOnSameMaster == Undisturbed => CompletedIsDurable

\* "an operator restart cannot desynchronise the two controllers" (restoreHoldingQuiesce): the
\* master is down for a restore that still has time, so every sentinel is quiesced. A repair
\* pass that read the restores before the breadcrumb was written or cached breaks it.
QuiesceHeld ==
    shut # None /\ phase[shut] = "Restoring" /\ life[shut] # "gone" /\ ~Expired(shut) =>
        \A s \in Sentinels : quiesced[s]

\* That is the only way to lose it: the breadcrumb comes before the first SENTINEL SET and a
\* repair pass that sees it leaves the raised setting alone, while docs/operations.md:301-304
\* has it "converged back towards the spec [...] within one reconcile pass".
QuiesceHeldUnlessRaced == ~raced => QuiesceHeld

\* A run that restarts or verifies never hangs: it completes, fails by its deadline, goes
\* back to staging, or is deleted, even when pods and sentinels stay away for good.
RestartEnds ==
    \A c \in Restores : phase[c] \in {"Restoring", "Verifying"} ~>
        (Terminal(c) \/ phase[c] = "Downloading" \/ life[c] = "gone")

\* "the reverse order could leave the sentinels quiesced forever": no sentinel of a complete
\* set stays quiesced, however the run that raised it ended, or did not end.
QuiesceLifted ==
    \A s \in Sentinels :
        quiesced[s] ~> (~quiesced[s] \/ RunningSentinels # Sentinels \/ refusal = "missing")

----------------------------------------------------------------------------
(* The inductive invariant from which the safety properties follow.        *)

\* What a pass works on: an object that cannot go away under it, and a pod unless it ends a
\* deletion. Only a pass of the reconciler stages a payload.
PassInv ==
    /\ \A c \in Restores : life[c] = "deleting" => finalizer[c]
    /\ \A n \in Redis : payload[n] # NoPayload =>
           payload[n].of \in Restores /\ payload[n].gen > 0
    /\ pc # "idle" =>
           /\ cur \in Restores /\ seen > 0 /\ finalizer[cur] /\ life[cur] # "gone"
           /\ IF exit = "delete" THEN pc = "sweep" /\ life[cur] = "deleting"
              ELSE target \in Redis

\* An object no pass ever worked on has no history and no payload.
TouchedInv ==
    /\ \A c \in Restores : phase[c] # "New" => finalizer[c]
    /\ \A n \in Redis : payload[n] # NoPayload => phase[payload[n].of] # "New"

\* Every stage belongs to a phase, and every way out has its reason.
StageInv ==
    /\ pc \in {"download", "staged"} => phase[cur] = "Downloading"
    /\ pc = "gate" => phase[cur] = "Pending"
    /\ pc \in {"check", "quiesce", "raise", "shutdown"} => phase[cur] = "Restoring"
    /\ pc \in {"verify", "aof", "complete"} => phase[cur] = "Verifying"
    /\ pc = "lower" => exit = "fail" \/ (exit = "none" /\ phase[cur] = "Verifying")
    /\ pc = "start" => phase[cur] = "New" \/ (Terminal(cur) /\ observed[cur] # seen)
    /\ pc \notin {"idle", "start"} /\ exit # "delete" => ~Terminal(cur)
    /\ pc \notin {"sweep", "reaof", "lower", "failed"} => exit = "none"
    /\ pc \in {"sweep", "reaof", "failed"} => exit # "none"
    /\ exit \in {"reject", "missing"} => refusal # "none"
    /\ exit = "fail" /\ phase[cur] = "Restoring" => Expired(cur)

\* The breadcrumb is there from the first SENTINEL SET until the run is over, and the repair
\* passes that begin in between see it.
CrumbInv ==
    /\ \A c \in Restores : phase[c] \in {"New", "Pending", "Downloading"} => ~crumb[c]
    /\ pc \in {"quiesce", "raise", "shutdown"} => crumb[cur]
    /\ \A c \in Restores : crumb[c] /\ ~Terminal(c) /\ life[c] # "gone" =>
           syncTodo = {} \/ syncHold \/ raced

\* What a pass has raised stays raised until it sends SHUTDOWN, unless a repair pass raced it.
RaiseInv ==
    /\ ~raced /\ pc = "raise" /\ ~failed => \A s \in Sentinels \ todo : quiesced[s]
    /\ ~raced /\ pc = "shutdown" => \A s \in Sentinels : quiesced[s]

\* The one pod that is worked on.
MasterInv ==
    /\ statusMaster = master /\ target \in {master, None}
    /\ \A n \in Redis \ {master} : payload[n] = NoPayload

\* The master is down for the run that holds the quiesce.
ShutInv ==
    /\ shut # None => shut \in Restores /\ ~up[master]
    /\ shut # None /\ phase[shut] = "Restoring" => crumb[shut]
    /\ pc = "staged" => shut = None

\* Nothing is owed to the run any more: its pass can only fail, or its payload was loaded.
Over(c) == Expired(c) \/ refusal # "none" \/ life[c] # "live"

\* A marker runs out with the run or after it, so a payload that is gone was loaded, or the
\* run is over.
LoadInv ==
    /\ \A c \in Restores :
           /\ phase[c] = "Restoring" \/ (pc = "staged" /\ cur = c)
           /\ payload[master] # NoPayload
           => Expired(c) \/ age[c] + payload[master].left >= Timeout
    /\ \A c \in Restores : phase[c] = "Restoring" /\ crumb[c] /\ payload[master] = NoPayload =>
           served[c] # 0 \/ Over(c)
    /\ \A c \in Restores : phase[c] = "Verifying" => served[c] # 0 \/ Over(c)

\* A verified dataset was loaded, and becomes durable before the run completes.
VerifyInv ==
    /\ \A c \in Restores : phase[c] \in {"Verifying", "Completed"} => payload[master] = NoPayload
    /\ pc \in {"verify", "aof", "complete"} \/ (pc = "lower" /\ exit = "none") => served[cur] # 0
    /\ (pc = "complete" \/ (pc = "lower" /\ exit = "none")) /\ up[master] => aof[master]
    /\ \A c \in Restores : phase[c] = "Completed" =>
           served[c] # 0 /\ (up[master] => aof[master])

\* The first part holds whatever happens, the second as long as nothing disturbs the run.
IndInv == TypeOK /\ PassInv /\ TouchedInv /\ StageInv /\ CrumbInv /\ RaiseInv
QuietInv == MasterInv /\ ShutInv /\ QuiesceHeldUnlessRaced /\ LoadInv /\ VerifyInv
RunInv == IndInv /\ (Undisturbed => QuietInv)

----------------------------------------------------------------------------
(* The abstract specification it implements.                               *)

\* What a phase reports.
Reports(p) == CASE p = "New" -> "none" [] p = "Completed" -> "completed"
                [] p = "Failed" -> "failed" [] OTHER -> "running"

Wanted == [c \in Restores |-> life[c] = "live"]
Reported == [c \in Restores |-> Reports(phase[c])]
Loaded == [c \in Restores |-> served[c] # 0]

Outcome == INSTANCE RestoreOutcome WITH
    asked <- gen, answered <- observed, wanted <- Wanted, outcome <- Reported,
    loaded <- Loaded, quiet <- Undisturbed

\* The phases, deletions and boots of any number of RedisRestores implement RestoreOutcome:
\* an answer stands until the generation changes, nothing is reported of a deleted object,
\* and what is reported as completed was loaded and is not loaded again.
ImplementsOutcome == Outcome!OutcomeSpec
=============================================================================
