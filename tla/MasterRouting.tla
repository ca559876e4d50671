--------------------------- MODULE MasterRouting ---------------------------
(***************************************************************************)
(* How the RedisSentinel reconciler (redissentinel_controller.go) follows  *)
(* the master the Sentinels elect: updateStatus detects a failover,        *)
(* handleFailover and repointStrayReplicas reconfigure replication,        *)
(* reconcileMasterLabel moves the label that the write Service selects,    *)
(* and holdScaleDownUntilMasterMoves keeps a scale-down off the master.    *)
(*                                                                         *)
(* A pass is a sequence of reads, commands and API writes; pods, Sentinels *)
(* and the user move between any two of them. A pod that is replaced gets  *)
(* a new address, a container that restarts keeps it.                      *)
(*                                                                         *)
(* External, and abstracted: an election promotes a known live replica in  *)
(* one step and the Sentinels learn of it one by one; a Sentinel knows the *)
(* addresses that replicated from the master. The operator's cache of pods *)
(* is current when it is read. Sentinel scale-down is not part of this.    *)
(***************************************************************************)
EXTENDS Integers, FiniteSets

CONSTANTS
    Size,       \* redis replicas at the start: ordinals 0..Size-1
    MinSize,    \* the smallest spec.redisConfig.replicas the user asks for
    Sentinels,
    Quorum,
    MaxAddr,    \* bound on the addresses pods are given
    MaxEdits,   \* bound on the user's edits
    MaxFaults   \* bound on injected failures

ASSUME RoutingAssumption ==
    /\ Size \in Nat /\ MinSize \in 1..Size
    /\ IsFiniteSet(Sentinels)
    /\ MaxAddr \in Nat /\ MaxAddr >= Size
    /\ Quorum \in Nat /\ MaxEdits \in Nat /\ MaxFaults \in Nat

Ordinals == 0..Size - 1
Addresses == 1..MaxAddr
NoAddr == 0       \* there is no pod, nobody was asked
Itself == 0       \* a node that follows nobody: it is a master
Host == -1        \* a node that follows the host name of ordinal 0

VARIABLES
    \* Pods
    addr,         \* the pod's address, NoAddr: there is no pod
    leaving,      \* its deletionTimestamp is set
    alive,        \* its server answers
    follows,      \* the source of its replication
    label,        \* it carries the role label
    lastAddr,
    \* Sentinels
    sentinelUp,
    view,         \* the master address a sentinel reports
    elected,      \* the address of the newest election
    known,        \* the addresses the sentinels monitor
    forced,       \* a SENTINEL FAILOVER was accepted and is under way
    \* API objects
    want,         \* spec.redisConfig.replicas
    replicas,     \* replicas of the StatefulSet
    statusMaster, \* status.masterNode
    settling,     \* status.lastFailoverTime is less than a failover timeout ago
    \* The pass
    pc,
    stale,        \* the object changed since the pass read it
    size,         \* spec.redisConfig.replicas, as it read it
    hold,         \* the scale-down is held
    seen,         \* the master address it acts on
    todo,         \* addresses of the current loop still to visit
    stray,        \* the address it is about to repoint
    target,       \* pods that get the label
    patches,      \* pods whose label is still to be patched
    torn,         \* the last labelling was cut short
    \* Bounds and history
    edits, faults,
    quiet         \* the sentinel last asked knew the newest election, and none followed

podVars == <<addr, leaving, alive, follows, lastAddr>>
sentinelVars == <<sentinelUp, view, elected, known, forced>>
statusVars == <<statusMaster, settling>>
passVars == <<pc, stale, size, hold, seen, todo, stray, target, patches, torn>>
vars == <<podVars, label, sentinelVars, want, replicas, statusVars, passVars, edits, faults,
          quiet>>

RunningSentinels == {s \in Sentinels : sentinelUp[s]}

\* A majority of the sentinels and the quorum are there: an election can be won, and
\* SENTINEL CKQUORUM says so.
QuorumHealthy ==
    /\ 2 * Cardinality(RunningSentinels) > Cardinality(Sentinels)
    /\ Cardinality(RunningSentinels) >= Quorum

MasterServes == \E n \in Ordinals : addr[n] = elected /\ alive[n] /\ follows[n] = Itself

\* Replicas a sentinel may promote.
Candidates ==
    {n \in Ordinals : alive[n] /\ follows[n] # Itself /\ addr[n] \in known \ {elected}}

Labelled == {n \in Ordinals : label[n]}

TypeOK ==
    /\ addr \in [Ordinals -> 0..MaxAddr]
    /\ leaving \in [Ordinals -> BOOLEAN]
    /\ alive \in [Ordinals -> BOOLEAN]
    /\ follows \in [Ordinals -> -1..MaxAddr]
    /\ label \in [Ordinals -> BOOLEAN]
    /\ lastAddr \in 0..MaxAddr
    /\ sentinelUp \in [Sentinels -> BOOLEAN]
    /\ view \in [Sentinels -> Addresses]
    /\ elected \in Addresses
    /\ known \subseteq Addresses
    /\ forced \in BOOLEAN
    /\ want \in MinSize..Size
    /\ replicas \in MinSize..Size
    /\ statusMaster \in 0..MaxAddr
    /\ settling \in BOOLEAN
    /\ pc \in {"idle", "scale", "resize", "query", "quorum", "requery", "demote", "follow",
               "repoint", "list", "label", "write"}
    /\ stale \in BOOLEAN
    /\ size \in MinSize..Size
    /\ hold \in BOOLEAN
    /\ seen \in 0..MaxAddr
    /\ todo \subseteq Addresses /\ (todo # {} => pc \in {"follow", "repoint"})
    /\ stray \in 0..MaxAddr /\ (stray # NoAddr => pc = "repoint")
    /\ target \subseteq Ordinals
    /\ patches \subseteq Ordinals /\ (patches # {} => pc = "label")
    /\ torn \in BOOLEAN
    /\ edits \in 0..MaxEdits
    /\ faults \in 0..MaxFaults
    /\ quiet \in BOOLEAN

\* A healthy cluster, before or after the operator first recorded its master.
Init ==
    /\ addr = [n \in Ordinals |-> n + 1]
    /\ leaving = [n \in Ordinals |-> FALSE]
    /\ alive = [n \in Ordinals |-> TRUE]
    /\ elected \in 1..Size
    /\ follows = [n \in Ordinals |-> IF n + 1 = elected THEN Itself ELSE elected]
    /\ lastAddr = Size
    /\ sentinelUp = [s \in Sentinels |-> TRUE]
    /\ view = [s \in Sentinels |-> elected]
    /\ known = 1..Size
    /\ forced = FALSE
    /\ want = Size /\ replicas = Size
    /\ \/ statusMaster = elected /\ label = [n \in Ordinals |-> n + 1 = elected]
       \/ statusMaster = NoAddr /\ label = [n \in Ordinals |-> FALSE]
    /\ settling = FALSE
    /\ pc = "idle" /\ stale = FALSE /\ size = Size /\ hold = FALSE /\ seen = NoAddr
    /\ todo = {} /\ stray = NoAddr /\ target = {} /\ patches = {}
    /\ torn = FALSE
    /\ edits = 0 /\ faults = 0 /\ quiet = FALSE

Fault == faults < MaxFaults /\ faults' = faults + 1

----------------------------------------------------------------------------
(* The pass: reconcileStatefulSets                                         *)

BeginPass ==
    /\ pc = "idle"
    /\ pc' = "scale"
    /\ size' = want
    /\ UNCHANGED <<stale, hold, seen, todo, stray, target, patches, torn, podVars, label, sentinelVars, want,
                   replicas, statusVars, edits, faults, quiet>>

\* The ordinal of the running pod with this address, as masterOrdinal resolves it.
OrdinalsOf(a) == {n \in Ordinals : addr[n] = a /\ ~leaving[n]}

\* Mutant: the first ordinal to be removed is taken for one that stays.
StaysTooMany(n) == n <= size

\* A pod of this ordinal survives the scale-down.
Stays(n) == n < size

ScalesDown == size < replicas

\* FailoverFromPool: accepted, already in progress, or refused for want of a replica.
RequestFailover == forced' = (forced \/ Candidates # {})

\* holdScaleDownUntilMasterMoves: no sentinel answers, the address it names is nobody's, or
\* the master is on an ordinal to be removed, and is asked to move unless it just did.
HoldScaleDown ==
    /\ pc = "scale"
    /\ ScalesDown
    /\ \/ RunningSentinels = {} /\ UNCHANGED <<quiet, forced>>
       \/ \E s \in RunningSentinels :
            /\ ~ \E n \in OrdinalsOf(view[s]) : Stays(n)
            /\ quiet' = (view[s] = elected)
            /\ IF settling \/ OrdinalsOf(view[s]) = {} THEN UNCHANGED forced ELSE RequestFailover
    /\ hold' = TRUE
    /\ pc' = "resize"
    /\ UNCHANGED <<stale, size, seen, todo, stray, target, patches, torn, podVars,
                   label, sentinelUp, view, elected, known, want, replicas, statusVars, edits,
                   faults>>

\* There is nothing to hold, the master stays, or the StatefulSet could not be read, which is
\* taken for nothing to hold without a question to the sentinels.
AllowScale ==
    /\ pc = "scale"
    /\ \/ ~ScalesDown /\ UNCHANGED <<quiet, faults>>
       \/ ScalesDown /\ UNCHANGED faults /\ \E s \in RunningSentinels :
            /\ \E n \in OrdinalsOf(view[s]) : Stays(n)
            /\ quiet' = (view[s] = elected)
       \/ ScalesDown /\ Fault /\ quiet' = FALSE
    /\ pc' = "resize"
    /\ UNCHANGED <<stale, size, hold, seen, todo, stray, target, patches, torn, podVars,
                   label, sentinelVars, want, replicas, statusVars, edits>>

\* createOrUpdate of the StatefulSet.
Resize ==
    /\ pc = "resize"
    /\ replicas' = IF hold THEN replicas ELSE size
    /\ pc' = "query"
    /\ UNCHANGED <<stale, size, hold, seen, todo, stray, target, patches, torn, podVars,
                   label, sentinelVars, want, statusVars, edits, faults, quiet>>

----------------------------------------------------------------------------
(* The pass: updateStatus                                                  *)

RunningPods == {addr[n] : n \in Ordinals} \ {NoAddr}

Moved == statusMaster \notin {NoAddr, seen}

\* getCurrentMaster: the first sentinel that answers.
QueryMaster ==
    /\ pc = "query"
    /\ \E s \in RunningSentinels :
        /\ seen' = view[s]
        /\ quiet' = (view[s] = elected)
        /\ IF statusMaster \notin {NoAddr, view[s]} THEN pc' = "quorum" /\ UNCHANGED todo
           ELSE pc' = "repoint" /\ todo' = RunningPods \ {view[s]}
    /\ UNCHANGED <<stale, size, hold, stray, target, patches, torn, podVars, label,
                   sentinelVars, want, replicas, statusVars, edits, faults>>

\* No sentinel answers, or the question fails on the way.
QueryFails ==
    /\ pc = "query"
    /\ IF RunningSentinels = {} THEN UNCHANGED faults ELSE Fault
    /\ pc' = "write"
    /\ UNCHANGED <<stale, size, hold, seen, todo, stray, target, patches, torn, podVars,
                   label, sentinelVars, want, replicas, statusVars, edits, quiet>>

\* handleFailover, first half: nothing is touched without a quorum.
CheckQuorum ==
    /\ pc = "quorum"
    /\ pc' = IF QuorumHealthy THEN "requery" ELSE "list"
    /\ UNCHANGED <<stale, size, hold, seen, todo, stray, target, patches, torn, podVars, label,
                   sentinelVars, want, replicas, statusVars, edits, faults, quiet>>

\* Mutant: the answer to the second question is not looked at.
RequeryIgnored ==
    /\ pc = "requery"
    /\ IF RunningSentinels = {} THEN pc' = "list" /\ UNCHANGED quiet
       ELSE \E s \in RunningSentinels :
                /\ quiet' = (view[s] = elected)
                /\ pc' = "demote"
    /\ UNCHANGED <<stale, size, hold, seen, todo, stray, target, patches, torn, podVars, label,
                   sentinelVars, want, replicas, statusVars, edits, faults>>

\* Nor when the master cannot be confirmed, or has moved again.
Requery ==
    /\ pc = "requery"
    /\ IF RunningSentinels = {} THEN pc' = "list" /\ UNCHANGED quiet
       ELSE \E s \in RunningSentinels :
                /\ quiet' = (view[s] = elected)
                /\ pc' = IF view[s] = seen THEN "demote" ELSE "list"
    /\ UNCHANGED <<stale, size, hold, seen, todo, stray, target, patches, torn, podVars, label,
                   sentinelVars, want, replicas, statusVars, edits, faults>>

\* SLAVEOF sent to an address: it takes effect if a server answers there.
SlaveOf(a, source) ==
    follows' = [n \in Ordinals |-> IF addr[n] = a /\ alive[n] THEN source ELSE follows[n]]

\* The old master becomes a replica; an error is only logged.
DemoteOld ==
    /\ pc = "demote"
    /\ \/ SlaveOf(statusMaster, seen) /\ UNCHANGED faults
       \/ Fault /\ UNCHANGED follows
    /\ pc' = "follow" /\ todo' = RunningPods \ {seen}
    /\ UNCHANGED <<stale, size, hold, seen, stray, target, patches, torn, addr, leaving,
                   alive, lastAddr, label, sentinelVars, want, replicas, statusVars, edits,
                   quiet>>

\* ensureReplicasFollowMaster: whatever else a pod follows, and a master too.
EnsureFollows(a) ==
    /\ pc = "follow"
    /\ a \in todo
    /\ todo' = todo \ {a}
    /\ \/ SlaveOf(a, seen) /\ UNCHANGED faults
       \/ Fault /\ UNCHANGED follows
    /\ UNCHANGED <<pc, stale, size, hold, seen, stray, target, patches, torn, addr,
                   leaving, alive, lastAddr, label, sentinelVars, want, replicas, statusVars,
                   edits, quiet>>

\* Mutant: only a replica of the host name counts.
StrayByName(n) == alive[n] /\ follows[n] = Host

\* A replica of something else than the master.
IsStray(n) == alive[n] /\ follows[n] \notin {Itself, seen}

\* repointStrayReplicas asks a pod for its role and its source...
InspectReplica(a) ==
    /\ pc = "repoint"
    /\ stray = NoAddr
    /\ a \in todo
    /\ todo' = todo \ {a}
    /\ stray' = IF \E n \in Ordinals : addr[n] = a /\ IsStray(n) THEN a ELSE NoAddr
    /\ UNCHANGED <<pc, stale, size, hold, seen, target, patches, torn, podVars, label,
                   sentinelVars, want, replicas, statusVars, edits, faults, quiet>>

\* ...and then sends SLAVEOF.
Repoint ==
    /\ pc = "repoint"
    /\ stray # NoAddr
    /\ \/ SlaveOf(stray, seen) /\ UNCHANGED faults
       \/ Fault /\ UNCHANGED follows
    /\ stray' = NoAddr
    /\ UNCHANGED <<pc, stale, size, hold, seen, todo, target, patches, torn, addr,
                   leaving, alive, lastAddr, label, sentinelVars, want, replicas, statusVars,
                   edits, quiet>>

\* Mutant: the loop is left early.
LoopDoneEarly ==
    /\ pc \in {"follow", "repoint"}
    /\ stray = NoAddr
    /\ pc' = "list"
    /\ UNCHANGED <<stale, size, hold, seen, todo, stray, target, patches, torn, podVars,
                   label, sentinelVars, want, replicas, statusVars, edits, faults, quiet>>

\* Every pod was visited, whatever became of the others.
LoopDone ==
    /\ pc \in {"follow", "repoint"}
    /\ todo = {} /\ stray = NoAddr
    /\ pc' = "list"
    /\ UNCHANGED <<stale, size, hold, seen, todo, stray, target, patches, torn, podVars,
                   label, sentinelVars, want, replicas, statusVars, edits, faults, quiet>>

----------------------------------------------------------------------------
(* The pass: reconcileMasterLabel and the status update                    *)

\* Mutant: only the pod that gets the label is patched.
PatchesAdded(pods) == pods \ Labelled

\* Pods whose label is not what it should be.
PatchesFor(pods) == (pods \ Labelled) \cup (Labelled \ pods)

\* The pod at the master's address, if it runs and is not being deleted, gets the label,
\* every other pod loses it.
ListPods ==
    /\ pc = "list"
    /\ target' = OrdinalsOf(seen)
    /\ patches' = PatchesFor(OrdinalsOf(seen))
    /\ pc' = "label"
    /\ UNCHANGED <<stale, size, hold, seen, todo, stray, torn, podVars, label,
                   sentinelVars, want, replicas, statusVars, edits, faults, quiet>>

\* The patch names a pod, not its address; a pod that is gone ends the labelling.
PatchLabel(n) ==
    /\ pc = "label"
    /\ n \in patches
    /\ IF addr[n] = NoAddr
       THEN pc' = "write" /\ patches' = {} /\ torn' = TRUE /\ UNCHANGED label
       ELSE /\ label' = [label EXCEPT ![n] = n \in target]
            /\ patches' = patches \ {n}
            /\ UNCHANGED <<pc, torn>>
    /\ UNCHANGED <<stale, size, hold, seen, todo, stray, target, podVars, sentinelVars,
                   want, replicas, statusVars, edits, faults, quiet>>

PatchFails ==
    /\ pc = "label"
    /\ patches # {}
    /\ Fault
    /\ pc' = "write" /\ patches' = {} /\ torn' = TRUE
    /\ UNCHANGED <<stale, size, hold, seen, todo, stray, target, podVars, label,
                   sentinelVars, want, replicas, statusVars, edits, quiet>>

LabelDone ==
    /\ pc = "label"
    /\ patches = {}
    /\ pc' = "write" /\ torn' = FALSE
    /\ UNCHANGED <<stale, size, hold, seen, todo, stray, target, patches, podVars, label,
                   sentinelVars, want, replicas, statusVars, edits, faults, quiet>>

\* The pass forgets what it saw.
EndPass ==
    /\ pc' = "idle"
    /\ stale' = FALSE /\ size' = Size /\ hold' = FALSE /\ seen' = NoAddr
    /\ todo' = {} /\ stray' = NoAddr /\ target' = {} /\ patches' = {}
    /\ quiet' = FALSE

\* The status is written whether or not the failover was handled, unless the object changed.
WriteStatus ==
    /\ pc = "write"
    /\ IF stale \/ seen = NoAddr THEN UNCHANGED statusVars
       ELSE statusMaster' = seen /\ settling' = (settling \/ Moved)
    /\ EndPass
    /\ UNCHANGED <<torn, podVars, label, sentinelVars, want, replicas, edits, faults>>

\* An API error, or the operator restarts.
PassFails ==
    /\ pc # "idle"
    /\ Fault
    /\ torn' = (torn \/ patches # {})
    /\ EndPass
    /\ UNCHANGED <<podVars, label, sentinelVars, want, replicas, statusVars, edits>>

----------------------------------------------------------------------------
(* The user, time, the StatefulSet controller and the kubelet (external)   *)

UserScales(k) ==
    /\ edits < MaxEdits
    /\ k # want
    /\ want' = k /\ edits' = edits + 1 /\ stale' = (pc # "idle")
    /\ UNCHANGED <<pc, size, hold, seen, todo, stray, target, patches, torn, podVars,
                   label, sentinelVars, replicas, statusVars, faults, quiet>>

\* A failover timeout has passed since the last failover.
FailoverTimeout ==
    /\ settling
    /\ settling' = FALSE
    /\ UNCHANGED <<podVars, label, sentinelVars, want, replicas, statusMaster, passVars, edits,
                   faults, quiet>>

\* A pod beyond the size of the StatefulSet is deleted, and so is one that is evicted.
Delete(n) ==
    /\ addr[n] # NoAddr /\ ~leaving[n]
    /\ \/ n >= replicas /\ UNCHANGED faults
       \/ n < replicas /\ Fault
    /\ leaving' = [leaving EXCEPT ![n] = TRUE]
    /\ UNCHANGED <<addr, alive, follows, lastAddr, label, sentinelVars, want, replicas,
                   statusVars, passVars, edits, quiet>>

Gone(n) ==
    /\ leaving[n]
    /\ addr' = [addr EXCEPT ![n] = NoAddr]
    /\ leaving' = [leaving EXCEPT ![n] = FALSE]
    /\ alive' = [alive EXCEPT ![n] = FALSE]
    /\ follows' = [follows EXCEPT ![n] = Itself]
    /\ label' = [label EXCEPT ![n] = FALSE]
    /\ UNCHANGED <<lastAddr, sentinelVars, want, replicas, statusVars, passVars, edits, faults,
                   quiet>>

Create(n) ==
    /\ n < replicas
    /\ addr[n] = NoAddr
    /\ lastAddr < MaxAddr
    /\ addr' = [addr EXCEPT ![n] = lastAddr + 1]
    /\ lastAddr' = lastAddr + 1
    /\ UNCHANGED <<leaving, alive, follows, label, sentinelVars, want, replicas, statusVars,
                   passVars, edits, faults, quiet>>

Crash(n) ==
    /\ alive[n]
    /\ Fault
    /\ alive' = [alive EXCEPT ![n] = FALSE]
    /\ UNCHANGED <<addr, leaving, follows, lastAddr, label, sentinelVars, want, replicas,
                   statusVars, passVars, edits, quiet>>

\* The init script: what a sentinel reports, or without one ordinal 0 is the master and the
\* others follow its host name.
SourceAtBoot(n) ==
    IF RunningSentinels = {} THEN {IF n = 0 THEN Itself ELSE Host}
    ELSE {IF view[s] = addr[n] THEN Itself ELSE view[s] : s \in RunningSentinels}

Boot(n) ==
    /\ addr[n] # NoAddr /\ ~alive[n] /\ ~leaving[n]
    /\ \E source \in SourceAtBoot(n) : follows' = [follows EXCEPT ![n] = source]
    /\ alive' = [alive EXCEPT ![n] = TRUE]
    /\ UNCHANGED <<addr, leaving, lastAddr, label, sentinelVars, want, replicas, statusVars,
                   passVars, edits, faults, quiet>>

----------------------------------------------------------------------------
(* The Sentinels (external)                                                *)

\* A majority replaces a master that does not serve, one sentinel alone a forced one.
Elect(s, n) ==
    /\ sentinelUp[s] /\ view[s] = elected
    /\ forced \/ (QuorumHealthy /\ ~MasterServes)
    /\ n \in Candidates
    /\ elected' = addr[n]
    /\ view' = [view EXCEPT ![s] = addr[n]]
    /\ follows' = [follows EXCEPT ![n] = Itself]
    /\ forced' = FALSE /\ quiet' = FALSE
    /\ UNCHANGED <<addr, leaving, alive, lastAddr, label, sentinelUp, known, want, replicas,
                   statusVars, passVars, edits, faults>>

\* A sentinel hears of the newest election.
Hear(s) ==
    /\ sentinelUp[s] /\ view[s] # elected
    /\ view' = [view EXCEPT ![s] = elected]
    /\ UNCHANGED <<podVars, label, sentinelUp, elected, known, forced, want, replicas,
                   statusVars, passVars, edits, faults, quiet>>

\* A replica shows up at the master the sentinels monitor.
Discover(n) ==
    /\ RunningSentinels # {} /\ MasterServes
    /\ alive[n] /\ addr[n] \notin known
    /\ follows[n] = elected \/ (follows[n] = Host /\ addr[0] = elected)
    /\ known' = known \cup {addr[n]}
    /\ UNCHANGED <<podVars, label, sentinelUp, view, elected, forced, want, replicas, statusVars,
                   passVars, edits, faults, quiet>>

\* The sentinels reconfigure the nodes they know.
Reconfigure(n) ==
    /\ MasterServes /\ \E s \in RunningSentinels : view[s] = elected
    /\ alive[n] /\ addr[n] \in known \ {elected}
    /\ follows[n] # elected
    /\ follows' = [follows EXCEPT ![n] = elected]
    /\ UNCHANGED <<addr, leaving, alive, lastAddr, label, sentinelVars, want, replicas,
                   statusVars, passVars, edits, faults, quiet>>

SentinelStops(s) ==
    /\ sentinelUp[s]
    /\ Fault
    /\ sentinelUp' = [sentinelUp EXCEPT ![s] = FALSE]
    /\ UNCHANGED <<podVars, label, view, elected, known, forced, want, replicas, statusVars,
                   passVars, edits, quiet>>

SentinelStarts(s) ==
    /\ ~sentinelUp[s]
    /\ sentinelUp' = [sentinelUp EXCEPT ![s] = TRUE]
    /\ UNCHANGED <<podVars, label, view, elected, known, forced, want, replicas, statusVars,
                   passVars, edits, faults, quiet>>

----------------------------------------------------------------------------
Pass ==
    \/ BeginPass
    \/ HoldScaleDown \/ AllowScale \/ Resize
    \/ QueryMaster \/ QueryFails \/ CheckQuorum \/ Requery \/ DemoteOld \/ Repoint \/ LoopDone
    \/ \E a \in Addresses : EnsureFollows(a) \/ InspectReplica(a)
    \/ ListPods \/ PatchFails \/ LabelDone \/ WriteStatus
    \/ \E n \in Ordinals : PatchLabel(n)

Kubelet == \E n \in Ordinals : Delete(n) \/ Gone(n) \/ Create(n) \/ Boot(n)

Vote == \E s \in Sentinels, n \in Ordinals : Elect(s, n)

Sentinel ==
    \/ Vote
    \/ \E s \in Sentinels : Hear(s) \/ SentinelStarts(s)
    \/ \E n \in Ordinals : Discover(n) \/ Reconfigure(n)

Environment ==
    \/ \E k \in MinSize..Size : UserScales(k)
    \/ FailoverTimeout \/ PassFails
    \/ \E n \in Ordinals : Crash(n)
    \/ \E s \in Sentinels : SentinelStops(s)

Next == Pass \/ Kubelet \/ Sentinel \/ Environment

Spec == Init /\ [][Next]_vars

\* The object is requeued for ever (every five or thirty seconds), and time, the kubelet
\* and the sentinels make progress; an eviction, a crash or an outage is never due.
Fairness ==
    /\ WF_vars(Pass) /\ WF_vars(FailoverTimeout) /\ WF_vars(Vote)
    /\ \A n \in Ordinals :
        /\ WF_vars(n >= replicas /\ Delete(n)) /\ WF_vars(Gone(n)) /\ WF_vars(Create(n))
        /\ WF_vars(Boot(n)) /\ WF_vars(Discover(n)) /\ WF_vars(Reconfigure(n))
    /\ \A s \in Sentinels : WF_vars(Hear(s)) /\ WF_vars(SentinelStarts(s))

FairSpec == Spec /\ Fairness

----------------------------------------------------------------------------
(* Properties                                                              *)

\* n is the serving master of the newest election.
IsMaster(n) == addr[n] = elected /\ alive[n] /\ follows[n] = Itself

\* handleFailover and repointStrayReplicas never make a replica of the serving master, if
\* the sentinel asked last knew the newest election and no election came in between.
MasterIsSpared ==
    [][\A n \in Ordinals : quiet /\ IsMaster(n) => follows'[n] = Itself]_vars

\* holdScaleDownUntilMasterMoves: a scale-down never removes the ordinal of the master, under
\* the same condition.
ScaleDownSparesMaster ==
    [][replicas' < replicas /\ quiet =>
          \A n \in Ordinals : addr[n] = elected /\ ~leaving[n] => n < replicas']_vars

\* "strips it from every other Redis pod" (reconcileMasterLabel): between passes the write
\* Service selects at most one pod, unless the last labelling was cut short.
OneWriteEndpoint == pc = "idle" /\ ~torn => Cardinality(Labelled) <= 1

\* "so the write Service endpoints follow a failover" (reconcileMasterLabel): once the
\* Sentinels have settled on a master that serves, the label is in the end on it alone and
\* every other pod replicates from it.
Routed ==
    \A n \in Ordinals :
        /\ label[n] <=> addr[n] = elected
        /\ addr[n] # NoAddr =>
            /\ alive[n]
            /\ follows[n] = IF addr[n] = elected THEN Itself ELSE elected

RoutingConverges == <>[]MasterServes /\ <>[][UNCHANGED elected]_vars => <>[]Routed

----------------------------------------------------------------------------
(* The inductive invariants behind the safety properties                   *)

\* Two pods never have the same address, and the next one to be given is new.
AddressInv ==
    /\ \A n, m \in Ordinals : addr[n] = addr[m] /\ addr[n] # NoAddr => n = m
    /\ \A n \in Ordinals : addr[n] <= lastAddr /\ (alive[n] => addr[n] # NoAddr)

Alone(pods) == \A n, m \in pods : n = m

\* While labels are patched only the pods still to be patched are wrong; afterwards, and
\* until the next labelling begins, at most one pod is labelled.
LabelInv ==
    IF pc = "label" THEN Alone(target) /\ Labelled \ patches \subseteq target
    ELSE ~torn => Alone(Labelled)

\* A pass that asked a sentinel with the newest view acts on the newest election, and only
\* on addresses other than the master's.
QuietInv ==
    /\ pc \in {"quorum", "requery", "demote", "follow", "repoint", "list"} => seen # NoAddr
    /\ pc \in {"quorum", "requery", "demote"} => seen # statusMaster
    /\ pc \in {"demote", "follow", "repoint"} /\ quiet => seen = elected
    /\ pc \in {"follow", "repoint"} => seen \notin todo \cup {stray}

\* What the guard let through leaves the ordinal of the master alone.
ResizeInv ==
    /\ elected <= lastAddr
    /\ pc = "resize" /\ quiet /\ ~hold /\ ScalesDown =>
          \A n \in Ordinals : addr[n] = elected /\ ~leaving[n] => Stays(n)

IndInv == TypeOK /\ AddressInv /\ LabelInv /\ QuietInv /\ ResizeInv
=============================================================================
