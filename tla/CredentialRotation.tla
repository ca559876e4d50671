------------------------- MODULE CredentialRotation -------------------------
(***************************************************************************)
(* Online rotation of the cluster password                                 *)
(* (internal/controller/redissentinel_controller.go): the operator's pass  *)
(* over the auth Secret, the three-phase push to every running node, the   *)
(* record of what was applied, the stamp that rolls the pods, and the pods *)
(* that start, crash, are rolled and are killed by their probes meanwhile. *)
(*                                                                         *)
(* A pass is one worker, but each API call and each Redis command in it is *)
(* a step of its own, so the user's edits of the Secret and the pods' life *)
(* interleave with it, and it may fail or crash between any two of them.   *)
(*                                                                         *)
(* Abstractions: a password is a model value, resourceVersions are the     *)
(* natural numbers of the edits of the Secret, and the sorted order in     *)
(* which a phase visits the addresses is any order (pod IPs are arbitrary).*)
(***************************************************************************)
EXTENDS Integers, FiniteSets

CONSTANTS
    Redis,        \* the Redis pods of the cluster
    Sentinels,    \* its Sentinel pods
    Passwords,    \* passwords that ValidateAuthPassword accepts
    NoPass,       \* no password: the operator's "", and a nopass default user
    Invalid,      \* a Secret value that ValidateAuthPassword rejects
    Missing,      \* the user Secret does not exist
    InitialPw,    \* what the cluster runs with initially, NoPass: auth was off
    Fresh,        \* whether the cluster is yet to be created
    MaxVersion,   \* bound on the versions of the user Secret
    MaxFaults     \* bound on injected failures (not on failures the state forces)

Nodes == Redis \cup Sentinels

ASSUME ConstantsAssumption ==
    /\ Redis \cap Sentinels = {}
    /\ NoPass \notin Passwords
    /\ Invalid \notin Passwords \cup {NoPass}
    /\ Missing \notin Passwords \cup {NoPass, Invalid}
    /\ InitialPw \in Passwords \cup {NoPass}
    /\ Fresh \in BOOLEAN
    /\ MaxVersion \in Nat \ {0}
    /\ MaxFaults \in Nat

VARIABLES
    secretPw, secretVer,      \* the user Secret: its password and resourceVersion
    appliedPw, appliedVer,    \* the <name>-auth-state Secret, NoPass and 0: absent
    tmpl,                     \* component -> auth version stamped on its pod template
    pod,                      \* node -> "pending", "restarting", "created" or "serving"
    podTmpl,                  \* node -> the template version its pod was made from
    env,                      \* node -> REDIS_PASSWORD in its running container
    accepts,                  \* node -> passwords its default user accepts
    toRedis,                  \* node -> masterauth, or the sentinel's auth-pass
    toSentinel,               \* sentinel -> its sentinel-pass
    pc,                       \* where the operator's pass stands
    desired, desiredVer,      \* what the pass read from the user Secret
    previous,                 \* what it read from the applied Secret
    snap,                     \* pods runningPodAddresses returned
    lost,                     \* those replaced since: their address is gone
    todo,                     \* nodes the current phase has still to visit
    withNew,                  \* redis nodes dialWithEither reached with the new one
    stamp,                    \* version the pass is about to stamp
    faults,                   \* failures injected so far
    clean,                    \* history: no push wrote anything since the last record
    settled                   \* history: see Settles below

secretVars == <<secretPw, secretVer>>
appliedVars == <<appliedPw, appliedVer>>
podVars == <<pod, podTmpl, env>>
nodeVars == <<accepts, toRedis, toSentinel>>
passVars == <<desired, desiredVer, previous, snap, lost, todo, withNew, stamp>>
vars == <<secretVars, appliedVars, tmpl, podVars, nodeVars, pc, passVars, faults,
          clean, settled>>

Component(n) == IF n \in Redis THEN "redis" ELSE "sentinel"
Peers(n) == IF n \in Redis THEN Redis ELSE Sentinels

\* What a pod template may carry besides a version of the Secret.
Absent == -2        \* the StatefulSet does not exist yet
NoAuth == -1        \* a template without REDIS_PASSWORD
Unstamped == 0      \* no stamp, which is what version "" leaves

Serving == {n \in Nodes : pod[n] = "serving"}
\* The pod's phase may read Running although its server does not answer.
Unready == {n \in Nodes : pod[n] \in {"restarting", "created"}}

\* The password every node was last known to agree on.
Agreed == IF appliedPw = NoPass THEN InitialPw ELSE appliedPw

PushStages == {"dial", "widenRedis", "widenSentinel", "switchRedis", "switchSentinel",
               "narrowRedis", "narrowSentinel"}

----------------------------------------------------------------------------
(* What the servers do with a credential (Redis, external)                 *)

\* ACL SETUSER default >p adds p and clears the nopass flag.
AddPassword(passwords, p) == (passwords \ {NoPass}) \cup {p}

\* A client that presents p is let in; a nopass default user lets anyone in.
LetsIn(n, p) == p \in accepts[n] \/ NoPass \in accepts[n]

\* A server that presents p to its peer: AUTH against a nopass default user is an
\* error, so the link needs the exact credential.
LinkUp(p, m) == p \in accepts[m]

----------------------------------------------------------------------------
TypeOK ==
    /\ secretPw \in Passwords \cup {Invalid, Missing}
    /\ secretVer \in 1..MaxVersion
    /\ appliedPw \in Passwords \cup {NoPass}
    /\ appliedVer \in 0..MaxVersion
    /\ tmpl \in [{"redis", "sentinel"} -> Absent..MaxVersion]
    /\ pod \in [Nodes -> {"pending", "restarting", "created", "serving"}]
    /\ podTmpl \in [Nodes -> Absent..MaxVersion]
    /\ env \in [Nodes -> Passwords \cup {NoPass}]
    /\ accepts \in [Nodes -> SUBSET (Passwords \cup {NoPass})]
    /\ toRedis \in [Nodes -> Passwords \cup {NoPass}]
    /\ toSentinel \in [Sentinels -> Passwords \cup {NoPass}]
    /\ pc \in {"idle", "list", "record", "refresh", "stampRedis", "stampSentinel"}
              \cup PushStages
    /\ desired \in Passwords \cup {NoPass}
    /\ desiredVer \in 0..MaxVersion
    /\ previous \in Passwords \cup {NoPass}
    /\ snap \subseteq Nodes
    /\ lost \subseteq Nodes
    /\ todo \subseteq Nodes
    /\ withNew \subseteq Nodes
    /\ stamp \in 0..MaxVersion
    /\ faults \in 0..MaxFaults
    /\ clean \in BOOLEAN
    /\ settled \subseteq Nodes

Init ==
    /\ secretPw \in IF InitialPw = NoPass THEN Passwords ELSE {InitialPw}
    /\ secretVer = 1
    /\ appliedPw = NoPass /\ appliedVer = 0
    /\ tmpl = [c \in {"redis", "sentinel"} |->
                  IF Fresh THEN Absent ELSE IF InitialPw = NoPass THEN NoAuth ELSE Unstamped]
    /\ pod = [n \in Nodes |-> IF Fresh THEN "pending" ELSE "serving"]
    /\ podTmpl = [n \in Nodes |-> tmpl[Component(n)]]
    /\ env = [n \in Nodes |-> IF Fresh THEN NoPass ELSE InitialPw]
    /\ accepts = [n \in Nodes |-> IF Fresh THEN {} ELSE {InitialPw}]
    /\ toRedis = [n \in Nodes |-> IF Fresh THEN NoPass ELSE InitialPw]
    /\ toSentinel = [n \in Sentinels |-> IF Fresh THEN NoPass ELSE InitialPw]
    /\ pc = "idle"
    /\ desired = NoPass /\ desiredVer = 0 /\ previous = NoPass
    /\ snap = {} /\ lost = {} /\ todo = {} /\ withNew = {}
    /\ stamp = Unstamped
    /\ faults = 0
    /\ clean = TRUE
    /\ settled = IF Fresh THEN {} ELSE Nodes

----------------------------------------------------------------------------
(* The user and the failures                                               *)

\* Any edit of the Secret moves its resourceVersion, a metadata edit too.
UserEditsSecret(p) ==
    /\ secretVer < MaxVersion
    /\ secretVer' = secretVer + 1
    /\ secretPw' = p
    /\ UNCHANGED <<appliedVars, tmpl, podVars, nodeVars, pc, passVars, faults, clean, settled>>

Fault == faults < MaxFaults /\ faults' = faults + 1

\* The pass is over: what it held in memory is gone.
EndPass ==
    /\ pc' = "idle"
    /\ desired' = NoPass /\ desiredVer' = 0 /\ previous' = NoPass
    /\ snap' = {} /\ lost' = {} /\ todo' = {} /\ withNew' = {}
    /\ stamp' = Unstamped

----------------------------------------------------------------------------
(* reconcileAuthCredentials                                                *)

\* Mutant: the live version of the Secret is stamped whatever became of the push.
GoStampLive(v) ==
    /\ pc' = "stampRedis"
    /\ stamp' = secretVer
    /\ desired' = NoPass /\ desiredVer' = 0 /\ previous' = NoPass
    /\ snap' = {} /\ lost' = {} /\ todo' = {} /\ withNew' = {}

\* Carry on to the StatefulSets with version v to stamp.
GoStamp(v) ==
    /\ pc' = "stampRedis"
    /\ stamp' = v
    /\ desired' = NoPass /\ desiredVer' = 0 /\ previous' = NoPass
    /\ snap' = {} /\ lost' = {} /\ todo' = {} /\ withNew' = {}

\* The Secret is absent (version "") or its password is rejected: the version that
\* was applied last is carried forward.
ReadUnusableSecret ==
    /\ pc = "idle"
    /\ secretPw \in {Missing, Invalid}
    /\ GoStamp(IF secretPw = Missing THEN Unstamped ELSE appliedVer)
    /\ UNCHANGED <<secretVars, appliedVars, tmpl, podVars, nodeVars, faults, clean, settled>>

\* The recorded password is the desired one.
ReadUnchanged ==
    /\ pc = "idle"
    /\ secretPw \in Passwords
    /\ appliedPw = secretPw
    /\ appliedVer = secretVer
    /\ GoStamp(secretVer)
    /\ UNCHANGED <<secretVars, appliedVars, tmpl, podVars, nodeVars, faults, clean, settled>>

\* ... but under an older resourceVersion, which is recorded again first.
ReadRefresh ==
    /\ pc = "idle"
    /\ secretPw \in Passwords
    /\ appliedPw = secretPw
    /\ appliedVer # secretVer
    /\ pc' = "refresh"
    /\ desired' = secretPw /\ desiredVer' = secretVer
    /\ UNCHANGED <<secretVars, appliedVars, tmpl, podVars, nodeVars, previous, snap, lost,
                   todo, withNew, stamp, faults, clean, settled>>

\* First contact (nothing recorded, previous is "") or a changed password.
ReadRotation ==
    /\ pc = "idle"
    /\ secretPw \in Passwords
    /\ appliedPw # secretPw
    /\ pc' = "list"
    /\ desired' = secretPw /\ desiredVer' = secretVer
    /\ previous' = appliedPw
    /\ UNCHANGED <<secretVars, appliedVars, tmpl, podVars, nodeVars, snap, lost,
                   todo, withNew, stamp, faults, clean, settled>>

\* writeAppliedAuth, after every phase completed on every listed node.
WriteAppliedAuth ==
    /\ pc = "record"
    /\ appliedPw' = desired /\ appliedVer' = desiredVer
    /\ clean' = TRUE
    /\ GoStamp(desiredVer)
    /\ UNCHANGED <<secretVars, tmpl, podVars, nodeVars, faults, settled>>

\* writeAppliedAuth of the same password under its new version.
RefreshAppliedAuth ==
    /\ pc = "refresh"
    /\ appliedPw' = desired /\ appliedVer' = desiredVer
    /\ GoStamp(desiredVer)
    /\ UNCHANGED <<secretVars, tmpl, podVars, nodeVars, faults, clean, settled>>

\* A read or a write of the API fails and Reconcile returns the error, or the operator
\* itself crashes: either way the next pass starts over.
PassFails ==
    /\ pc # "idle"
    /\ Fault
    /\ EndPass
    /\ UNCHANGED <<secretVars, appliedVars, tmpl, podVars, nodeVars, clean, settled>>

----------------------------------------------------------------------------
(* pushCredentials                                                         *)

\* runningPodAddresses, twice: every serving pod, and of the pods whose server does not
\* answer (yet) the ones whose phase reads Running.
ListPods(starting) ==
    /\ pc = "list"
    /\ pc' = "dial"
    /\ snap' = Serving \cup starting
    /\ todo' = (Serving \cup starting) \cap Redis
    /\ UNCHANGED <<secretVars, appliedVars, tmpl, podVars, nodeVars, desired, desiredVer,
                   previous, lost, withNew, stamp, faults, clean, settled>>

\* The pod at the listed address answers and lets p in.
Answers(n, p) == n \in Serving \ lost /\ LetsIn(n, p)

\* Mutant: the sentinels are only tried with the previous password.
ReachableWithPrevious(n) ==
    IF n \in Redis THEN Answers(n, desired) \/ Answers(n, previous)
    ELSE Answers(n, previous)

\* The command the pass is about to send to n goes through: a redis node over the
\* client it was dialled with, a sentinel with either password, tried anew each time.
Reachable(n) ==
    IF pc # "dial" /\ n \in Redis
    THEN Answers(n, IF n \in withNew THEN desired ELSE previous)
    ELSE Answers(n, desired) \/ Answers(n, previous)

\* One node of the phase is done.
Visit(n, stages) ==
    /\ pc \in stages
    /\ n \in todo
    /\ Reachable(n)
    /\ todo' = todo \ {n}
    /\ UNCHANGED <<secretVars, appliedVars, tmpl, podVars, pc, desired, desiredVer, previous,
                   snap, lost, stamp, faults, clean, settled>>

\* dialWithEither: the new password first.
Dial(n) ==
    /\ Visit(n, {"dial"})
    /\ withNew' = IF Answers(n, desired) THEN withNew \cup {n} ELSE withNew
    /\ UNCHANGED nodeVars

\* Phase 1: ACL SETUSER default >desired.
Widen(n) ==
    /\ Visit(n, {"widenRedis", "widenSentinel"})
    /\ accepts' = [accepts EXCEPT ![n] = AddPassword(@, desired)]
    /\ UNCHANGED <<toRedis, toSentinel, withNew>>

\* Phase 2 on a sentinel is two commands: auth-pass first ...
SwitchAuthPass(n) ==
    /\ pc = "switchSentinel"
    /\ n \in todo
    /\ Reachable(n)
    /\ toRedis[n] # desired
    /\ toRedis' = [toRedis EXCEPT ![n] = desired]
    /\ UNCHANGED <<secretVars, appliedVars, tmpl, podVars, accepts, toSentinel, pc, passVars,
                   faults, clean, settled>>

\* ... then sentinel-pass; on a redis node it is CONFIG SET masterauth.
Switch(n) ==
    /\ Visit(n, {"switchRedis", "switchSentinel"})
    /\ n \in Sentinels => toRedis[n] = desired
    /\ toRedis' = [toRedis EXCEPT ![n] = desired]
    /\ toSentinel' = IF n \in Sentinels THEN [toSentinel EXCEPT ![n] = desired] ELSE toSentinel
    /\ UNCHANGED <<accepts, withNew>>

\* Phase 3: requirepass, or resetpass >desired, leaves exactly the new password.
Narrow(n) ==
    /\ Visit(n, {"narrowRedis", "narrowSentinel"})
    /\ accepts' = [accepts EXCEPT ![n] = {desired}]
    /\ UNCHANGED <<toRedis, toSentinel, withNew>>

\* Mutant: the old password is withdrawn before the dialers present the new one.
NarrowBeforeSwitch ==
    [dial |-> "widenRedis", widenRedis |-> "widenSentinel", widenSentinel |-> "narrowRedis",
     narrowRedis |-> "narrowSentinel", narrowSentinel |-> "switchRedis",
     switchRedis |-> "switchSentinel", switchSentinel |-> "record"]

\* Mutant: the push is taken for done before the sentinels are narrowed.
SentinelsNotNarrowed ==
    [dial |-> "widenRedis", widenRedis |-> "widenSentinel", widenSentinel |-> "switchRedis",
     switchRedis |-> "switchSentinel", switchSentinel |-> "narrowRedis",
     narrowRedis |-> "record", narrowSentinel |-> "record"]

StageAfter ==
    [dial |-> "widenRedis", widenRedis |-> "widenSentinel", widenSentinel |-> "switchRedis",
     switchRedis |-> "switchSentinel", switchSentinel |-> "narrowRedis",
     narrowRedis |-> "narrowSentinel", narrowSentinel |-> "record"]

TodoIn(stage) ==
    CASE stage \in {"widenRedis", "switchRedis", "narrowRedis"} -> snap \cap Redis
      [] stage \in {"widenSentinel", "switchSentinel", "narrowSentinel"} -> snap \cap Sentinels
      [] OTHER -> {}

\* A phase is gated on the one before completing on every node. The first write is
\* about to happen when every redis node was dialled: from then on the cluster is
\* between two passwords, and nodes the list missed are on their own.
StageDone ==
    /\ pc \in PushStages
    /\ todo = {}
    /\ pc' = StageAfter[pc]
    /\ todo' = TodoIn(pc')
    /\ clean' = (clean /\ pc # "dial")
    /\ settled' = IF pc = "dial" THEN settled \cap snap ELSE settled
    /\ UNCHANGED <<secretVars, appliedVars, tmpl, podVars, nodeVars, desired, desiredVer,
                   previous, snap, lost, withNew, stamp, faults>>

\* A node does not answer, or refuses both credentials: the push stops there, is
\* reported, and the version applied before is carried forward.
PushRefused ==
    /\ pc \in PushStages
    /\ \E n \in todo : ~Reachable(n)
    /\ GoStamp(appliedVer)
    /\ UNCHANGED <<secretVars, appliedVars, tmpl, podVars, nodeVars, faults, clean, settled>>

\* The same on any other error (the pod list, the TLS config, the 30s deadline).
PushFails ==
    /\ pc \in PushStages \cup {"list"}
    /\ Fault
    /\ GoStamp(appliedVer)
    /\ UNCHANGED <<secretVars, appliedVars, tmpl, podVars, nodeVars, clean, settled>>

----------------------------------------------------------------------------
(* reconcileStatefulSets stamps both pod templates                         *)

StampRedis ==
    /\ pc = "stampRedis"
    /\ tmpl' = [tmpl EXCEPT !["redis"] = stamp]
    /\ pc' = "stampSentinel"
    /\ UNCHANGED <<secretVars, appliedVars, podVars, nodeVars, passVars, faults, clean, settled>>

StampSentinel ==
    /\ pc = "stampSentinel"
    /\ tmpl' = [tmpl EXCEPT !["sentinel"] = stamp]
    /\ EndPass
    /\ UNCHANGED <<secretVars, appliedVars, podVars, nodeVars, faults, clean, settled>>

----------------------------------------------------------------------------
(* The pods: kubelet and StatefulSet controller (external), and the init   *)
(* scripts, which set every credential from REDIS_PASSWORD at each start   *)

\* REDIS_PASSWORD is resolved from the user Secret when the container is created.
CapturedPw(t) == IF t = NoAuth THEN NoPass ELSE secretPw
\* Mutant: a container starts whatever the Secret holds.
CanCaptureAnything(t) == TRUE

\* Without the Secret there is no container, and with a value the config parser cannot
\* carry there is no server.
CanCapture(t) == t = NoAuth \/ secretPw \in Passwords

\* A new pod is made from the template of the day, a restarted container from its pod.
TemplateOf(n) == IF pod[n] = "pending" THEN tmpl[Component(n)] ELSE podTmpl[n]

Start(n) ==
    /\ pod[n] \in {"pending", "restarting"}
    /\ TemplateOf(n) # Absent
    /\ CanCapture(TemplateOf(n))
    /\ pod' = [pod EXCEPT ![n] = "created"]
    /\ podTmpl' = [podTmpl EXCEPT ![n] = TemplateOf(n)]
    /\ env' = [env EXCEPT ![n] = CapturedPw(TemplateOf(n))]
    /\ UNCHANGED <<secretVars, appliedVars, tmpl, nodeVars, pc, passVars, faults, clean, settled>>

\* A container that is gone accepts and presents nothing until the next one serves.
Silence(n) ==
    /\ accepts' = [accepts EXCEPT ![n] = {}]
    /\ toRedis' = [toRedis EXCEPT ![n] = NoPass]
    /\ toSentinel' = IF n \in Sentinels THEN [toSentinel EXCEPT ![n] = NoPass] ELSE toSentinel

\* A container is settled when it booted into the password the cluster agrees on with
\* no push begun since: the nodes for which the rotation promises working links.
Settles(n) == clean /\ env[n] = Agreed

\* The init script rebuilt the credential lines, and the server answers.
Boot(n) ==
    /\ pod[n] = "created"
    /\ pod' = [pod EXCEPT ![n] = "serving"]
    /\ accepts' = [accepts EXCEPT ![n] = {env[n]}]
    /\ toRedis' = [toRedis EXCEPT ![n] = env[n]]
    /\ toSentinel' = IF n \in Sentinels THEN [toSentinel EXCEPT ![n] = env[n]] ELSE toSentinel
    /\ settled' = IF Settles(n) THEN settled \cup {n} ELSE settled \ {n}
    /\ UNCHANGED <<secretVars, appliedVars, tmpl, podTmpl, env, pc, passVars, faults, clean>>

\* The container restarts in place: same pod, same address, the environment anew.
Restart(n) ==
    /\ pod[n] = "serving"
    /\ pod' = [pod EXCEPT ![n] = "restarting"]
    /\ env' = [env EXCEPT ![n] = NoPass]
    /\ settled' = settled \ {n}
    /\ Silence(n)
    /\ UNCHANGED <<secretVars, appliedVars, tmpl, podTmpl, pc, passVars, clean>>

Crash(n) == Restart(n) /\ Fault

\* The probes authenticate with the container's own REDIS_PASSWORD.
ProbeFails(n) == podTmpl[n] # NoAuth /\ ~LetsIn(n, env[n])

LivenessKill(n) == ProbeFails(n) /\ Restart(n) /\ UNCHANGED faults

\* RollingUpdate: a pod made from another template is replaced once every pod of its
\* set that is already up to date serves again. The new pod has another address.
Roll(n) ==
    /\ pod[n] # "pending"
    /\ podTmpl[n] # tmpl[Component(n)]
    /\ \A m \in Peers(n) \ {n} : podTmpl[m] = tmpl[Component(n)] => pod[m] = "serving"
    /\ pod' = [pod EXCEPT ![n] = "pending"]
    /\ podTmpl' = [podTmpl EXCEPT ![n] = tmpl[Component(n)]]
    /\ lost' = IF n \in snap THEN lost \cup {n} ELSE lost
    /\ env' = [env EXCEPT ![n] = NoPass]
    /\ settled' = settled \ {n}
    /\ Silence(n)
    /\ UNCHANGED <<secretVars, appliedVars, tmpl, pc, desired, desiredVer, previous, snap,
                   todo, withNew, stamp, faults, clean>>

----------------------------------------------------------------------------
Push ==
    \/ \E starting \in SUBSET Unready : ListPods(starting)
    \/ \E n \in Nodes : Dial(n) \/ Widen(n) \/ SwitchAuthPass(n) \/ Switch(n) \/ Narrow(n)
    \/ StageDone
    \/ PushRefused

OperatorPass ==
    \/ ReadUnusableSecret \/ ReadUnchanged \/ ReadRefresh \/ ReadRotation
    \/ Push
    \/ WriteAppliedAuth \/ RefreshAppliedAuth
    \/ StampRedis \/ StampSentinel

PodLife == \E n \in Nodes : Start(n) \/ Boot(n) \/ Roll(n) \/ LivenessKill(n)

Environment ==
    \/ \E p \in Passwords \cup {Invalid, Missing} : UserEditsSecret(p)
    \/ PassFails
    \/ PushFails
    \/ \E n \in Nodes : Crash(n)

Next == OperatorPass \/ PodLife \/ Environment

Spec == Init /\ [][Next]_vars

\* The workqueue calls Reconcile again and again (every result requeues), kubelet keeps
\* starting containers and restarts one whose liveness probe goes on failing, and the
\* StatefulSet controller keeps rolling pods.
Fairness ==
    /\ WF_vars(OperatorPass)
    /\ \A n \in Nodes : /\ WF_vars(Start(n)) /\ WF_vars(Boot(n))
                        /\ WF_vars(Roll(n)) /\ WF_vars(LivenessKill(n))

FairSpec == Spec /\ Fairness

----------------------------------------------------------------------------
(* How the operator resolves the password it dials with                    *)

\* clusteraccess.AdminPassword: the RedisSentinel controller and the event watcher.
AdminPassword ==
    IF appliedPw # NoPass THEN appliedPw
    ELSE IF secretPw = Missing THEN NoPass ELSE secretPw

----------------------------------------------------------------------------
(* Properties                                                              *)

\* "At every instant each presented credential is accepted by its peer" (pushCredentials):
\* what a settled node presents to a redis node, or to a sentinel, the settled peer
\* accepts, through pushes that are cut short, repeated and given another target.
LinksUp ==
    /\ \A n \in settled, m \in settled \cap Redis : LinkUp(toRedis[n], m)
    /\ \A n, m \in settled \cap Sentinels : LinkUp(toSentinel[n], m)

\* Once a rotation is recorded and no new one began, the password it replaced is accepted
\* nowhere: a settled node that serves takes the recorded password and nothing else.
OldPasswordRevoked ==
    clean /\ appliedPw # NoPass => \A n \in settled : accepts[n] = {appliedPw}

\* "the pods do not roll onto a password their peers never accepted": no template is
\* stamped with a version of the Secret newer than the one whose password was applied.
NoStampAheadOfPush == \A c \in DOMAIN tmpl : tmpl[c] <= appliedVer

\* The user stopped editing a Secret that holds a usable password.
LastEdit == secretVer = MaxVersion /\ secretPw \in Passwords

Converged ==
    /\ appliedPw = secretPw /\ appliedVer = secretVer
    /\ \A n \in Nodes : pod[n] = "serving" /\ accepts[n] = {secretPw} /\ toRedis[n] = secretPw
                        /\ podTmpl[n] = secretVer /\ env[n] = secretPw

\* "an aborted push is resumed by simply running it again" (pushCredentials): whatever was
\* cut short, a cluster with a recorded password ends up on that of the last edit, recorded,
\* durable and the only one accepted. A node that took a password the Secret held in between
\* breaks it: it accepts neither the desired nor the recorded one, and its probe is content.
PushResumed == (LastEdit /\ appliedPw # NoPass) ~> Converged

\* A serving node lets in neither of the two passwords a push tries.
Stranded == \E n \in Serving : ~LetsIn(n, secretPw) /\ ~LetsIn(n, appliedPw)

\* That is the only way for a rotation to get stuck: after the last edit, first contact
\* included, the cluster ends up on its password unless some node stays stranded for good,
\* whatever pushes, rolls, restarts and failures came before.
RotationConverges == LastEdit ~> (Converged \/ []Stranded)

----------------------------------------------------------------------------
(* The inductive invariant behind LinksUp: what the phases of a push have   *)
(* established on the settled nodes they visited                           *)

\* n was, or all nodes of its kind were, visited by the phase of these two stages.
Past(n, redisStage, sentinelStage, later) ==
    \/ pc = redisStage /\ n \in Redis \ todo
    \/ pc = sentinelStage /\ n \in Redis \cup (Sentinels \ todo)
    \/ pc \in later

Widened(n) == Past(n, "widenRedis", "widenSentinel",
                   {"switchRedis", "switchSentinel", "narrowRedis", "narrowSentinel", "record"})
Switched(n) == Past(n, "switchRedis", "switchSentinel", {"narrowRedis", "narrowSentinel", "record"})
Narrowed(n) == Past(n, "narrowRedis", "narrowSentinel", {"record"})

\* n presents p to whomever it dials.
Presents(n, p) == toRedis[n] = p /\ (n \in Sentinels => toSentinel[n] = p)

\* With no push begun since the last record, the settled nodes are on one password.
CleanInv == clean => \A n \in settled : accepts[n] = {Agreed} /\ Presents(n, Agreed)

\* A phase leaves every settled node it visited widened, switched, narrowed.
PhaseInv ==
    \A n \in settled : /\ Widened(n) => desired \in accepts[n]
                       /\ Switched(n) => Presents(n, desired)
                       /\ Narrowed(n) => accepts[n] = {desired}

\* While a push writes, every settled node is one it listed.
WriteInv ==
    pc \in (PushStages \ {"dial"}) \cup {"record"} => ~clean /\ settled \subseteq snap

\* What the pass read is usable.
ReadInv ==
    /\ pc \in PushStages \cup {"list", "record", "refresh"} => desired \in Passwords
    /\ pc = "refresh" => desired = appliedPw

\* A settled node serves and presents a password.
SettledInv ==
    \A n \in settled : /\ pod[n] = "serving"
                       /\ toRedis[n] \in Passwords
                       /\ n \in Sentinels => toSentinel[n] \in Passwords

IndInv == TypeOK /\ LinksUp /\ CleanInv /\ PhaseInv /\ WriteInv /\ ReadInv /\ SettledInv

\* Versions only move forward, and the stamp follows the record.
VersionInv ==
    /\ appliedVer <= secretVer
    /\ stamp <= appliedVer
    /\ desiredVer <= secretVer
    /\ pc \in PushStages \cup {"list", "record", "refresh"} => appliedVer <= desiredVer
    /\ NoStampAheadOfPush
=============================================================================
