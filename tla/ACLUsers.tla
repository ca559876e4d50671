----------------------------- MODULE ACLUsers -----------------------------
(***************************************************************************)
(* The accounts of RedisUser objects: the RedisUser reconciler             *)
(* (internal/controller/redisuser_controller.go), the prune pass of the    *)
(* RedisSentinel reconciler (pruneOrphanedACLUsers) and the record they    *)
(* share, the <cluster>-acl-owners ConfigMap that says which accounts the  *)
(* operator made.                                                          *)
(*                                                                         *)
(* ACL commands are not replicated: every node has accounts in memory and  *)
(* an aclfile on a volume that outlives the pod and the cluster. A pass of *)
(* either reconciler is a sequence of API writes and commands to nodes;    *)
(* the two run concurrently, the operator may stop between any two steps,  *)
(* and pods, the cluster and the user move in between. An administrator's  *)
(* accounts are there from the start; he makes none meanwhile.             *)
(*                                                                         *)
(* Abstractions: an account is the version of the RedisUser it renders (an *)
(* edit of the spec, or a new object, makes a new version), Hand for one   *)
(* an administrator made, Absent for none; the rules it renders to are the *)
(* business of ACLRules; the retry loop around an update of the record is  *)
(* atomic; the caches the reconcilers read are up to date. One assumption  *)
(* the code does not enforce: no two RedisUsers of the cluster declare the *)
(* same username (they would overwrite each other's account for ever).     *)
(***************************************************************************)
EXTENDS Integers, FiniteSets

CONSTANTS
    Users,       \* RedisUser objects that refer to the cluster
    Names,       \* usernames
    Default,     \* the administrator's account "default"
    Size,        \* spec.redisConfig.replicas
    HandMade,    \* <<node, name>> pairs an administrator made and saved by hand
    HandWritten, \* names somebody put into the ownership record by hand
    None,        \* no RedisUser
    MaxVersion,  \* bound on the versions of RedisUsers
    MaxFaults    \* bound on failed calls, restarts, lost readiness, crashes and
                 \* deletions of the cluster

Nodes == 1..Size
Nowhere == 0

ASSUME UsersAssumption ==
    /\ Default \in Names
    /\ None \notin Users
    /\ Size \in Nat \ {0}
    /\ HandMade \subseteq Nodes \X Names
    /\ HandWritten \subseteq {Default}
    /\ MaxVersion \in Nat \ {0} /\ MaxFaults \in Nat

Hand == -1
Absent == 0
Accounts == -1..MaxVersion

VARIABLES
    user,     \* the RedisUser objects
    issued,   \* the last version issued
    pass,     \* the pass of the RedisUser reconciler
    prune,    \* the prune pass
    cluster,  \* whether the RedisSentinel exists
    pod,      \* "gone", "booting" (Running, its container is not), "up" or "ready"
    live,     \* accounts in a node's memory
    saved,    \* accounts in its aclfile
    record,   \* the names in the ownership record
    faults,
    ever,     \* history: names a RedisUser declared
    slipped   \* history: <<node, name>> pairs the code may lose track of

clusterVars == <<cluster, pod, live, saved>>
history == <<ever, slipped>>
vars == <<user, issued, pass, prune, clusterVars, record, faults, history>>

NoPass == [pc |-> "idle", cur |-> None, name |-> Default, version |-> 0,
           listed |-> {}, todo |-> {}, at |-> Nowhere, done |-> {}]
NoPrune == [pc |-> "idle", owners |-> {}, addrs |-> {}, todo |-> {}, reached |-> {},
            held |-> [n \in Nodes |-> {}], orphans |-> {}, at |-> Nowhere, clean |-> TRUE]

UserType == [life : {"absent", "live", "deleting"}, finalizer : BOOLEAN, name : Names,
             version : 0..MaxVersion, phase : {"New", "Error", "Degraded", "Ready"},
             observed : 0..MaxVersion, appliedTo : SUBSET Nodes]
PassType == [pc : {"idle", "own", "set", "save", "del", "delsave", "release"},
             cur : Users \cup {None}, name : Names, version : 0..MaxVersion,
             listed : SUBSET Nodes, todo : SUBSET Nodes, at : 0..Size, done : SUBSET Nodes]
PruneType == [pc : {"idle", "enumerate", "del", "save"}, owners : SUBSET Names,
              addrs : SUBSET Nodes, todo : SUBSET Nodes, reached : SUBSET Nodes,
              held : [Nodes -> SUBSET Names], orphans : SUBSET Names, at : 0..Size, clean : BOOLEAN]

TypeOK ==
    /\ user \in [Users -> UserType] /\ issued \in 0..MaxVersion
    /\ pass \in PassType /\ prune \in PruneType
    /\ cluster \in BOOLEAN
    /\ pod \in [Nodes -> {"gone", "booting", "up", "ready"}]
    /\ live \in [Nodes -> [Names -> Accounts]]
    /\ saved \in [Nodes -> [Names -> Accounts]]
    /\ record \subseteq Names /\ ever \subseteq Names
    /\ faults \in 0..MaxFaults
    /\ slipped \subseteq Nodes \X Names

\* Mutant: any username will do.
ManageableAny(u) == TRUE

\* validateUsername
Manageable(u) == u # Default

\* RedisUsers the API server holds, those being deleted included.
Declared == {user[c].name : c \in {d \in Users : user[d].life # "absent"}}

\* redisPodIsReady, and a pod whose Redis answers.
Ready == {n \in Nodes : pod[n] = "ready"}
Answers(n) == pod[n] \in {"up", "ready"}

\* A volume before any RedisUser: the init script writes the line of the default user.
Volume(n) == [u \in Names |-> IF u = Default \/ <<n, u>> \in HandMade THEN Hand ELSE Absent]

Init ==
    /\ user = [c \in Users |-> [life |-> "absent", finalizer |-> FALSE, name |-> Default,
                                version |-> 0, phase |-> "New", observed |-> 0, appliedTo |-> {}]]
    /\ issued = 0
    /\ pass = NoPass /\ prune = NoPrune
    /\ cluster = TRUE
    /\ pod = [n \in Nodes |-> "ready"]
    /\ live = [n \in Nodes |-> Volume(n)] /\ saved = live
    /\ record = HandWritten
    /\ faults = 0
    /\ ever = {} /\ slipped = {}

Fault == faults < MaxFaults /\ faults' = faults + 1
\* A call to a node: it goes through, or fails without an effect.
Reaches(n) == Answers(n) /\ UNCHANGED faults
Misses(n) == IF Answers(n) THEN Fault ELSE UNCHANGED faults

-----------------------------------------------------------------------------
(* The pass of the RedisUser reconciler, one worker.                       *)

\* Mutant: the status reports on the generation after the one that was read.
WriteStatusAhead(ph, applied) ==
    user' = [user EXCEPT ![pass.cur].phase = ph, ![pass.cur].observed = pass.version + 1,
                         ![pass.cur].appliedTo = applied]

\* Status().Update with the object as it was read: a conflict is only logged.
WriteStatus(ph, applied) ==
    LET c == pass.cur
        current == user[c].life = "live" /\ user[c].version = pass.version
    IN user' = IF current
               THEN [user EXCEPT ![c] = [@ EXCEPT !.phase = ph, !.observed = pass.version,
                                                  !.appliedTo = applied]]
               ELSE user

\* updateStatus(..., "Error", nil, ...) and the end of the pass.
ReportError == WriteStatus("Error", user[pass.cur].appliedTo) /\ pass' = NoPass

\* Reconcile up to the record: the finalizer, validateRedisUserSpec, the cluster, the
\* password and the ready pods.
Start(c) ==
    LET x == user[c]
        held == [x EXCEPT !.finalizer = TRUE]
        fit == Manageable(x.name) /\ cluster /\ Ready # {}
    IN /\ pass.pc = "idle" /\ x.life = "live"
       /\ \/ /\ fit /\ user' = [user EXCEPT ![c] = held] /\ UNCHANGED faults
             /\ pass' = [NoPass EXCEPT !.pc = "own", !.cur = c, !.name = x.name,
                             !.version = x.version, !.listed = Ready, !.todo = Ready]
          \/ /\ IF fit THEN Fault ELSE UNCHANGED faults
             /\ user' = [user EXCEPT ![c] = [held EXCEPT !.observed = x.version,
                             !.phase = IF Manageable(x.name) THEN "Error" ELSE "Degraded"]]
             /\ UNCHANGED pass
       /\ UNCHANGED <<issued, prune, clusterVars, record, history>>

\* ensureACLOwner: the name is in the record before the first SETUSER.
EnsureACLOwner ==
    /\ pass.pc = "own"
    /\ \/ /\ record' = record \cup {pass.name}
          /\ pass' = [pass EXCEPT !.pc = "set"]
          /\ UNCHANGED <<user, faults>>
       \/ /\ ReportError /\ Fault /\ UNCHANGED record
    /\ UNCHANGED <<issued, prune, clusterVars, history>>

\* The orphans the prune pass found on a node when it enumerated it.
Doomed(n) == prune.orphans \cap prune.held[n]

\* What has been changed on a node and not been saved yet. When the save is lost the
\* aclfile brings the old accounts back, and the prune pass never looks at it.
Unsaved(n) ==
    {n} \X ((IF pass.at = n THEN {pass.name} ELSE {})
            \cup (IF prune.at = n THEN Doomed(n) ELSE {}))
UnsavedAnywhere == UNION {Unsaved(n) : n \in Nodes}

\* The loops over the pods: the next pod, one that failed, and one that is finished.
Skip(n) == pass' = [pass EXCEPT !.todo = @ \ {n}]
Visit(n, stage) == pass' = [pass EXCEPT !.pc = stage, !.at = n, !.todo = @ \ {n}]
Leave(stage, ok) ==
    pass' = [pass EXCEPT !.pc = stage, !.at = Nowhere,
                         !.done = IF ok THEN @ \cup {pass.at} ELSE @]

\* applyACL: SETUSER on one pod, then ACL SAVE on it. A prune pass that has already
\* enumerated the pod does not know of the account.
SetUser(n) ==
    /\ pass.pc = "set" /\ n \in pass.todo
    /\ \/ /\ Reaches(n) /\ Visit(n, "save")
          /\ live' = [live EXCEPT ![n][pass.name] = pass.version]
          /\ slipped' = slipped \cup ((prune.reached \cap {n}) \X {pass.name})
       \/ /\ Misses(n) /\ Skip(n) /\ UNCHANGED <<live, slipped>>
    /\ UNCHANGED <<user, issued, prune, cluster, pod, saved, record, ever>>

\* Mutant: a pod whose ACL SAVE failed counts as applied.
SaveUserUnchecked ==
    /\ pass.pc = "save" /\ Leave("set", TRUE)
    /\ LET n == pass.at
       IN \/ Reaches(n) /\ saved' = [saved EXCEPT ![n] = live[n]]
          \/ Misses(n) /\ UNCHANGED saved
    /\ UNCHANGED <<user, issued, prune, cluster, pod, live, record, history>>

SaveUser ==
    /\ pass.pc = "save"
    /\ LET n == pass.at
       IN \/ Reaches(n) /\ Leave("set", TRUE) /\ saved' = [saved EXCEPT ![n] = live[n]]
          \/ Misses(n) /\ Leave("set", FALSE) /\ UNCHANGED saved
    /\ UNCHANGED <<user, issued, prune, cluster, pod, live, record, history>>

\* The end of Reconcile: Ready only if every listed pod took and saved the account.
Report ==
    /\ pass.pc = "set" /\ pass.todo = {}
    /\ WriteStatus(IF pass.done = pass.listed THEN "Ready" ELSE "Degraded", pass.done)
    /\ pass' = NoPass
    /\ UNCHANGED <<issued, prune, clusterVars, record, faults, history>>

\* handleDeletion up to its loop. A username the operator never applied and a cluster
\* that is gone leave nothing to remove; a pod that is not ready is left out.
Cleanup(c) ==
    LET x == user[c]
        skip == ~Manageable(x.name) \/ ~cluster
        read == [NoPass EXCEPT !.cur = c, !.name = x.name, !.version = x.version]
    IN /\ pass.pc = "idle" /\ x.life = "deleting"
       /\ \/ skip /\ pass' = [read EXCEPT !.pc = "release"]
          \/ /\ ~skip /\ Ready # {}
             /\ pass' = [read EXCEPT !.pc = "del", !.listed = Ready, !.todo = Ready]
       /\ UNCHANGED <<user, issued, prune, clusterVars, record, faults, history>>

\* deleteACL: DELUSER on one pod, then ACL SAVE on it; an absent user is no failure.
DelUser(n) ==
    /\ pass.pc = "del" /\ n \in pass.todo
    /\ \/ /\ Reaches(n) /\ Visit(n, "delsave")
          /\ live' = [live EXCEPT ![n][pass.name] = Absent]
       \/ /\ Misses(n) /\ Skip(n) /\ UNCHANGED live
    /\ UNCHANGED <<user, issued, prune, cluster, pod, saved, record, history>>

SaveDeletion ==
    /\ pass.pc = "delsave"
    /\ LET n == pass.at
       IN \/ /\ Reaches(n) /\ Leave("del", TRUE)
             /\ saved' = [saved EXCEPT ![n] = live[n]] /\ UNCHANGED slipped
          \/ /\ Misses(n) /\ Leave("del", FALSE)
             /\ slipped' = slipped \cup Unsaved(n) /\ UNCHANGED saved
    /\ UNCHANGED <<user, issued, prune, cluster, pod, live, record, ever>>

\* Mutant: the failed pods are forgotten.
DisownAnyway ==
    /\ pass.pc = "del" /\ pass.todo = {}
    /\ record' = record \ {pass.name}
    /\ pass' = [pass EXCEPT !.pc = "release"]
    /\ UNCHANGED <<user, issued, prune, clusterVars, faults, history>>

\* removeACLOwners, only if no pod failed; otherwise the deletion is retried. A pod that
\* was not ready when the deletion began, and has the account, is forgotten here.
Disown ==
    LET has(n) == live[n][pass.name] > 0 \/ saved[n][pass.name] > 0
    IN /\ pass.pc = "del" /\ pass.todo = {}
       /\ \/ /\ pass.done = pass.listed
             /\ record' = record \ {pass.name}
             /\ slipped' = slipped \cup ({n \in Nodes \ pass.listed : has(n)} \X {pass.name})
             /\ pass' = [pass EXCEPT !.pc = "release"] /\ UNCHANGED faults
          \/ /\ pass' = NoPass /\ UNCHANGED <<record, slipped>>
             /\ IF pass.done = pass.listed THEN Fault ELSE UNCHANGED faults
       /\ UNCHANGED <<user, issued, prune, clusterVars, ever>>

\* removeFinalizer: the object goes with it.
RemoveFinalizer ==
    /\ pass.pc = "release"
    /\ user' = [user EXCEPT ![pass.cur] = [@ EXCEPT !.life = "absent", !.finalizer = FALSE,
                   !.phase = "New", !.observed = 0, !.appliedTo = {}]]
    /\ pass' = NoPass
    /\ UNCHANGED <<issued, prune, clusterVars, record, faults, history>>

-----------------------------------------------------------------------------
(* pruneOrphanedACLUsers, a step of the RedisSentinel reconciler.          *)

\* The record, then runningPodAddresses.
ReadOwners ==
    LET running == {n \in Nodes : pod[n] # "gone"}
    IN /\ prune.pc = "idle" /\ cluster /\ record # {} /\ running # {}
       /\ prune' = [NoPrune EXCEPT !.pc = "enumerate", !.owners = record, !.addrs = running,
                                   !.todo = running]
       /\ UNCHANGED <<user, issued, pass, clusterVars, record, faults, history>>

\* The loops over the addresses take them in their order.
NextToPrune(n) == n \in prune.todo /\ \A m \in prune.todo : n <= m

\* enumerateACLAccounts, one node: one that does not answer is not an empty one.
Enumerate(n) ==
    /\ prune.pc = "enumerate" /\ NextToPrune(n)
    /\ \/ /\ Reaches(n)
          /\ prune' = [prune EXCEPT !.todo = @ \ {n}, !.reached = @ \cup {n},
                           !.held[n] = {u \in prune.owners : live[n][u] # Absent}]
       \/ Misses(n) /\ prune' = [prune EXCEPT !.todo = @ \ {n}]
    /\ UNCHANGED <<user, issued, pass, clusterVars, record, history>>

\* The RedisUsers are listed after the nodes were enumerated.
ListUsers ==
    /\ prune.pc = "enumerate" /\ prune.todo = {}
    /\ LET orphans == {u \in prune.owners : Manageable(u) /\ u \notin Declared}
       IN \/ /\ prune' = IF orphans = {} THEN NoPrune
                         ELSE [prune EXCEPT !.pc = "del", !.orphans = orphans,
                                            !.todo = prune.reached]
             /\ UNCHANGED faults
          \/ prune' = NoPrune /\ Fault
    /\ UNCHANGED <<user, issued, pass, clusterVars, record, history>>

\* deleteACLAccounts on one node: DELUSER of what it held, and ACL SAVE after it.
PruneNode(n) ==
    /\ prune.pc = "del" /\ NextToPrune(n)
    /\ \/ /\ Doomed(n) = {}
          /\ prune' = [prune EXCEPT !.todo = @ \ {n}] /\ UNCHANGED <<live, faults>>
       \/ /\ Doomed(n) # {} /\ Reaches(n)
          /\ live' = [live EXCEPT ![n] = [u \in Names |-> IF u \in Doomed(n) THEN Absent
                                                          ELSE live[n][u]]]
          /\ prune' = [prune EXCEPT !.pc = "save", !.at = n, !.todo = @ \ {n}]
       \/ /\ Doomed(n) # {} /\ Misses(n)
          /\ prune' = [prune EXCEPT !.todo = @ \ {n}, !.clean = FALSE] /\ UNCHANGED live
    /\ UNCHANGED <<user, issued, pass, cluster, pod, saved, record, history>>

SavePruned ==
    /\ prune.pc = "save"
    /\ LET n == prune.at
       IN \/ /\ Reaches(n)
             /\ saved' = [saved EXCEPT ![n] = live[n]]
             /\ prune' = [prune EXCEPT !.pc = "del", !.at = Nowhere] /\ UNCHANGED slipped
          \/ /\ Misses(n)
             /\ prune' = [prune EXCEPT !.pc = "del", !.at = Nowhere, !.clean = FALSE]
             /\ slipped' = slipped \cup Unsaved(n) /\ UNCHANGED saved
    /\ UNCHANGED <<user, issued, pass, cluster, pod, live, record, ever>>

\* Mutant: a node that could not be enumerated is taken for a clean one.
CompleteAnyway == prune.clean /\ Cardinality(prune.addrs) >= Size

\* Every node was enumerated and cleaned, and they are as many as the spec asks for.
Complete ==
    /\ prune.reached = prune.addrs /\ prune.clean
    /\ Cardinality(prune.addrs) >= Size

\* The record forgets the orphans after a complete pass. A pass of the other
\* reconciler that has recorded one of them goes on without its entry.
DropOwners ==
    /\ prune.pc = "del" /\ prune.todo = {}
    /\ \/ /\ Complete /\ record' = record \ prune.orphans /\ UNCHANGED faults
          /\ LET underWay == IF pass.pc \in {"set", "save"} THEN {pass.name} ELSE {}
             IN slipped' = slipped \cup (Nodes \X (prune.orphans \cap underWay))
       \/ /\ IF Complete THEN Fault ELSE UNCHANGED faults
          /\ UNCHANGED <<record, slipped>>
    /\ prune' = NoPrune
    /\ UNCHANGED <<user, issued, pass, clusterVars, ever>>

-----------------------------------------------------------------------------
(* The user, the administrator, pods, the cluster and the operator process. *)

\* A RedisUser is created, or its spec is edited: the username is mutable. No two
\* RedisUsers declare the same one.
Declare(c, u) ==
    /\ user[c].life # "deleting" /\ issued < MaxVersion
    /\ \A d \in Users \ {c} : user[d].life = "absent" \/ user[d].name # u
    /\ issued' = issued + 1
    /\ user' = [user EXCEPT ![c] = [@ EXCEPT !.life = "live", !.name = u, !.version = issued']]
    /\ ever' = ever \cup {u}
    /\ UNCHANGED <<pass, prune, clusterVars, record, faults, slipped>>

\* kubectl delete: immediate without the finalizer.
Delete(c) ==
    /\ user[c].life = "live"
    /\ user' = [user EXCEPT ![c].life = IF user[c].finalizer THEN "deleting" ELSE "absent"]
    /\ UNCHANGED <<issued, pass, prune, clusterVars, record, faults, history>>

\* A container restarts: what it will serve is in the aclfile, of which the init script
\* rewrites the line of the default user only.
Reload(n) == [saved[n] EXCEPT ![Default] = Hand]

Restart(n) ==
    /\ Answers(n) /\ Fault
    /\ pod' = [pod EXCEPT ![n] = "booting"]
    /\ live' = [live EXCEPT ![n] = Reload(n)]
    /\ slipped' = slipped \cup Unsaved(n)
    /\ UNCHANGED <<user, issued, pass, prune, cluster, saved, record, ever>>

Boot(n) ==
    /\ cluster /\ pod[n] \in {"gone", "booting"}
    /\ pod' = [pod EXCEPT ![n] = "up"]
    /\ UNCHANGED <<user, issued, pass, prune, cluster, live, saved, record, faults, history>>

BecomeReady(n) ==
    /\ pod[n] = "up" /\ pod' = [pod EXCEPT ![n] = "ready"]
    /\ UNCHANGED <<user, issued, pass, prune, cluster, live, saved, record, faults, history>>

LoseReadiness(n) ==
    /\ pod[n] = "ready" /\ Fault /\ pod' = [pod EXCEPT ![n] = "up"]
    /\ UNCHANGED <<user, issued, pass, prune, cluster, live, saved, record,
                   history>>

\* The RedisSentinel goes with its pods; the volumes and the record stay. Its own reconciler
\* takes the finalizer off, so no prune pass is under way.
RemoveCluster ==
    /\ cluster /\ prune.pc = "idle" /\ Fault
    /\ cluster' = FALSE
    /\ pod' = [n \in Nodes |-> "gone"]
    /\ live' = [n \in Nodes |-> Reload(n)]
    /\ slipped' = slipped \cup UnsavedAnywhere
    /\ UNCHANGED <<user, issued, pass, prune, saved, record, ever>>

RecreateCluster ==
    /\ ~cluster /\ cluster' = TRUE
    /\ UNCHANGED <<user, issued, pass, prune, pod, live, saved, record, faults, history>>

\* The operator stops: both passes are lost.
Crash ==
    /\ pass # NoPass \/ prune # NoPrune
    /\ Fault /\ pass' = NoPass /\ prune' = NoPrune
    /\ slipped' = slipped \cup UnsavedAnywhere
    /\ UNCHANGED <<user, issued, clusterVars, record, ever>>

PassOf(c) ==
    \/ Start(c) \/ Cleanup(c)
    \/ /\ pass.cur = c
       /\ \/ EnsureACLOwner
          \/ \E n \in Nodes : SetUser(n) \/ DelUser(n)
          \/ SaveUser \/ Report \/ SaveDeletion \/ Disown \/ RemoveFinalizer
UserPass == \E c \in Users : PassOf(c)
PrunePass ==
    \/ ReadOwners \/ ListUsers \/ SavePruned \/ DropOwners
    \/ \E n \in Nodes : Enumerate(n) \/ PruneNode(n)
Environment ==
    \/ \E c \in Users : Delete(c) \/ \E u \in Names : Declare(c, u)
    \/ \E n \in Nodes : Restart(n) \/ Boot(n) \/ BecomeReady(n) \/ LoseReadiness(n)
    \/ RemoveCluster \/ RecreateCluster \/ Crash

Next == UserPass \/ PrunePass \/ Environment

Spec == Init /\ [][Next]_vars

\* The reconcilers keep running: a RedisUser is requeued after every pass and when a
\* pod becomes ready, a RedisSentinel at its resync. Pods that exist boot.
Fairness ==
    /\ \A c \in Users : WF_vars(PassOf(c))
    /\ WF_vars(PrunePass)
    /\ WF_vars(\E n \in Nodes : Boot(n) \/ BecomeReady(n))

FairSpec == Spec /\ Fairness

-----------------------------------------------------------------------------
(* Properties.                                                             *)

\* A node serves an operator-made account, or will after its next boot.
Holds(n, u) == saved[n][u] > 0 \/ (Answers(n) /\ live[n][u] > 0)

\* "never a live account nothing marks as operator-created": an account whose
\* RedisUser is gone is in the ownership record as long as some aclfile or server
\* has it, whatever crashed, failed or restarted in between, so that the prune pass
\* can find it. The exceptions are the races collected in slipped.
OrphanIsRecorded ==
    \A n \in Nodes, u \in Names :
        Holds(n, u) /\ u \notin Declared => u \in record \/ <<n, u>> \in slipped

\* "An account an administrator created by hand carries no record and is never
\* touched": neither reconciler removes or rewrites one unless a RedisUser was
\* declared under its name at some time, and never the default user's.
HandMadeSpared ==
    [][\A n \in Nodes, u \in Names :
          live[n][u] = Hand /\ live'[n][u] # Hand => u \in ever \ {Default}]_vars

\* status.phase Ready for the present spec means that the aclfile of every pod in
\* status.appliedTo holds the account of this spec, so a restart brings it back.
ReadyIsSaved ==
    \A c \in Users : LET x == user[c] IN
        x.life = "live" /\ x.phase = "Ready" /\ x.observed = x.version =>
            \A n \in x.appliedTo : saved[n][x.name] = x.version \/ <<n, x.name>> \in slipped

\* What a node must end up with for a name.
Settled(n, u) ==
    IF u \in Declared
    THEN \E c \in Users : /\ user[c].life = "live" /\ user[c].name = u
                          /\ live[n][u] = user[c].version /\ saved[n][u] = live[n][u]
    ELSE ~Holds(n, u) \/ <<n, u>> \in slipped

\* Once edits and faults stop, every node of an existing cluster serves and has saved
\* the declared accounts in their present version, and no account whose RedisUser was
\* deleted or renamed: a deletion always gets through, and a node the prune pass could not
\* enumerate is cleaned when it returns, the record being kept until then. What the code
\* lets slip stays: above all the account of a pod that was not ready during the deletion
\* of its RedisUser, of which Disown drops the record.
AccountsSettle ==
    <>[](cluster => \A n \in Nodes, u \in Names \ {Default} : Settled(n, u))

\* "Every node was enumerated and every removal persisted, so the entries describe
\* nothing any more" (pruneOrphanedACLUsers): when the prune pass drops a name from the
\* record, no aclfile still holds an account that its server has lost.
ForgottenWhenPersisted ==
    [][prune.pc # "idle" /\ prune'.pc = "idle" =>
          \A u \in record \ record', n \in Nodes :
              live[n][u] = Absent => saved[n][u] = Absent]_vars

-----------------------------------------------------------------------------
(* The inductive invariant from which the safety properties follow.        *)

\* Where a pass is, and what it can count on: nobody edits a RedisUser that is being
\* deleted.
PassShape ==
    /\ pass.pc # "idle" => pass.cur \in Users
    /\ pass.pc = "own" => pass.done = {}
    /\ pass.pc \in {"save", "delsave"} => pass.at \in Nodes
    /\ pass.pc \in {"del", "delsave", "release"} =>
           user[pass.cur].life = "deleting" /\ user[pass.cur].name = pass.name
PruneShape ==
    /\ IF prune.pc = "save" THEN prune.at \in Nodes ELSE prune.at = Nowhere
    /\ prune.orphans \subseteq prune.owners
    /\ prune.pc \in {"del", "save"} => prune.todo \subseteq prune.reached
    /\ \A n \in Nodes : prune.held[n] # {} => n \in prune.reached
\* No two RedisUsers declare the same name.
Distinct ==
    \A c, d \in Users :
        user[c].life # "absent" /\ user[d].life # "absent" /\ user[c].name = user[d].name => c = d
ShapeInv == PassShape /\ PruneShape /\ Distinct

\* Only names some RedisUser declared are touched, and never the default user's: every
\* other account is as it was on the volume.
NameInv ==
    /\ \A c \in Users : user[c].life # "absent" => user[c].name \in ever
    /\ record \subseteq ever \cup {Default}
    /\ pass.pc \in {"own", "set", "save", "del", "delsave"} => pass.name \in ever \ {Default}
    /\ prune.owners \subseteq ever \cup {Default}
    /\ prune.orphans \subseteq ever \ {Default}
    /\ \A n \in Nodes, u \in Names : u \notin ever \ {Default} =>
           live[n][u] = Volume(n)[u] /\ saved[n][u] = Volume(n)[u]

\* Versions are issued from 1 on, and none is ahead of the last one.
VersionInv ==
    /\ \A c \in Users : user[c].version <= issued /\ user[c].observed <= issued
    /\ \A c \in Users : user[c].life # "absent" => user[c].version > 0
    /\ pass.version <= issued
    /\ pass.pc \in {"own", "set", "save"} => pass.version > 0
    /\ \A n \in Nodes, u \in Names : live[n][u] <= issued /\ saved[n][u] <= issued

\* A node's deletion of a name is still to be saved.
Deleting(n, u) == pass.pc = "delsave" /\ pass.at = n /\ pass.name = u
Pruning(n, u) == prune.at = n /\ u \in Doomed(n)

\* Only an unsaved deletion leaves an account on disk that memory has lost.
NoGhost(n, u) == live[n][u] <= 0 /\ saved[n][u] > 0 => Deleting(n, u) \/ Pruning(n, u)
\* What the prune pass knows of a node it enumerated, and has done to those behind it.
Seen(n, u) ==
    prune.pc # "idle" /\ n \in prune.reached /\ u \in prune.owners =>
        u \in prune.held[n] \/ live[n][u] <= 0
Cleared(n, u) ==
    /\ prune.pc \in {"del", "save"} /\ prune.clean
    /\ n \in prune.reached \ prune.todo /\ u \in prune.orphans
    => live[n][u] <= 0
PruneInv ==
    \A n \in Nodes, u \in Names :
        <<n, u>> \notin slipped => NoGhost(n, u) /\ Seen(n, u) /\ Cleared(n, u)

\* Whatever a node holds is recorded, or its removal is about to be saved.
LiveRecorded(n, u) == live[n][u] > 0 => u \in record
SavedRecorded(n, u) == saved[n][u] > 0 => u \in record \/ Deleting(n, u)
\* The pass of the RedisUser reconciler has the name in the record when it sets it, and
\* has emptied the pods it lists when it ends a deletion.
SetRecorded(u) == pass.pc \in {"set", "save"} /\ pass.name = u => u \in record
Emptied(n, u) ==
    pass.pc \in {"del", "delsave"} /\ pass.name = u =>
        /\ n \in pass.done => live[n][u] <= 0 /\ saved[n][u] <= 0
        /\ Deleting(n, u) => live[n][u] <= 0
RecordInv ==
    \A n \in Nodes, u \in Names : <<n, u>> \notin slipped =>
        LiveRecorded(n, u) /\ SavedRecorded(n, u) /\ SetRecorded(u) /\ Emptied(n, u)

\* The account of RedisUser c as it is now, in memory and on disk.
Has(n, c) == live[n][user[c].name] = user[c].version /\ saved[n][user[c].name] = user[c].version
ReportedReady(c) ==
    user[c].life = "live" /\ user[c].phase = "Ready" /\ user[c].observed = user[c].version
Applying(c) ==
    pass.pc \in {"set", "save"} /\ pass.cur = c /\ user[c].life = "live"
    /\ user[c].version = pass.version

\* A pass that read the present version read the present name, and no pass applies the name
\* of a RedisUser that is Ready but its own, in the present version.
PassIsCurrent ==
    pass.pc \in {"own", "set", "save"} /\ user[pass.cur].version = pass.version =>
        user[pass.cur].name = pass.name
ReadyUndisturbed(c) ==
    ReportedReady(c) /\ pass.pc \in {"own", "set", "save"} /\ pass.name = user[c].name =>
        pass.cur = c /\ pass.version = user[c].version
\* What status says, and what the pass is about to say, is so.
ReadyHas(n, c) == ReportedReady(c) /\ n \in user[c].appliedTo => Has(n, c)
DoneHas(n, c) == Applying(c) /\ n \in pass.done => Has(n, c)
SetHas(n, c) ==
    Applying(c) /\ pass.pc = "save" /\ pass.at = n => live[n][user[c].name] = user[c].version
\* What the prune pass is about to remove is not an account of a present version.
DoomedStale(n, c) ==
    prune.pc \in {"del", "save"} /\ user[c].name \in Doomed(n) /\ user[c].life = "live" =>
        live[n][user[c].name] # user[c].version /\ saved[n][user[c].name] # user[c].version
ReadyInv ==
    /\ PassIsCurrent
    /\ \A c \in Users :
        /\ ReadyUndisturbed(c)
        /\ \A n \in Nodes : <<n, user[c].name>> \notin slipped =>
               ReadyHas(n, c) /\ DoneHas(n, c) /\ SetHas(n, c) /\ DoomedStale(n, c)

IndInv ==
    TypeOK /\ ShapeInv /\ NameInv /\ VersionInv /\ PruneInv /\ RecordInv /\ ReadyInv
=============================================================================
