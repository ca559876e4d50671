--------------------------- MODULE ACLUsersProofs ---------------------------
(***************************************************************************)
(* Proofs about ACLUsers for any number of RedisUsers, names and nodes and *)
(* every bound. NameInv is why accounts made by hand are spared; PruneInv  *)
(* and RecordInv carry the record across the two passes that share it;     *)
(* ReadyInv ties what status says to what the nodes have on disk.          *)
(***************************************************************************)
EXTENDS ACLUsers, FiniteSetTheorems, TLAPS

-----------------------------------------------------------------------------
(* Types                                                                   *)

LEMMA IdleTypes == NoPass \in PassType /\ NoPrune \in PruneType
  BY UsersAssumption DEF NoPass, NoPrune, PassType, PruneType, Nowhere

LEMMA InitTypeOK == Init => TypeOK
<1> SUFFICES ASSUME Init
             PROVE  TypeOK
  OBVIOUS
<1> USE UsersAssumption DEF Init
<1>1. user \in [Users -> UserType]
  BY DEF UserType
<1>2. \A n \in Nodes : Volume(n) \in [Names -> Accounts]
  BY DEF Volume, Hand, Absent, Accounts
<1>3. live \in [Nodes -> [Names -> Accounts]] /\ saved \in [Nodes -> [Names -> Accounts]]
  BY <1>2
<1>4. issued \in 0..MaxVersion /\ faults \in 0..MaxFaults
  OBVIOUS
<1>5. pod \in [Nodes -> {"gone", "booting", "up", "ready"}] /\ cluster \in BOOLEAN
  OBVIOUS
<1>6. record \subseteq Names /\ ever \subseteq Names /\ slipped \subseteq Nodes \X Names
  OBVIOUS
<1> QED
  BY <1>1, <1>3, <1>4, <1>5, <1>6, IdleTypes DEF TypeOK

LEMMA FaultType == TypeOK /\ (Fault \/ UNCHANGED faults) => faults' \in 0..MaxFaults
  BY UsersAssumption DEF TypeOK, Fault

LEMMA UserUpdate ==
    ASSUME TypeOK, NEW c \in Users, NEW x \in UserType, user' = [user EXCEPT ![c] = x]
    PROVE  user' \in [Users -> UserType]
  BY DEF TypeOK

LEMMA WriteStatusType ==
    ASSUME TypeOK, pass.cur \in Users, NEW ph \in {"Error", "Degraded", "Ready"},
           NEW applied \in SUBSET Nodes, WriteStatus(ph, applied)
    PROVE  user' \in [Users -> UserType]
<1>1. [user[pass.cur] EXCEPT !.phase = ph, !.observed = pass.version, !.appliedTo = applied]
        \in UserType
  <2>1. user[pass.cur] \in UserType /\ pass.version \in 0..MaxVersion
    BY DEF TypeOK, PassType
  <2> QED
    BY <2>1 DEF UserType
<1>2. CASE user' = user
  BY <1>2 DEF TypeOK
<1>3. CASE user' = [user EXCEPT ![pass.cur] = [@ EXCEPT !.phase = ph, !.observed = pass.version,
                                                        !.appliedTo = applied]]
  BY <1>1, <1>3, UserUpdate
<1> QED
  BY <1>2, <1>3 DEF WriteStatus

LEMMA UnsavedType ==
    ASSUME TypeOK, NEW n \in Nodes
    PROVE  Unsaved(n) \subseteq Nodes \X Names /\ Unsaved(n) \subseteq UnsavedAnywhere
  BY DEF TypeOK, Unsaved, UnsavedAnywhere, Doomed, PassType, PruneType

LEMMA UnsavedAnywhereType == TypeOK => UnsavedAnywhere \subseteq Nodes \X Names
  BY UnsavedType DEF UnsavedAnywhere

LEMMA ReloadType == TypeOK => \A n \in Nodes : Reload(n) \in [Names -> Accounts]
  BY UsersAssumption DEF TypeOK, Reload, Hand, Accounts

LEMMA NextTypeOK == TypeOK /\ ShapeInv /\ [Next]_vars => TypeOK'
<1> SUFFICES ASSUME TypeOK, ShapeInv, [Next]_vars
             PROVE  TypeOK'
  OBVIOUS
<1>0. /\ Nodes \subseteq 0..Size /\ Nowhere \in 0..Size /\ Absent \in Accounts
      /\ 0..MaxVersion \subseteq Accounts
  BY UsersAssumption DEF Nodes, Nowhere, Absent, Accounts
<1> USE DEF TypeOK, clusterVars, history
<1>1. CASE UNCHANGED vars
  BY <1>1 DEF vars
<1>2. ASSUME NEW c \in Users, Start(c) PROVE TypeOK'
  <2>1. user' \in [Users -> UserType]
    <3>1. [user[c] EXCEPT !.finalizer = TRUE] \in UserType
      BY ZenonT(60) DEF UserType
    <3>2. [[user[c] EXCEPT !.finalizer = TRUE] EXCEPT !.observed = user[c].version,
             !.phase = IF Manageable(user[c].name) THEN "Error" ELSE "Degraded"] \in UserType
      BY ZenonT(60) DEF UserType
    <3> QED
      BY <1>2, <3>1, <3>2, UserUpdate DEF Start
  <2>2. pass' \in PassType
    <3>1. user[c].name \in Names /\ user[c].version \in 0..MaxVersion /\ Ready \subseteq Nodes
      BY DEF UserType, Ready
    <3>2. [NoPass EXCEPT !.pc = "own", !.cur = c, !.name = user[c].name,
             !.version = user[c].version, !.listed = Ready, !.todo = Ready] \in PassType
      BY <3>1, IdleTypes DEF PassType
    <3> QED
      BY <1>2, <3>2 DEF Start
  <2>3. faults' \in 0..MaxFaults
    BY <1>2, FaultType DEF Start
  <2> QED
    BY <1>2, <2>1, <2>2, <2>3 DEF Start
<1>3. ASSUME pass.pc # "idle" PROVE pass.cur \in Users /\ user[pass.cur].appliedTo \in SUBSET Nodes
  BY <1>3 DEF ShapeInv, PassShape, UserType
<1>4. CASE EnsureACLOwner
  <2>1. CASE ReportError /\ Fault /\ UNCHANGED record
    BY <1>3, <1>4, <2>1, WriteStatusType, FaultType, IdleTypes DEF ReportError, EnsureACLOwner
  <2>2. CASE record' = record \cup {pass.name} /\ pass' = [pass EXCEPT !.pc = "set"]
             /\ UNCHANGED <<user, faults>>
    <3>1. pass' \in PassType /\ record' \subseteq Names
      BY <2>2 DEF PassType
    <3> QED
      BY <1>4, <2>2, <3>1 DEF EnsureACLOwner
  <2> QED
    BY <1>4, <2>1, <2>2 DEF EnsureACLOwner
<1>5. ASSUME NEW n \in Nodes, NEW stage \in {"save", "delsave"}, Visit(n, stage)
      PROVE  pass' \in PassType
  BY <1>0, <1>5 DEF Visit, PassType
<1>6. ASSUME NEW n \in Nodes, Skip(n) PROVE pass' \in PassType
  BY <1>6 DEF Skip, PassType
<1>7. ASSUME NEW stage \in {"set", "del"}, NEW ok \in BOOLEAN, ok => pass.at \in Nodes,
             Leave(stage, ok)
      PROVE  pass' \in PassType
  BY <1>0, <1>7 DEF Leave, PassType
<1>8. ASSUME NEW n \in Nodes, NEW v \in Accounts, live' = [live EXCEPT ![n][pass.name] = v]
      PROVE  live' \in [Nodes -> [Names -> Accounts]]
  <2>1. pass.name \in Names
    BY DEF PassType
  <2> QED
    BY <1>8, <2>1
<1>9. ASSUME NEW n \in Nodes, SetUser(n) PROVE TypeOK'
  <2>1. pass.version \in Accounts /\ pass.name \in Names
    BY <1>0 DEF PassType
  <2>2. live' \in [Nodes -> [Names -> Accounts]]
    BY <1>8, <1>9, <2>1 DEF SetUser
  <2>3. pass' \in PassType
    BY <1>5, <1>6, <1>9 DEF SetUser
  <2>4. faults' \in 0..MaxFaults
    BY <1>9, FaultType DEF SetUser, Reaches, Misses
  <2>5. slipped' \subseteq Nodes \X Names
    BY <1>9, <2>1 DEF SetUser
  <2> QED
    BY <1>9, <2>2, <2>3, <2>4, <2>5 DEF SetUser
<1>10. CASE SaveUser
  <2>1. pass.at \in Nodes
    BY <1>10 DEF SaveUser, ShapeInv, PassShape
  <2>2. saved' \in [Nodes -> [Names -> Accounts]]
    BY <1>10, <2>1 DEF SaveUser
  <2>3. pass' \in PassType /\ faults' \in 0..MaxFaults
    BY <1>7, <1>10, <2>1, FaultType DEF SaveUser, Reaches, Misses
  <2> QED
    BY <1>10, <2>2, <2>3 DEF SaveUser
<1>11. CASE Report
  <2>1. user' \in [Users -> UserType]
    BY <1>3, <1>11, WriteStatusType DEF Report, PassType
  <2> QED
    BY <1>11, <2>1, IdleTypes DEF Report
<1>12. ASSUME NEW c \in Users, Cleanup(c) PROVE TypeOK'
  <2>1. pass' \in PassType
    <3> DEFINE read == [NoPass EXCEPT !.cur = c, !.name = user[c].name,
                                      !.version = user[c].version]
    <3>1. user[c].name \in Names /\ user[c].version \in 0..MaxVersion /\ Ready \subseteq Nodes
      BY DEF UserType, Ready
    <3>2. read \in PassType
      BY <3>1, IdleTypes DEF PassType
    <3>3. [read EXCEPT !.pc = "release"] \in PassType
      BY <3>2 DEF PassType
    <3>4. [read EXCEPT !.pc = "del", !.listed = Ready, !.todo = Ready] \in PassType
      BY <3>1, <3>2 DEF PassType
    <3> QED
      BY <1>12, <3>3, <3>4 DEF Cleanup
  <2> QED
    BY <1>12, <2>1 DEF Cleanup
<1>13. ASSUME NEW n \in Nodes, DelUser(n) PROVE TypeOK'
  <2>1. live' \in [Nodes -> [Names -> Accounts]]
    BY <1>0, <1>8, <1>13 DEF DelUser
  <2>2. pass' \in PassType
    BY <1>5, <1>6, <1>13 DEF DelUser
  <2>3. faults' \in 0..MaxFaults
    BY <1>13, FaultType DEF DelUser, Reaches, Misses
  <2> QED
    BY <1>13, <2>1, <2>2, <2>3 DEF DelUser
<1>14. CASE SaveDeletion
  <2>1. pass.at \in Nodes
    BY <1>14 DEF SaveDeletion, ShapeInv, PassShape
  <2>2. saved' \in [Nodes -> [Names -> Accounts]]
    BY <1>14, <2>1 DEF SaveDeletion
  <2>3. pass' \in PassType /\ faults' \in 0..MaxFaults
    BY <1>7, <1>14, <2>1, FaultType DEF SaveDeletion, Reaches, Misses
  <2>4. slipped' \subseteq Nodes \X Names
    BY <1>14, <2>1, UnsavedType DEF SaveDeletion
  <2> QED
    BY <1>14, <2>2, <2>3, <2>4 DEF SaveDeletion
<1>15. CASE Disown
  <2>1. pass' \in PassType
    BY <1>15, IdleTypes DEF Disown, PassType
  <2>2. faults' \in 0..MaxFaults
    BY <1>15, FaultType DEF Disown
  <2>3. slipped' \subseteq Nodes \X Names
    BY <1>15 DEF Disown, PassType
  <2> QED
    BY <1>15, <2>1, <2>2, <2>3 DEF Disown
<1>16. CASE RemoveFinalizer
  <2>1. pass.cur \in Users
    BY <1>16 DEF RemoveFinalizer, ShapeInv, PassShape
  <2>2. [user[pass.cur] EXCEPT !.life = "absent", !.finalizer = FALSE,
                               !.phase = "New", !.observed = 0, !.appliedTo = {}] \in UserType
    <3>1. user[pass.cur] \in UserType /\ 0 \in 0..MaxVersion
      BY <2>1, UsersAssumption
    <3> QED
      BY <3>1 DEF UserType
  <2>3. user' \in [Users -> UserType]
    BY <1>16, <2>1, <2>2, UserUpdate DEF RemoveFinalizer
  <2> QED
    BY <1>16, <2>3, IdleTypes DEF RemoveFinalizer
<1>17. CASE ReadOwners
  <2>1. prune' \in PruneType
    BY <1>17, IdleTypes DEF ReadOwners, PruneType
  <2> QED
    BY <1>17, <2>1 DEF ReadOwners
<1>18. ASSUME NEW n \in Nodes, Enumerate(n) PROVE TypeOK'
  <2>1. /\ [prune EXCEPT !.todo = @ \ {n}] \in PruneType
        /\ [prune EXCEPT !.todo = @ \ {n}, !.reached = @ \cup {n},
                         !.held[n] = {u \in prune.owners : live[n][u] # Absent}] \in PruneType
    BY DEF PruneType
  <2>2. prune' \in PruneType
    BY <1>18, <2>1 DEF Enumerate
  <2>3. faults' \in 0..MaxFaults
    BY <1>18, FaultType DEF Enumerate, Reaches, Misses
  <2> QED
    BY <1>18, <2>2, <2>3 DEF Enumerate
<1>19. CASE ListUsers
  <2>1. ASSUME NEW orphans \in SUBSET prune.owners
        PROVE  [prune EXCEPT !.pc = "del", !.orphans = orphans, !.todo = prune.reached]
                 \in PruneType
    <3>1. orphans \subseteq Names
      BY <2>1 DEF PruneType
    <3> QED
      BY <3>1 DEF PruneType
  <2>3. prune' \in PruneType
    BY <1>19, <2>1, IdleTypes DEF ListUsers
  <2>2. faults' \in 0..MaxFaults
    BY <1>19, FaultType DEF ListUsers
  <2> QED
    BY <1>19, <2>2, <2>3 DEF ListUsers
<1>20. ASSUME NEW n \in Nodes, PruneNode(n) PROVE TypeOK'
  <2>1. prune' \in PruneType
    <3>1. [prune EXCEPT !.todo = @ \ {n}] \in PruneType
      BY DEF PruneType
    <3>2. [prune EXCEPT !.pc = "save", !.at = n, !.todo = @ \ {n}] \in PruneType
      BY <1>0 DEF PruneType
    <3>3. [prune EXCEPT !.todo = @ \ {n}, !.clean = FALSE] \in PruneType
      BY DEF PruneType
    <3> QED
      BY <1>20, <3>1, <3>2, <3>3 DEF PruneNode
  <2>2. faults' \in 0..MaxFaults
    BY <1>20, FaultType DEF PruneNode, Reaches, Misses
  <2>3. live' \in [Nodes -> [Names -> Accounts]]
    BY <1>0, <1>20 DEF PruneNode
  <2> QED
    BY <1>20, <2>1, <2>2, <2>3 DEF PruneNode
<1>21. CASE SavePruned
  <2>1. prune.at \in Nodes
    BY <1>21 DEF SavePruned, ShapeInv, PruneShape
  <2>2. prune' \in PruneType
    BY <1>0, <1>21 DEF SavePruned, PruneType
  <2>3. faults' \in 0..MaxFaults
    BY <1>21, FaultType DEF SavePruned, Reaches, Misses
  <2>4. saved' \in [Nodes -> [Names -> Accounts]] /\ slipped' \subseteq Nodes \X Names
    BY <1>21, <2>1, UnsavedType DEF SavePruned
  <2> QED
    BY <1>21, <2>2, <2>3, <2>4 DEF SavePruned
<1>22. CASE DropOwners
  <2>1. faults' \in 0..MaxFaults
    BY <1>22, FaultType DEF DropOwners
  <2>2. slipped' \subseteq Nodes \X Names
    BY <1>22 DEF DropOwners, PruneType, PassType
  <2> QED
    BY <1>22, <2>1, <2>2, IdleTypes DEF DropOwners
<1>23. ASSUME NEW c \in Users, NEW u \in Names, Declare(c, u) PROVE TypeOK'
  <2>1. issued' \in 0..MaxVersion
    BY <1>23, UsersAssumption DEF Declare
  <2>2. [user[c] EXCEPT !.life = "live", !.name = u, !.version = issued'] \in UserType
    BY ZenonT(60), <2>1 DEF UserType
  <2>3. user' \in [Users -> UserType]
    BY <1>23, <2>2, UserUpdate DEF Declare
  <2> QED
    BY <1>23, <2>1, <2>3 DEF Declare
<1>24. ASSUME NEW c \in Users, Delete(c) PROVE TypeOK'
  <2>1. user' \in [Users -> UserType]
    <3>1. \A l \in {"absent", "deleting"} : [user[c] EXCEPT !.life = l] \in UserType
      BY DEF UserType
    <3>2. user' = [user EXCEPT ![c] = [user[c] EXCEPT
                     !.life = IF user[c].finalizer THEN "deleting" ELSE "absent"]]
      BY <1>24 DEF Delete
    <3> QED
      BY <3>1, <3>2, UserUpdate
  <2> QED
    BY <1>24, <2>1 DEF Delete
<1>25. ASSUME NEW n \in Nodes, Restart(n) PROVE TypeOK'
  <2>1. live' \in [Nodes -> [Names -> Accounts]]
    BY <1>25, ReloadType DEF Restart
  <2>2. pod' \in [Nodes -> {"gone", "booting", "up", "ready"}] /\ faults' \in 0..MaxFaults
    BY <1>25, FaultType DEF Restart
  <2>3. slipped' \subseteq Nodes \X Names
    BY <1>25, UnsavedType DEF Restart
  <2> QED
    BY <1>25, <2>1, <2>2, <2>3 DEF Restart
<1>26. ASSUME NEW n \in Nodes, Boot(n) \/ BecomeReady(n) \/ LoseReadiness(n) PROVE TypeOK'
  <2>1. pod' \in [Nodes -> {"gone", "booting", "up", "ready"}] /\ faults' \in 0..MaxFaults
    BY <1>26, FaultType DEF Boot, BecomeReady, LoseReadiness
  <2> QED
    BY <1>26, <2>1 DEF Boot, BecomeReady, LoseReadiness
<1>27. CASE RemoveCluster
  <2>1. live' \in [Nodes -> [Names -> Accounts]]
    BY <1>27, ReloadType DEF RemoveCluster
  <2>2. pod' \in [Nodes -> {"gone", "booting", "up", "ready"}] /\ faults' \in 0..MaxFaults
    BY <1>27, FaultType DEF RemoveCluster
  <2>3. slipped' \subseteq Nodes \X Names
    BY <1>27, UnsavedAnywhereType DEF RemoveCluster
  <2> QED
    BY <1>27, <2>1, <2>2, <2>3 DEF RemoveCluster
<1>28. CASE RecreateCluster
  BY <1>28 DEF RecreateCluster
<1>29. CASE Crash
  BY <1>29, IdleTypes, FaultType, UnsavedAnywhereType DEF Crash
<1>30. CASE UserPass
  BY <1>2, <1>4, <1>9, <1>10, <1>11, <1>12, <1>13, <1>14, <1>15, <1>16, <1>30 DEF UserPass, PassOf
<1>31. CASE PrunePass
  BY <1>17, <1>18, <1>19, <1>20, <1>21, <1>22, <1>31 DEF PrunePass
<1>32. CASE Environment
  BY <1>23, <1>24, <1>25, <1>26, <1>27, <1>28, <1>29, <1>32 DEF Environment
<1> QED
  BY <1>1, <1>30, <1>31, <1>32 DEF Next

-----------------------------------------------------------------------------
(* What a step does to each part of the state.                             *)

\* Every RedisUser keeps its life, its name and its version.
SameObjects ==
    \A c \in Users : /\ user'[c].life = user[c].life /\ user'[c].name = user[c].name
                     /\ user'[c].version = user[c].version

LEMMA WriteStatusEffect ==
    ASSUME TypeOK, pass.cur \in Users, NEW ph, NEW applied, WriteStatus(ph, applied)
    PROVE  /\ SameObjects
           /\ \A c \in Users : user'[c] # user[c] =>
                 /\ c = pass.cur /\ user[c].life = "live" /\ user[c].version = pass.version
                 /\ user'[c].phase = ph /\ user'[c].observed = pass.version
                 /\ user'[c].appliedTo = applied
<1>1. CASE user' = user
  BY <1>1 DEF SameObjects
<1>2. CASE user' = [user EXCEPT ![pass.cur] = [@ EXCEPT !.phase = ph, !.observed = pass.version,
                                                        !.appliedTo = applied]]
           /\ user[pass.cur].life = "live" /\ user[pass.cur].version = pass.version
  <2>1. \A c \in Users : c # pass.cur => user'[c] = user[c]
    BY <1>2 DEF TypeOK
  <2>2. user'[pass.cur] = [user[pass.cur] EXCEPT !.phase = ph, !.observed = pass.version,
                                                 !.appliedTo = applied]
    BY <1>2 DEF TypeOK
  <2>3. /\ user'[pass.cur].life = user[pass.cur].life
        /\ user'[pass.cur].name = user[pass.cur].name
        /\ user'[pass.cur].version = user[pass.cur].version
        /\ user'[pass.cur].phase = ph /\ user'[pass.cur].observed = pass.version
        /\ user'[pass.cur].appliedTo = applied
    <3>1. user[pass.cur] \in UserType
      BY DEF TypeOK
    <3> QED
      BY <2>2, <3>1 DEF UserType
  <2> QED
    BY <1>2, <2>1, <2>3 DEF SameObjects
<1> QED
  BY <1>1, <1>2 DEF WriteStatus

LEMMA StartEffect ==
    ASSUME TypeOK, NEW c \in Users, Start(c)
    PROVE  /\ SameObjects
           /\ \A d \in Users : user'[d] # user[d] =>
                 /\ d = c
                 /\ \/ user'[d].phase \in {"Error", "Degraded"}
                    \/ /\ user'[d].phase = user[d].phase /\ user'[d].observed = user[d].observed
                       /\ user'[d].appliedTo = user[d].appliedTo
<1> DEFINE x == user[c]
           held == [x EXCEPT !.finalizer = TRUE]
           ended == [held EXCEPT !.observed = x.version,
                                 !.phase = IF Manageable(x.name) THEN "Error" ELSE "Degraded"]
<1>1. x \in UserType
  BY DEF TypeOK
<1>2. /\ held \in UserType /\ held.life = x.life /\ held.name = x.name
      /\ held.version = x.version /\ held.phase = x.phase /\ held.observed = x.observed
      /\ held.appliedTo = x.appliedTo
  BY <1>1 DEF UserType
<1>3. /\ ended.life = x.life /\ ended.name = x.name /\ ended.version = x.version
      /\ ended.phase \in {"Error", "Degraded"}
  BY <1>2 DEF UserType
<1>4. user' = [user EXCEPT ![c] = held] \/ user' = [user EXCEPT ![c] = ended]
  BY DEF Start
<1>5. (\A d \in Users : d # c => user'[d] = user[d]) /\ (user'[c] = held \/ user'[c] = ended)
  BY <1>4 DEF TypeOK
<1> HIDE DEF held, ended
<1> QED
  BY <1>2, <1>3, <1>5 DEF SameObjects

LEMMA FinalizerEffect ==
    ASSUME TypeOK, PassShape, RemoveFinalizer
    PROVE  \A c \in Users : IF c = pass.cur
                            THEN user'[c].life = "absent" /\ user'[c].version = user[c].version
                                 /\ user'[c].observed = 0
                            ELSE user'[c] = user[c]
<1>1. pass.cur \in Users
  BY DEF RemoveFinalizer, PassShape
<1>2. user[pass.cur] \in UserType
  BY <1>1 DEF TypeOK
<1>3. user'[pass.cur] = [user[pass.cur] EXCEPT !.life = "absent", !.finalizer = FALSE,
                            !.phase = "New", !.observed = 0, !.appliedTo = {}]
  BY <1>1 DEF RemoveFinalizer, TypeOK
<1>4. \A c \in Users : c # pass.cur => user'[c] = user[c]
  BY <1>1 DEF RemoveFinalizer, TypeOK
<1> QED
  BY ZenonT(60), <1>2, <1>3, <1>4 DEF UserType

LEMMA DeclareEffect ==
    ASSUME TypeOK, NEW c \in Users, NEW u \in Names, Declare(c, u)
    PROVE  /\ user'[c].life = "live" /\ user'[c].name = u /\ user'[c].version = issued + 1
           /\ user'[c].observed = user[c].observed
           /\ \A d \in Users \ {c} : user'[d] = user[d]
<1>1. user[c] \in UserType
  BY DEF TypeOK
<1>2. user'[c] = [user[c] EXCEPT !.life = "live", !.name = u, !.version = issued']
  BY DEF Declare, TypeOK
<1>3. issued' = issued + 1 /\ \A d \in Users \ {c} : user'[d] = user[d]
  BY DEF Declare, TypeOK
<1> QED
  BY <1>1, <1>2, <1>3 DEF UserType

LEMMA DeleteEffect ==
    ASSUME TypeOK, NEW c \in Users, Delete(c)
    PROVE  /\ user'[c].life \in {"absent", "deleting"} /\ user'[c].name = user[c].name
           /\ user'[c].version = user[c].version /\ user'[c].observed = user[c].observed
           /\ \A d \in Users \ {c} : user'[d] = user[d]
<1>1. user[c] \in UserType
  BY DEF TypeOK
<1>2. user'[c] = [user[c] EXCEPT !.life = IF user[c].finalizer THEN "deleting" ELSE "absent"]
  BY DEF Delete, TypeOK
<1>3. \A d \in Users \ {c} : user'[d] = user[d]
  BY DEF Delete, TypeOK
<1> QED
  BY <1>1, <1>2, <1>3 DEF UserType

\* The steps that add, remove or edit a RedisUser.
LEMMA ObjectChanges ==
    ASSUME TypeOK, PassShape, [Next]_vars
    PROVE  \/ SameObjects
           \/ RemoveFinalizer
           \/ \E c \in Users : Delete(c) \/ \E u \in Names : Declare(c, u)
<1>1. UNCHANGED user => SameObjects
  BY DEF SameObjects
<1>2. CASE UserPass
  <2>1. ASSUME NEW c \in Users, Start(c) PROVE SameObjects
    BY <2>1, StartEffect
  <2>2. CASE EnsureACLOwner
    <3>1. pass.cur \in Users
      BY <2>2 DEF EnsureACLOwner, PassShape
    <3> QED
      BY <1>1, <2>2, <3>1, WriteStatusEffect DEF EnsureACLOwner, ReportError
  <2>3. CASE Report
    <3>1. pass.cur \in Users
      BY <2>3 DEF Report, PassShape
    <3> QED
      BY <2>3, <3>1, WriteStatusEffect DEF Report
  <2> QED
    BY <1>1, <1>2, <2>1, <2>2, <2>3
    DEF UserPass, PassOf, Cleanup, SetUser, DelUser, SaveUser, SaveDeletion, Disown
<1>3. CASE PrunePass
  BY <1>1, <1>3 DEF PrunePass, ReadOwners, Enumerate, ListUsers, SavePruned, DropOwners, PruneNode
<1>4. CASE Environment
  BY <1>1, <1>4 DEF Environment, Restart, Boot, BecomeReady, LoseReadiness, RemoveCluster,
                    RecreateCluster, Crash
<1> QED
  BY <1>1, <1>2, <1>3, <1>4 DEF Next, vars

\* The steps that touch the pass of the RedisUser reconciler.
LEMMA PassChanges ==
    ASSUME [Next]_vars
    PROVE  UNCHANGED pass \/ UserPass \/ Crash
  BY DEF Next, vars, PrunePass, ReadOwners, Enumerate, ListUsers, SavePruned, DropOwners,
         PruneNode, Environment, Delete, Declare, Restart, Boot, BecomeReady, LoseReadiness,
         RemoveCluster, RecreateCluster

\* The steps that touch the prune pass.
LEMMA PruneChanges ==
    ASSUME [Next]_vars
    PROVE  UNCHANGED prune \/ PrunePass \/ Crash
  BY DEF Next, vars, UserPass, PassOf, Start, Cleanup, EnsureACLOwner, SetUser, DelUser, SaveUser, Report,
         SaveDeletion, Disown, RemoveFinalizer, Environment, Delete, Declare, Restart, Boot,
         BecomeReady, LoseReadiness, RemoveCluster, RecreateCluster

\* The steps that touch what the nodes have in memory or on disk.
LEMMA AccountChanges ==
    ASSUME [Next]_vars
    PROVE  \/ UNCHANGED <<live, saved>>
           \/ \E n \in Nodes : SetUser(n) \/ DelUser(n) \/ PruneNode(n) \/ Restart(n)
           \/ SaveUser \/ SaveDeletion \/ SavePruned \/ RemoveCluster
<1> USE DEF clusterVars
<1>1. CASE UserPass
  BY <1>1 DEF UserPass, PassOf, Start, Cleanup, EnsureACLOwner, Report, Disown, RemoveFinalizer
<1>2. CASE PrunePass
  BY <1>2 DEF PrunePass, ReadOwners, Enumerate, ListUsers, DropOwners
<1>3. CASE Environment
  BY <1>3 DEF Environment, Delete, Declare, Boot, BecomeReady, LoseReadiness, RecreateCluster, Crash
<1> QED
  BY <1>1, <1>2, <1>3 DEF Next, vars

\* The steps that touch the ownership record.
LEMMA RecordChanges ==
    ASSUME [Next]_vars
    PROVE  UNCHANGED record \/ EnsureACLOwner \/ Disown \/ DropOwners
<1>1. CASE UserPass
  BY <1>1 DEF UserPass, PassOf, Start, Cleanup, SetUser, DelUser, SaveUser, Report, SaveDeletion,
              RemoveFinalizer
<1>2. CASE PrunePass
  BY <1>2 DEF PrunePass, ReadOwners, Enumerate, ListUsers, SavePruned, PruneNode
<1>3. CASE Environment
  BY <1>3 DEF Environment, Delete, Declare, Restart, Boot, BecomeReady, LoseReadiness,
              RemoveCluster, RecreateCluster, Crash
<1> QED
  BY <1>1, <1>2, <1>3 DEF Next, vars

\* Names a RedisUser declared stay known, and what slipped stays known.
LEMMA HistoryGrows ==
    ASSUME [Next]_vars
    PROVE  ever \subseteq ever' /\ slipped \subseteq slipped'
<1> USE DEF history
<1>1. CASE UserPass
  BY <1>1 DEF UserPass, PassOf, Start, Cleanup, EnsureACLOwner, SetUser, DelUser, SaveUser, Report,
              SaveDeletion, Disown, RemoveFinalizer
<1>2. CASE PrunePass
  BY <1>2 DEF PrunePass, ReadOwners, Enumerate, ListUsers, SavePruned, DropOwners, PruneNode
<1>3. CASE Environment
  BY <1>3 DEF Environment, Delete, Declare, Restart, Boot, BecomeReady, LoseReadiness,
              RemoveCluster, RecreateCluster, Crash
<1> QED
  BY <1>1, <1>2, <1>3 DEF Next, vars

\* The steps of the loops over the pods change the cursor only.
LEMMA LoopEffect ==
    ASSUME TypeOK
    PROVE  /\ \A n, stage : Visit(n, stage) =>
                 /\ pass'.pc = stage /\ pass'.at = n /\ pass'.done = pass.done
                 /\ pass'.cur = pass.cur /\ pass'.name = pass.name
                 /\ pass'.version = pass.version /\ pass'.listed = pass.listed
           /\ \A n : Skip(n) =>
                 /\ pass'.pc = pass.pc /\ pass'.at = pass.at /\ pass'.done = pass.done
                 /\ pass'.cur = pass.cur /\ pass'.name = pass.name
                 /\ pass'.version = pass.version /\ pass'.listed = pass.listed
           /\ \A stage, ok : Leave(stage, ok) =>
                 /\ pass'.pc = stage /\ pass'.at = Nowhere
                 /\ pass'.done = IF ok THEN pass.done \cup {pass.at} ELSE pass.done
                 /\ pass'.cur = pass.cur /\ pass'.name = pass.name
                 /\ pass'.version = pass.version /\ pass'.listed = pass.listed
  BY DEF TypeOK, PassType, Visit, Skip, Leave

LEMMA StartPass ==
    ASSUME TypeOK, NEW c \in Users, Start(c)
    PROVE  /\ pass.pc = "idle"
           /\ \/ UNCHANGED pass
              \/ /\ pass'.pc = "own" /\ pass'.cur = c /\ pass'.name = user[c].name
                 /\ pass'.version = user[c].version /\ pass'.at = Nowhere /\ pass'.done = {}
                 /\ Manageable(user[c].name)
  BY DEF Start, NoPass

LEMMA CleanupPass ==
    ASSUME TypeOK, NEW c \in Users, Cleanup(c)
    PROVE  /\ pass.pc = "idle" /\ user[c].life = "deleting" /\ UNCHANGED user
           /\ pass'.cur = c /\ pass'.name = user[c].name /\ pass'.version = user[c].version
           /\ pass'.at = Nowhere /\ pass'.done = {}
           /\ \/ pass'.pc = "release"
              \/ /\ pass'.pc = "del" /\ pass'.listed = Ready /\ Manageable(user[c].name)
<1> DEFINE read == [NoPass EXCEPT !.cur = c, !.name = user[c].name, !.version = user[c].version]
<1>1. /\ read \in PassType /\ read.cur = c /\ read.name = user[c].name
      /\ read.version = user[c].version /\ read.at = Nowhere /\ read.done = {}
  <2>1. user[c].name \in Names /\ user[c].version \in 0..MaxVersion
    BY DEF TypeOK, UserType
  <2>2. NoPass \in PassType /\ NoPass.at = Nowhere /\ NoPass.done = {}
    BY IdleTypes DEF NoPass
  <2> QED
    BY <2>1, <2>2 DEF PassType
<1> HIDE DEF read
<1>2. CASE pass' = [read EXCEPT !.pc = "release"]
  BY <1>1, <1>2 DEF Cleanup, PassType
<1>3. CASE /\ pass' = [read EXCEPT !.pc = "del", !.listed = Ready, !.todo = Ready]
           /\ Manageable(user[c].name)
  BY <1>1, <1>3 DEF Cleanup, PassType
<1> QED
  BY <1>2, <1>3 DEF Cleanup, read

\* An idle pass stays idle, or starts on a RedisUser.
LEMMA IdlePass ==
    /\ NoPass.pc = "idle" /\ NoPass.at = Nowhere /\ NoPass.done = {} /\ NoPass.version = 0
    /\ NoPrune.pc = "idle" /\ NoPrune.at = Nowhere /\ NoPrune.orphans = {}
    /\ NoPrune.owners = {} /\ NoPrune.reached = {} /\ NoPrune.todo = {}
    /\ \A n \in Nodes : NoPrune.held[n] = {}
  BY DEF NoPass, NoPrune

-----------------------------------------------------------------------------
(* Shapes: where the passes are.                                           *)

LEMMA PassShapeKept ==
    ASSUME TypeOK, PassShape, [Next]_vars
    PROVE  PassShape'
<1> USE DEF PassShape
<1>1. CASE UNCHANGED pass
  <2>1. ASSUME pass.pc \in {"del", "delsave", "release"}
        PROVE  user'[pass.cur].life = "deleting" /\ user'[pass.cur].name = pass.name
    <3>1. pass.cur \in Users /\ user[pass.cur].life = "deleting" /\ user[pass.cur].name = pass.name
      BY <2>1
    <3>2. CASE SameObjects
      BY <3>1, <3>2 DEF SameObjects
    <3>3. CASE RemoveFinalizer
      BY <1>1, <3>3, IdlePass DEF RemoveFinalizer
    <3>4. ASSUME NEW c \in Users, NEW u \in Names, Declare(c, u)
          PROVE  user'[pass.cur] = user[pass.cur]
      BY <3>1, <3>4, DeclareEffect DEF Declare
    <3>5. ASSUME NEW c \in Users, Delete(c)
          PROVE  user'[pass.cur] = user[pass.cur]
      BY <3>1, <3>5, DeleteEffect DEF Delete
    <3> QED
      BY <3>1, <3>2, <3>3, <3>4, <3>5, ObjectChanges
  <2> QED
    BY <1>1, <2>1
<1>2. CASE UserPass
  <2>1. ASSUME NEW c \in Users, Start(c) PROVE PassShape'
    BY <2>1, StartPass
  <2>2. ASSUME NEW c \in Users, Cleanup(c) PROVE PassShape'
    BY <2>2, CleanupPass
  <2>3. CASE EnsureACLOwner
    BY <2>3, IdlePass DEF EnsureACLOwner, ReportError, TypeOK, PassType
  <2>4. ASSUME NEW n \in Nodes, SetUser(n) \/ DelUser(n) PROVE PassShape'
    BY <2>4, LoopEffect DEF SetUser, DelUser
  <2>5. CASE SaveUser
    <3>1. pass'.pc = "set" /\ pass'.cur = pass.cur
      BY <2>5, LoopEffect DEF SaveUser
    <3> QED
      BY <2>5, <3>1 DEF SaveUser
  <2>8. CASE SaveDeletion
    <3>1. pass'.pc = "del" /\ pass'.cur = pass.cur /\ pass'.name = pass.name /\ UNCHANGED user
      BY <2>8, LoopEffect DEF SaveDeletion
    <3> QED
      BY <2>8, <3>1 DEF SaveDeletion
  <2>6. CASE Disown
    BY <2>6, IdlePass DEF Disown, TypeOK, PassType
  <2>7. CASE Report \/ RemoveFinalizer
    BY <2>7, IdlePass DEF Report, RemoveFinalizer
  <2> QED
    BY <1>2, <2>1, <2>2, <2>3, <2>4, <2>5, <2>6, <2>7, <2>8 DEF UserPass, PassOf
<1>3. CASE Crash
  BY <1>3, IdlePass DEF Crash
<1> QED
  BY <1>1, <1>2, <1>3, PassChanges

LEMMA PruneShapeKept ==
    ASSUME TypeOK, PruneShape, [Next]_vars
    PROVE  PruneShape'
<1> USE DEF PruneShape
<1>1. CASE UNCHANGED prune
  BY <1>1
<1>2. CASE PrunePass
  <2>1. CASE ReadOwners
    BY <2>1 DEF ReadOwners, NoPrune
  <2>2. ASSUME NEW n \in Nodes, Enumerate(n) PROVE PruneShape'
    <3>1. /\ prune'.pc = "enumerate" /\ prune'.at = prune.at /\ prune.pc = "enumerate"
          /\ prune'.orphans = prune.orphans /\ prune'.owners = prune.owners
          /\ prune.held \in [Nodes -> SUBSET Names]
          /\ \/ prune'.reached = prune.reached /\ prune'.held = prune.held
             \/ /\ prune'.reached = prune.reached \cup {n}
                /\ prune'.held = [prune.held EXCEPT ![n] = {u \in prune.owners :
                                                              live[n][u] # Absent}]
      BY <2>2 DEF Enumerate, TypeOK, PruneType
    <3>2. \A m \in Nodes : prune'.held[m] # {} => m \in prune'.reached
      BY <3>1
    <3> QED
      BY <3>1, <3>2
  <2>3. CASE ListUsers
    <3>1. CASE prune' = NoPrune
      BY <3>1, IdlePass
    <3>2. ASSUME NEW orphans \in SUBSET prune.owners,
                 prune' = [prune EXCEPT !.pc = "del", !.orphans = orphans,
                                        !.todo = prune.reached]
          PROVE  PruneShape'
      BY <2>3, <3>2 DEF ListUsers, TypeOK, PruneType
    <3> QED
      BY <2>3, <3>1, <3>2 DEF ListUsers
  <2>4. CASE SavePruned
    BY <2>4 DEF SavePruned, TypeOK, PruneType
  <2>5. CASE DropOwners
    BY <2>5, IdlePass DEF DropOwners
  <2>6. ASSUME NEW n \in Nodes, PruneNode(n) PROVE PruneShape'
    <3>0. /\ prune \in PruneType /\ prune.pc = "del" /\ prune.at = Nowhere
      BY <2>6 DEF PruneNode, NextToPrune, TypeOK
    <3>1. CASE prune' = [prune EXCEPT !.todo = @ \ {n}]
      BY <3>0, <3>1 DEF PruneType
    <3>2. CASE prune' = [prune EXCEPT !.pc = "save", !.at = n, !.todo = @ \ {n}]
      BY <3>0, <3>2 DEF PruneType
    <3>3. CASE prune' = [prune EXCEPT !.todo = @ \ {n}, !.clean = FALSE]
      BY <3>0, <3>3 DEF PruneType
    <3> QED
      BY <2>6, <3>1, <3>2, <3>3 DEF PruneNode
  <2> QED
    BY <1>2, <2>1, <2>2, <2>3, <2>4, <2>5, <2>6 DEF PrunePass
<1>3. CASE Crash
  BY <1>3, IdlePass DEF Crash
<1> QED
  BY <1>1, <1>2, <1>3, PruneChanges

LEMMA DistinctKept ==
    ASSUME TypeOK, PassShape, Distinct, [Next]_vars
    PROVE  Distinct'
<1>1. CASE SameObjects
  BY <1>1 DEF SameObjects, Distinct
<1>2. CASE RemoveFinalizer
  BY <1>2, FinalizerEffect DEF Distinct
<1>3. ASSUME NEW c \in Users, NEW u \in Names, Declare(c, u) PROVE Distinct'
  <2>1. user'[c].life = "live" /\ user'[c].name = u /\ \A d \in Users \ {c} : user'[d] = user[d]
    BY <1>3, DeclareEffect
  <2>2. \A d \in Users \ {c} : user[d].life = "absent" \/ user[d].name # u
    BY <1>3 DEF Declare
  <2> QED
    BY <2>1, <2>2 DEF Distinct
<1>4. ASSUME NEW c \in Users, Delete(c) PROVE Distinct'
  BY <1>4, DeleteEffect DEF Distinct, Delete
<1> QED
  BY <1>1, <1>2, <1>3, <1>4, ObjectChanges

LEMMA ShapeKept ==
    ASSUME TypeOK, ShapeInv, [Next]_vars
    PROVE  ShapeInv'
  BY PassShapeKept, PruneShapeKept, DistinctKept DEF ShapeInv

-----------------------------------------------------------------------------
(* Names: only accounts of declared names are ever touched.                *)

LEMMA PassNameKept ==
    ASSUME TypeOK, PassShape, NameInv, [Next]_vars,
           pass'.pc \in {"own", "set", "save", "del", "delsave"}
    PROVE  pass'.name \in ever' \ {Default}
<1> USE HistoryGrows DEF NameInv
<1>1. CASE UNCHANGED pass
  BY <1>1
<1>2. CASE UserPass
  <2>1. ASSUME NEW c \in Users, Start(c) PROVE pass'.name \in ever' \ {Default}
    BY <2>1, StartPass DEF Start, Manageable
  <2>2. ASSUME NEW c \in Users, Cleanup(c) PROVE pass'.name \in ever' \ {Default}
    BY <2>2, CleanupPass DEF Manageable
  <2>3. CASE EnsureACLOwner
    BY <2>3, IdlePass DEF EnsureACLOwner, ReportError, TypeOK, PassType
  <2>4. ASSUME NEW n \in Nodes, SetUser(n) \/ DelUser(n) PROVE pass'.name \in ever' \ {Default}
    <3>1. pass'.name = pass.name
      BY <2>4, LoopEffect DEF SetUser, DelUser
    <3> QED
      BY <2>4, <3>1 DEF SetUser, DelUser
  <2>5. CASE SaveUser \/ SaveDeletion
    <3>1. pass'.name = pass.name
      BY <2>5, LoopEffect DEF SaveUser, SaveDeletion
    <3> QED
      BY <2>5, <3>1 DEF SaveUser, SaveDeletion
  <2>6. CASE Report \/ Disown \/ RemoveFinalizer
    BY <2>6, IdlePass DEF Report, Disown, RemoveFinalizer, TypeOK, PassType
  <2> QED
    BY <1>2, <2>1, <2>2, <2>3, <2>4, <2>5, <2>6 DEF UserPass, PassOf
<1>3. CASE Crash
  BY <1>3, IdlePass DEF Crash
<1> QED
  BY <1>1, <1>2, <1>3, PassChanges

LEMMA PruneNamesKept ==
    ASSUME TypeOK, PruneShape, NameInv, [Next]_vars
    PROVE  prune'.owners \subseteq ever' \cup {Default} /\ prune'.orphans \subseteq ever' \ {Default}
<1> USE HistoryGrows DEF NameInv
<1>1. CASE UNCHANGED prune
  BY <1>1
<1>2. CASE PrunePass
  <2>1. CASE ReadOwners
    <3>1. prune'.owners = record /\ prune'.orphans = {}
      BY <2>1 DEF ReadOwners, NoPrune
    <3> QED
      BY <3>1
  <2>2. CASE \E n \in Nodes : Enumerate(n)
    <3>1. prune'.owners = prune.owners /\ prune'.orphans = prune.orphans
      BY <2>2 DEF Enumerate, TypeOK, PruneType
    <3> QED
      BY <3>1
  <2>3. CASE ListUsers
    <3>1. CASE prune' = NoPrune
      BY <3>1, IdlePass
    <3>2. ASSUME NEW orphans \in SUBSET (prune.owners \ {Default}),
                 prune' = [prune EXCEPT !.pc = "del", !.orphans = orphans,
                                        !.todo = prune.reached]
          PROVE  prune'.owners = prune.owners /\ prune'.orphans = orphans
      BY <3>2 DEF TypeOK, PruneType
    <3> QED
      <4> DEFINE orphans == {u \in prune.owners : Manageable(u) /\ u \notin Declared}
      <4>1. orphans \in SUBSET (prune.owners \ {Default})
        BY DEF Manageable
      <4>2. prune' = NoPrune \/ prune' = [prune EXCEPT !.pc = "del", !.orphans = orphans,
                                                       !.todo = prune.reached]
        BY <2>3 DEF ListUsers
      <4> QED
        BY <3>1, <3>2, <4>1, <4>2
  <2>4. CASE SavePruned
    <3>1. prune'.owners = prune.owners /\ prune'.orphans = prune.orphans
      BY <2>4 DEF SavePruned, TypeOK, PruneType
    <3> QED
      BY <3>1
  <2>5. CASE DropOwners
    BY <2>5, IdlePass DEF DropOwners
  <2>6. ASSUME NEW n \in Nodes, PruneNode(n)
        PROVE  prune'.owners = prune.owners /\ prune'.orphans = prune.orphans
    BY <2>6 DEF PruneNode, TypeOK, PruneType
  <2> QED
    BY <1>2, <2>1, <2>2, <2>3, <2>4, <2>5, <2>6 DEF PrunePass
<1>3. CASE Crash
  BY <1>3, IdlePass DEF Crash
<1> QED
  BY <1>1, <1>2, <1>3, PruneChanges

LEMMA ObjectNamesKept ==
    ASSUME TypeOK, PassShape, NameInv, [Next]_vars, NEW c \in Users, user'[c].life # "absent"
    PROVE  user'[c].name \in ever'
<1> USE HistoryGrows DEF NameInv
<1>1. CASE SameObjects
  BY <1>1 DEF SameObjects
<1>2. CASE RemoveFinalizer
  BY <1>2, FinalizerEffect
<1>3. ASSUME NEW d \in Users, NEW u \in Names, Declare(d, u) PROVE user'[c].name \in ever'
  <2>1. CASE c = d
    <3>1. user'[d].name = u
      BY <1>3, DeclareEffect
    <3>2. ever' = ever \cup {u}
      BY <1>3 DEF Declare
    <3> QED
      BY <2>1, <3>1, <3>2
  <2>2. CASE c # d
    BY <1>3, <2>2, DeclareEffect
  <2> QED
    BY <2>1, <2>2
<1>4. ASSUME NEW d \in Users, Delete(d) PROVE user'[c].name \in ever'
  <2>1. CASE c = d
    BY <1>4, <2>1, DeleteEffect DEF Delete
  <2>2. CASE c # d
    BY <1>4, <2>2, DeleteEffect
  <2> QED
    BY <2>1, <2>2
<1> QED
  BY <1>1, <1>2, <1>3, <1>4, ObjectChanges

\* What a step leaves of an account: in memory it is kept, set or removed by a pass, or
\* read again from the aclfile; on disk it is kept or replaced by what is in memory.
LEMMA AccountEffect ==
    ASSUME TypeOK, ShapeInv, [Next]_vars, NEW n \in Nodes, NEW u \in Names
    PROVE  /\ \/ live'[n][u] = live[n][u]
              \/ SetUser(n) /\ u = pass.name /\ live'[n][u] = pass.version
              \/ DelUser(n) /\ u = pass.name /\ live'[n][u] = Absent
              \/ PruneNode(n) /\ u \in Doomed(n) /\ live'[n][u] = Absent
              \/ (Restart(n) \/ RemoveCluster) /\ live'[n][u] = IF u = Default THEN Hand
                                                                  ELSE saved[n][u]
           /\ \/ saved'[n][u] = saved[n][u]
              \/ /\ \/ (SaveUser \/ SaveDeletion) /\ pass.at = n
                    \/ SavePruned /\ prune.at = n
                 /\ saved'[n][u] = live[n][u] /\ live'[n][u] = live[n][u]
<1> USE DEF TypeOK
<1>1. pass.name \in Names
  BY DEF PassType
<1>2. \A m \in Nodes : Reload(m)[u] = IF u = Default THEN Hand ELSE saved[m][u]
  BY UsersAssumption DEF Reload
<1>3. CASE UNCHANGED <<live, saved>>
  BY <1>3
<1>4. ASSUME NEW m \in Nodes, SetUser(m)
      PROVE  /\ UNCHANGED saved
             /\ \/ live'[n][u] = live[n][u]
                \/ n = m /\ u = pass.name /\ live'[n][u] = pass.version
  BY <1>1, <1>4 DEF SetUser
<1>5. ASSUME NEW m \in Nodes, DelUser(m)
      PROVE  /\ UNCHANGED saved
             /\ \/ live'[n][u] = live[n][u]
                \/ n = m /\ u = pass.name /\ live'[n][u] = Absent
  BY <1>1, <1>5 DEF DelUser
<1>6. ASSUME NEW m \in Nodes, PruneNode(m)
      PROVE  /\ UNCHANGED saved
             /\ \/ live'[n][u] = live[n][u]
                \/ n = m /\ u \in Doomed(n) /\ live'[n][u] = Absent
  BY <1>6 DEF PruneNode
<1>7. ASSUME NEW m \in Nodes, Restart(m)
      PROVE  /\ UNCHANGED saved
             /\ \/ live'[n][u] = live[n][u]
                \/ n = m /\ live'[n][u] = IF u = Default THEN Hand ELSE saved[n][u]
  BY <1>2, <1>7 DEF Restart
<1>8. CASE RemoveCluster
  BY <1>2, <1>8 DEF RemoveCluster
<1>9. CASE SaveUser
  <2>1. pass.at \in Nodes /\ UNCHANGED live
    BY <1>9 DEF SaveUser, ShapeInv, PassShape
  <2>2. UNCHANGED saved \/ saved' = [saved EXCEPT ![pass.at] = live[pass.at]]
    BY <1>9 DEF SaveUser
  <2> QED
    BY <1>9, <2>1, <2>2
<1>10. CASE SaveDeletion
  <2>1. pass.at \in Nodes /\ UNCHANGED live
    BY <1>10 DEF SaveDeletion, ShapeInv, PassShape
  <2>2. UNCHANGED saved \/ saved' = [saved EXCEPT ![pass.at] = live[pass.at]]
    BY <1>10 DEF SaveDeletion
  <2> QED
    BY <1>10, <2>1, <2>2
<1>11. CASE SavePruned
  BY <1>11 DEF SavePruned, ShapeInv, PruneShape
<1> QED
  BY <1>3, <1>4, <1>5, <1>6, <1>7, <1>8, <1>9, <1>10, <1>11, AccountChanges

LEMMA NamesKept ==
    ASSUME TypeOK, ShapeInv, NameInv, [Next]_vars
    PROVE  NameInv'
<1>1. record' \subseteq ever' \cup {Default}
  BY RecordChanges, HistoryGrows DEF NameInv, EnsureACLOwner, Disown, DropOwners
<1>2. ASSUME NEW n \in Nodes, NEW u \in Names, u \notin ever' \ {Default}
      PROVE  live'[n][u] = Volume(n)[u] /\ saved'[n][u] = Volume(n)[u]
  <2>1. u \notin ever \ {Default}
    BY <1>2, HistoryGrows
  <2>2. live[n][u] = Volume(n)[u] /\ saved[n][u] = Volume(n)[u]
    BY <2>1 DEF NameInv
  <2>3. ~(SetUser(n) /\ u = pass.name) /\ ~(DelUser(n) /\ u = pass.name) /\ u \notin Doomed(n)
    BY <2>1 DEF NameInv, SetUser, DelUser, Doomed
  <2>4. u = Default => Volume(n)[u] = Hand
    BY DEF Volume
  <2> QED
    BY <2>2, <2>3, <2>4, AccountEffect
<1> QED
  BY <1>1, <1>2, PassNameKept, PruneNamesKept, ObjectNamesKept DEF NameInv, ShapeInv, Volume

LEMMA VersionsKept ==
    ASSUME TypeOK, ShapeInv, VersionInv, [Next]_vars
    PROVE  VersionInv'
<1>1. issued \in Nat /\ issued' \in Nat /\ issued <= issued'
  <2>1. \/ UNCHANGED issued
        \/ \E c \in Users, u \in Names : Declare(c, u)
    <3>1. CASE UserPass
      BY <3>1 DEF UserPass, PassOf, Start, Cleanup, EnsureACLOwner, SetUser, DelUser, SaveUser, Report,
                  SaveDeletion, Disown, RemoveFinalizer
    <3>2. CASE PrunePass
      BY <3>2 DEF PrunePass, ReadOwners, Enumerate, ListUsers, SavePruned, DropOwners, PruneNode
    <3>3. CASE Environment
      BY <3>3 DEF Environment, Delete, Restart, Boot, BecomeReady, LoseReadiness, RemoveCluster,
                  RecreateCluster, Crash
    <3> QED
      BY <3>1, <3>2, <3>3 DEF Next, vars
  <2> QED
    <3>1. issued \in Nat
      BY UsersAssumption DEF TypeOK
    <3>2. issued' = issued \/ issued' = issued + 1
      BY <2>1 DEF Declare
    <3> QED
      BY <3>1, <3>2
<1>2. ASSUME NEW c \in Users
      PROVE  user[c].version \in Nat /\ user[c].observed \in Nat
  BY <1>2, UsersAssumption DEF TypeOK, UserType
<1>3. pass.version \in Nat /\ pass.version <= issued
  BY UsersAssumption DEF TypeOK, PassType, VersionInv
<1>4. \A c \in Users : user'[c].version <= issued'
  <2>1. CASE SameObjects
    BY <1>1, <1>2, <2>1 DEF SameObjects, VersionInv
  <2>2. CASE RemoveFinalizer
    BY <1>1, <1>2, <2>2, FinalizerEffect DEF VersionInv, ShapeInv
  <2>3. ASSUME NEW d \in Users, NEW u \in Names, Declare(d, u)
        PROVE  \A c \in Users : user'[c].version <= issued'
    <3>1. issued' = issued + 1
      BY <2>3 DEF Declare
    <3> QED
      BY <1>1, <1>2, <2>3, <3>1, DeclareEffect DEF VersionInv
  <2>4. ASSUME NEW d \in Users, Delete(d) PROVE \A c \in Users : user'[c].version <= issued'
    BY <1>1, <1>2, <2>4, DeleteEffect DEF VersionInv
  <2> QED
    BY <2>1, <2>2, <2>3, <2>4, ObjectChanges DEF ShapeInv
<1>6. pass'.version <= issued'
  <2>1. pass'.version = pass.version \/ pass' = NoPass
        \/ \E c \in Users : pass'.version = user[c].version
    <3>1. CASE UNCHANGED pass
      BY <3>1
    <3>2. CASE UserPass
      <4>1. ASSUME NEW c \in Users, Start(c) \/ Cleanup(c)
            PROVE  pass'.version = pass.version \/ pass'.version = user[c].version
        BY <4>1, StartPass, CleanupPass
      <4>2. CASE EnsureACLOwner \/ Report \/ RemoveFinalizer
        BY <4>2 DEF EnsureACLOwner, ReportError, Report, RemoveFinalizer, TypeOK, PassType
      <4>3. CASE Disown
        BY <4>3 DEF Disown, TypeOK, PassType
      <4>4. CASE SaveUser \/ SaveDeletion
        BY <4>4, LoopEffect DEF SaveUser, SaveDeletion
      <4>5. ASSUME NEW n \in Nodes, SetUser(n) \/ DelUser(n) PROVE pass'.version = pass.version
        BY <4>5, LoopEffect DEF SetUser, DelUser
      <4> QED
        BY <3>2, <4>1, <4>2, <4>3, <4>4, <4>5 DEF UserPass, PassOf
    <3>3. CASE Crash
      BY <3>3 DEF Crash
    <3> QED
      BY <3>1, <3>2, <3>3, PassChanges
  <2> QED
    BY <1>1, <1>2, <1>3, <2>1, IdlePass DEF VersionInv
<1>8. \A c \in Users : user'[c].life # "absent" => user'[c].version > 0
  <2>1. \A c \in Users : user[c].life # "absent" => user[c].version > 0
    BY DEF VersionInv
  <2>2. CASE SameObjects
    BY <2>1, <2>2 DEF SameObjects
  <2>3. CASE RemoveFinalizer
    BY <2>1, <2>3, FinalizerEffect DEF ShapeInv
  <2>4. ASSUME NEW d \in Users, NEW u \in Names, Declare(d, u), NEW c \in Users,
               user'[c].life # "absent"
        PROVE  user'[c].version > 0
    <3>1. CASE c = d
      BY <1>1, <2>4, <3>1, DeclareEffect
    <3>2. CASE c # d
      BY <2>1, <2>4, <3>2, DeclareEffect
    <3> QED
      BY <3>1, <3>2
  <2>5. ASSUME NEW d \in Users, Delete(d), NEW c \in Users, user'[c].life # "absent"
        PROVE  user'[c].version > 0
    <3>1. CASE c = d
      BY <2>1, <2>5, <3>1, DeleteEffect DEF Delete
    <3>2. CASE c # d
      BY <2>1, <2>5, <3>2, DeleteEffect
    <3> QED
      BY <3>1, <3>2
  <2> QED
    BY <2>2, <2>3, <2>4, <2>5, ObjectChanges DEF ShapeInv
<1>9. ASSUME pass'.pc \in {"own", "set", "save"} PROVE pass'.version > 0
  <2>1. pass.pc \in {"own", "set", "save"} => pass.version > 0
    BY DEF VersionInv
  <2>2. CASE UNCHANGED pass
    BY <1>9, <2>1, <2>2
  <2>3. CASE UserPass
    <3>1. ASSUME NEW c \in Users, Start(c) PROVE pass'.version > 0
      BY <1>9, <3>1, StartPass DEF VersionInv, Start
    <3>2. ASSUME NEW c \in Users, Cleanup(c) PROVE FALSE
      BY <1>9, <3>2, CleanupPass
    <3>3. CASE EnsureACLOwner \/ Report \/ RemoveFinalizer
      BY <1>9, <2>1, <3>3, IdlePass
      DEF EnsureACLOwner, ReportError, Report, RemoveFinalizer, TypeOK, PassType
    <3>4. CASE Disown
      BY <1>9, <3>4, IdlePass DEF Disown, TypeOK, PassType
    <3>5. CASE SaveUser \/ SaveDeletion
      <4>1. pass'.version = pass.version /\ (SaveDeletion => pass'.pc = "del")
        BY <3>5, LoopEffect DEF SaveUser, SaveDeletion
      <4> QED
        BY <1>9, <2>1, <3>5, <4>1 DEF SaveUser
    <3>6. ASSUME NEW n \in Nodes, SetUser(n) \/ DelUser(n) PROVE pass'.version > 0
      <4>1. pass'.version = pass.version /\ (DelUser(n) => pass'.pc \in {"del", "delsave"})
        BY <3>6, LoopEffect DEF SetUser, DelUser
      <4> QED
        BY <1>9, <2>1, <3>6, <4>1 DEF SetUser
    <3> QED
      BY <2>3, <3>1, <3>2, <3>3, <3>4, <3>5, <3>6 DEF UserPass, PassOf
  <2>4. CASE Crash
    BY <1>9, <2>4, IdlePass DEF Crash
  <2> QED
    BY <2>2, <2>3, <2>4, PassChanges
<1>5. \A c \in Users : user'[c].observed <= issued'
  <2>1. \A c \in Users : user[c].observed <= issued
    BY DEF VersionInv
  <2>2. CASE UNCHANGED user
    BY <1>1, <1>2, <2>1, <2>2
  <2>3. ASSUME NEW c \in Users, Start(c) PROVE \A d \in Users : user'[d].observed <= issued'
    <3>1. user' = [user EXCEPT ![c] = [user[c] EXCEPT !.finalizer = TRUE]]
          \/ user' = [user EXCEPT ![c] = [[user[c] EXCEPT !.finalizer = TRUE] EXCEPT
               !.observed = user[c].version,
               !.phase = IF Manageable(user[c].name) THEN "Error" ELSE "Degraded"]]
      BY <2>3 DEF Start
    <3>2. \A d \in Users : user'[d].observed \in {user[d].observed, user[d].version}
      <4>1. user[c] \in UserType
        BY DEF TypeOK
      <4>2. \A d \in Users : d # c => user'[d] = user[d]
        BY <3>1 DEF TypeOK
      <4>3. \/ user'[c] = [user[c] EXCEPT !.finalizer = TRUE]
            \/ user'[c] = [[user[c] EXCEPT !.finalizer = TRUE] EXCEPT !.observed = user[c].version,
                 !.phase = IF Manageable(user[c].name) THEN "Error" ELSE "Degraded"]
        BY <3>1 DEF TypeOK
      <4>4. user'[c].observed \in {user[c].observed, user[c].version}
        BY <4>1, <4>3 DEF UserType
      <4> QED
        BY <4>2, <4>4
    <3> QED
      BY <1>1, <1>2, <2>1, <3>2 DEF VersionInv
  <2>4. CASE EnsureACLOwner \/ Report
    <3>1. pass.cur \in Users
      BY <2>4 DEF EnsureACLOwner, Report, ShapeInv, PassShape
    <3>2. UNCHANGED user \/ \E ph, applied : WriteStatus(ph, applied)
      BY <2>4 DEF EnsureACLOwner, Report, ReportError
    <3>3. \A d \in Users : user'[d].observed \in {user[d].observed, pass.version}
      BY <3>1, <3>2, WriteStatusEffect
    <3> QED
      BY <1>1, <1>2, <1>3, <2>1, <3>3
  <2>5. CASE RemoveFinalizer
    BY <1>1, <1>2, <2>1, <2>5, FinalizerEffect DEF ShapeInv
  <2>6. ASSUME NEW c \in Users, NEW u \in Names, Declare(c, u)
        PROVE  \A d \in Users : user'[d].observed <= issued'
    BY <1>1, <1>2, <2>1, <2>6, DeclareEffect
  <2>7. ASSUME NEW c \in Users, Delete(c) PROVE \A d \in Users : user'[d].observed <= issued'
    BY <1>1, <1>2, <2>1, <2>7, DeleteEffect
  <2>8. CASE UserPass
    BY <2>2, <2>3, <2>4, <2>5, <2>8
    DEF UserPass, PassOf, Cleanup, SetUser, DelUser, SaveUser, SaveDeletion, Disown
  <2>9. CASE PrunePass
    BY <2>2, <2>9 DEF PrunePass, ReadOwners, Enumerate, ListUsers, SavePruned, DropOwners, PruneNode
  <2>10. CASE Environment
    BY <2>2, <2>6, <2>7, <2>10 DEF Environment, Restart, Boot, BecomeReady, LoseReadiness,
                                   RemoveCluster, RecreateCluster, Crash
  <2> QED
    BY <2>2, <2>8, <2>9, <2>10 DEF Next, vars
<1>7. ASSUME NEW n \in Nodes, NEW u \in Names
      PROVE  live'[n][u] <= issued' /\ saved'[n][u] <= issued'
  <2>1. live[n][u] \in Int /\ saved[n][u] \in Int
    BY UsersAssumption DEF TypeOK, Accounts
  <2>2. live[n][u] <= issued /\ saved[n][u] <= issued
    BY DEF VersionInv
  <2> QED
    BY <1>1, <1>3, <2>1, <2>2, AccountEffect DEF Hand, Absent
<1> QED
  BY <1>4, <1>5, <1>6, <1>7, <1>8, <1>9 DEF VersionInv

-----------------------------------------------------------------------------
(* The prune pass.                                                         *)

LEMMA AccountsAreInts ==
    ASSUME TypeOK, NEW n \in Nodes, NEW u \in Names
    PROVE  live[n][u] \in Int /\ saved[n][u] \in Int
  BY UsersAssumption DEF TypeOK, Accounts

LEMMA DefaultIsHand ==
    ASSUME NameInv, NEW n \in Nodes
    PROVE  live[n][Default] = Hand /\ saved[n][Default] = Hand
  BY UsersAssumption DEF NameInv, Volume

\* What the prune pass keeps of its findings once it has them.
LEMMA FindingsKept ==
    ASSUME TypeOK, [Next]_vars, prune'.pc # "idle"
    PROVE  \/ \E n \in Nodes : Enumerate(n)
           \/ prune'.pc = "enumerate" /\ prune'.reached = {}
           \/ /\ prune.pc # "idle"
              /\ prune'.owners = prune.owners /\ prune'.reached = prune.reached
              /\ prune'.held = prune.held
              /\ \/ ListUsers /\ prune'.pc = "del" /\ prune'.todo = prune.reached
                 \/ /\ prune'.pc \in {"del", "save"} /\ prune.pc \in {"del", "save"}
                    /\ prune'.orphans = prune.orphans /\ (prune'.clean => prune.clean)
                 \/ UNCHANGED prune
<1> USE DEF TypeOK, PruneType
<1>1. CASE ReadOwners \/ DropOwners \/ Crash
  BY <1>1, IdlePass DEF ReadOwners, DropOwners, Crash, NoPrune
<1>2. CASE ListUsers
  <2>1. ASSUME NEW orphans,
               prune' = [prune EXCEPT !.pc = "del", !.orphans = orphans, !.todo = prune.reached]
        PROVE  /\ prune'.pc = "del" /\ prune'.owners = prune.owners /\ prune'.held = prune.held
               /\ prune'.reached = prune.reached /\ prune'.todo = prune.reached
    BY <2>1
  <2>2. prune' # NoPrune
    BY IdlePass
  <2>3. \E orphans :
           prune' = [prune EXCEPT !.pc = "del", !.orphans = orphans, !.todo = prune.reached]
    BY <1>2, <2>2 DEF ListUsers
  <2> QED
    BY <1>2, <2>1, <2>3 DEF ListUsers
<1>3. CASE SavePruned
  BY <1>3 DEF SavePruned
<1>4. ASSUME NEW n \in Nodes, PruneNode(n)
      PROVE  /\ prune.pc = "del" /\ prune'.pc \in {"del", "save"}
             /\ prune'.owners = prune.owners /\ prune'.reached = prune.reached
             /\ prune'.held = prune.held /\ prune'.orphans = prune.orphans
             /\ (prune'.clean => prune.clean)
  BY <1>4 DEF PruneNode
<1> QED
  BY <1>1, <1>2, <1>3, <1>4, PruneChanges DEF PrunePass

\* An unsaved deletion on a node that loses its memory, or whose pass is lost, slips.
LEMMA UnsavedSlips ==
    ASSUME TypeOK, NEW n \in Nodes, NEW u \in Names,
           Deleting(n, u) \/ Pruning(n, u) \/ (pass.at = n /\ pass.name = u),
           Restart(n) \/ RemoveCluster \/ Crash
    PROVE  <<n, u>> \in slipped'
<1>1. <<n, u>> \in Unsaved(n)
  BY DEF Unsaved, Deleting, Pruning
<1> QED
  BY <1>1, UnsavedType DEF Restart, RemoveCluster, Crash

\* A deletion stays unsaved until it is saved or has slipped.
LEMMA DeletingKept ==
    ASSUME TypeOK, ShapeInv, [Next]_vars, NEW n \in Nodes, NEW u \in Names,
           <<n, u>> \notin slipped', Deleting(n, u)
    PROVE  \/ Deleting(n, u)'
           \/ SaveDeletion /\ saved'[n][u] = live[n][u]
<1>1. CASE UNCHANGED pass
  BY <1>1 DEF Deleting
<1>2. CASE UserPass
  <2>1. SaveDeletion
    BY <1>2 DEF Deleting, UserPass, PassOf, Start, Cleanup, EnsureACLOwner, SetUser, DelUser, SaveUser,
                Report, Disown, RemoveFinalizer
  <2>2. <<n, u>> \in Unsaved(n) /\ pass.at = n
    BY DEF Deleting, Unsaved
  <2>3. saved' = [saved EXCEPT ![n] = live[n]]
    BY <2>1, <2>2 DEF SaveDeletion
  <2> QED
    BY <2>1, <2>3 DEF TypeOK
<1>3. CASE Crash
  BY <1>3, UnsavedSlips
<1> QED
  BY <1>1, <1>2, <1>3, PassChanges

LEMMA PruningKept ==
    ASSUME TypeOK, ShapeInv, [Next]_vars, NEW n \in Nodes, NEW u \in Names,
           <<n, u>> \notin slipped', Pruning(n, u)
    PROVE  \/ Pruning(n, u)'
           \/ SavePruned /\ saved'[n][u] = live[n][u]
<1>1. CASE UNCHANGED prune
  BY <1>1 DEF Pruning, Doomed
<1>2. CASE PrunePass
  <2>1. prune.pc = "save"
    BY UsersAssumption DEF Pruning, ShapeInv, PruneShape, Nowhere, Nodes
  <2>2. SavePruned
    BY <1>2, <2>1 DEF PrunePass, ReadOwners, Enumerate, ListUsers, DropOwners, PruneNode
  <2>3. <<n, u>> \in Unsaved(n) /\ prune.at = n
    BY DEF Pruning, Unsaved
  <2>4. saved' = [saved EXCEPT ![n] = live[n]]
    BY <2>2, <2>3 DEF SavePruned
  <2> QED
    BY <2>2, <2>4 DEF TypeOK
<1>3. CASE Crash
  BY <1>3, UnsavedSlips
<1> QED
  BY <1>1, <1>2, <1>3, PruneChanges

LEMMA NoGhostKept ==
    ASSUME TypeOK, ShapeInv, NameInv, VersionInv, PruneInv, [Next]_vars,
           NEW n \in Nodes, NEW u \in Names, <<n, u>> \notin slipped'
    PROVE  NoGhost(n, u)'
<1> SUFFICES ASSUME live'[n][u] <= 0, saved'[n][u] > 0
             PROVE  Deleting(n, u)' \/ Pruning(n, u)'
  BY DEF NoGhost
<1>1. live[n][u] \in Int /\ saved[n][u] \in Int
  BY AccountsAreInts
<1>2. NoGhost(n, u)
  BY HistoryGrows DEF PruneInv
<1>3. saved'[n][u] = saved[n][u]
  BY <1>1, AccountEffect
<1>4. CASE live'[n][u] = live[n][u]
  <2>1. Deleting(n, u) \/ Pruning(n, u)
    BY <1>2, <1>3, <1>4 DEF NoGhost
  <2> QED
    BY <1>1, <1>3, <1>4, <2>1, DeletingKept, PruningKept
<1>5. CASE live'[n][u] # live[n][u]
  <2>1. CASE SetUser(n) /\ u = pass.name /\ live'[n][u] = pass.version
    BY <2>1 DEF SetUser, VersionInv, TypeOK, PassType
  <2>2. CASE DelUser(n) /\ u = pass.name
    <3>1. Visit(n, "delsave")
      BY <1>5, <2>2 DEF DelUser
    <3> QED
      BY <2>2, <3>1, LoopEffect DEF Deleting
  <2>3. CASE PruneNode(n) /\ u \in Doomed(n)
    <3>1. prune' = [prune EXCEPT !.pc = "save", !.at = n, !.todo = @ \ {n}]
      BY <1>5, <2>3 DEF PruneNode
    <3>2. prune'.at = n /\ prune'.orphans = prune.orphans /\ prune'.held = prune.held
      BY <3>1 DEF TypeOK, PruneType
    <3> QED
      BY <2>3, <3>2 DEF Pruning, Doomed
  <2>4. CASE live'[n][u] = IF u = Default THEN Hand ELSE saved[n][u]
    BY <1>1, <1>3, <2>4, DefaultIsHand DEF Hand
  <2> QED
    BY <1>5, <2>1, <2>2, <2>3, <2>4, AccountEffect
<1> QED
  BY <1>4, <1>5

\* On a node that the prune pass has enumerated, a removed account stays removed.
LEMMA StaysRemoved ==
    ASSUME TypeOK, ShapeInv, NameInv, PruneInv, [Next]_vars, NEW n \in Nodes, NEW u \in Names,
           <<n, u>> \notin slipped', n \in prune.reached, live[n][u] <= 0
    PROVE  live'[n][u] <= 0
<1>1. live[n][u] \in Int /\ saved[n][u] \in Int
  BY AccountsAreInts
<1>2. CASE SetUser(n) /\ u = pass.name /\ live'[n][u] # live[n][u]
  BY <1>2 DEF SetUser
<1>3. CASE (Restart(n) \/ RemoveCluster) /\ live'[n][u] = IF u = Default THEN Hand ELSE saved[n][u]
  <2>1. CASE saved[n][u] > 0
    <3>1. Deleting(n, u) \/ Pruning(n, u)
      BY <2>1, HistoryGrows DEF PruneInv, NoGhost
    <3> QED
      BY <1>3, <3>1, UnsavedSlips
  <2> QED
    BY <1>1, <1>3, <2>1 DEF Hand
<1> QED
  BY <1>2, <1>3, AccountEffect DEF Absent

LEMMA SeenKept ==
    ASSUME TypeOK, ShapeInv, NameInv, PruneInv, [Next]_vars,
           NEW n \in Nodes, NEW u \in Names, <<n, u>> \notin slipped'
    PROVE  Seen(n, u)'
<1> SUFFICES ASSUME prune'.pc # "idle", n \in prune'.reached,
                    u \in prune'.owners, u \notin prune'.held[n]
             PROVE  live'[n][u] <= 0
  BY DEF Seen
<1>1. ASSUME NEW m \in Nodes, Enumerate(m)
      PROVE  live'[n][u] <= 0
  <2>1. /\ prune.pc = "enumerate" /\ UNCHANGED live /\ prune'.owners = prune.owners
        /\ \/ prune'.reached = prune.reached /\ prune'.held = prune.held
           \/ /\ prune'.reached = prune.reached \cup {m}
              /\ prune'.held = [prune.held EXCEPT ![m] = {v \in prune.owners :
                                                            live[m][v] # Absent}]
    BY <1>1 DEF Enumerate, clusterVars, TypeOK, PruneType
  <2>2. CASE n \in prune.reached /\ u \notin prune.held[n]
    BY <2>1, <2>2, HistoryGrows DEF PruneInv, Seen
  <2>3. CASE live[n][u] = Absent
    BY <2>1, <2>3 DEF Absent
  <2> QED
    BY <2>1, <2>2, <2>3 DEF TypeOK, PruneType
<1>2. CASE ~\E m \in Nodes : Enumerate(m)
  <2>1. /\ prune.pc # "idle" /\ n \in prune.reached
        /\ u \in prune.owners /\ u \notin prune.held[n]
    BY <1>2, FindingsKept
  <2>2. live[n][u] <= 0
    BY <2>1, HistoryGrows DEF PruneInv, Seen
  <2> QED
    BY <2>1, <2>2, StaysRemoved
<1> QED
  BY <1>1, <1>2

LEMMA ClearedKept ==
    ASSUME TypeOK, ShapeInv, NameInv, PruneInv, [Next]_vars,
           NEW n \in Nodes, NEW u \in Names, <<n, u>> \notin slipped'
    PROVE  Cleared(n, u)'
<1> SUFFICES ASSUME prune'.pc \in {"del", "save"}, prune'.clean,
                    n \in prune'.reached \ prune'.todo, u \in prune'.orphans
             PROVE  live'[n][u] <= 0
  BY DEF Cleared
<1>1. Seen(n, u) /\ Cleared(n, u)
  BY HistoryGrows DEF PruneInv
<1>2. ~\E m \in Nodes : Enumerate(m)
  BY DEF Enumerate, TypeOK, PruneType
<1>3. /\ prune.pc \in {"del", "save"} /\ n \in prune.reached /\ u \in prune.orphans
      /\ prune.clean /\ u \in prune.owners
  BY <1>2, FindingsKept DEF ShapeInv, PruneShape
<1>4. CASE n \notin prune.todo
  <2>1. live[n][u] <= 0
    BY <1>1, <1>3, <1>4 DEF Cleared
  <2> QED
    BY <1>3, <2>1, StaysRemoved
<1>5. CASE n \in prune.todo
  <2>1. PruneNode(n)
    <3>1. prune' # prune
      BY <1>5
    <3>2. CASE PrunePass
      <4>1. ~SavePruned
        BY <1>5 DEF SavePruned, TypeOK, PruneType
      <4>2. ~DropOwners
        BY IdlePass DEF DropOwners
      <4>3. ASSUME NEW m \in Nodes, PruneNode(m) PROVE m = n
        <5>1. prune'.todo = prune.todo \ {m}
          BY <4>3 DEF PruneNode, TypeOK, PruneType
        <5> QED
          BY <1>5, <5>1
      <4> QED
        BY <1>2, <1>3, <3>2, <4>1, <4>2, <4>3 DEF PrunePass, ReadOwners, ListUsers
    <3>3. CASE Crash
      BY <3>3, IdlePass DEF Crash
    <3> QED
      BY <3>1, <3>2, <3>3, PruneChanges
  <2>2. CASE u \in Doomed(n)
    <3>1. live' = [live EXCEPT ![n] = [v \in Names |-> IF v \in Doomed(n) THEN Absent
                                                       ELSE live[n][v]]]
      BY <2>1, <2>2 DEF PruneNode, TypeOK, PruneType
    <3> QED
      BY <2>2, <3>1 DEF TypeOK, Absent
  <2>3. CASE u \notin Doomed(n)
    <3>1. live[n][u] <= 0
      BY <1>1, <1>3, <2>3 DEF Doomed, Seen
    <3> QED
      BY <1>3, <3>1, StaysRemoved
  <2> QED
    BY <2>2, <2>3
<1> QED
  BY <1>4, <1>5

LEMMA PruneKept ==
    ASSUME TypeOK, ShapeInv, NameInv, VersionInv, PruneInv, [Next]_vars
    PROVE  PruneInv'
  BY NoGhostKept, SeenKept, ClearedKept DEF PruneInv

-----------------------------------------------------------------------------
(* The ownership record.                                                   *)

\* A complete prune pass has looked at every node.
LEMMA CompleteIsAll ==
    ASSUME TypeOK, Complete
    PROVE  prune.reached = Nodes
<1>1. IsFiniteSet(Nodes) /\ Cardinality(Nodes) = Size
  BY FS_Interval, UsersAssumption DEF Nodes
<1>2. prune.addrs \subseteq Nodes
  BY DEF TypeOK, PruneType
<1>3. Cardinality(prune.addrs) <= Cardinality(Nodes)
      /\ (Cardinality(prune.addrs) = Cardinality(Nodes) => prune.addrs = Nodes)
  BY <1>1, <1>2, FS_Subset
<1>4. Cardinality(prune.addrs) \in Nat /\ Cardinality(prune.addrs) >= Size
  BY <1>1, <1>2, FS_Subset, FS_CardinalityType DEF Complete
<1> QED
  BY <1>1, <1>3, <1>4, UsersAssumption DEF Complete

\* Who forgets a name, and what it knows then.
LEMMA ForgetEffect ==
    ASSUME TypeOK, ShapeInv, PruneInv, RecordInv, [Next]_vars,
           NEW n \in Nodes, NEW u \in Names, <<n, u>> \notin slipped', u \in record \ record'
    PROVE  /\ UNCHANGED <<live, saved>> /\ live[n][u] <= 0
           /\ saved[n][u] > 0 => Deleting(n, u)'
           /\ ~(pass'.pc \in {"set", "save"} /\ pass'.name = u)
<1>1. <<n, u>> \notin slipped
  BY HistoryGrows
<1>2. CASE Disown
  <2>1. /\ u = pass.name /\ pass.done = pass.listed /\ pass.pc = "del"
        /\ pass' = [pass EXCEPT !.pc = "release"]
        /\ n \notin pass.listed => ~(live[n][u] > 0 \/ saved[n][u] > 0)
    BY <1>2 DEF Disown
  <2>2. live[n][u] <= 0 /\ saved[n][u] <= 0
    BY <1>1, <2>1, AccountsAreInts DEF RecordInv, Emptied
  <2>3. pass'.pc = "release"
    BY <2>1 DEF TypeOK, PassType
  <2> QED
    BY <1>2, <2>2, <2>3, AccountsAreInts DEF Disown, clusterVars
<1>3. CASE DropOwners
  <2>1. /\ u \in prune.orphans /\ Complete /\ prune.pc = "del" /\ prune.todo = {}
        /\ UNCHANGED <<live, saved, pass>>
        /\ slipped' = slipped \cup (Nodes \X (prune.orphans \cap
                          (IF pass.pc \in {"set", "save"} THEN {pass.name} ELSE {})))
    BY <1>3 DEF DropOwners, clusterVars
  <2>2. n \in prune.reached /\ prune.clean
    BY <2>1, CompleteIsAll DEF Complete
  <2>3. live[n][u] <= 0
    BY <1>1, <2>1, <2>2 DEF PruneInv, Cleared
  <2>4. ~Pruning(n, u)
    BY <2>1, UsersAssumption DEF ShapeInv, PruneShape, Pruning, Nowhere, Nodes
  <2>5. saved[n][u] > 0 => Deleting(n, u)
    BY <1>1, <2>3, <2>4 DEF PruneInv, NoGhost
  <2>6. Deleting(n, u) => Deleting(n, u)'
    BY <2>1 DEF Deleting
  <2>7. ~(pass.pc \in {"set", "save"} /\ pass.name = u)
    BY <2>1
  <2> QED
    BY <2>1, <2>3, <2>5, <2>6, <2>7
<1> QED
  BY <1>2, <1>3, RecordChanges DEF EnsureACLOwner

LEMMA LiveRecordedKept ==
    ASSUME TypeOK, ShapeInv, NameInv, PruneInv, RecordInv, [Next]_vars,
           NEW n \in Nodes, NEW u \in Names, <<n, u>> \notin slipped'
    PROVE  LiveRecorded(n, u)'
<1> SUFFICES ASSUME live'[n][u] > 0
             PROVE  u \in record'
  BY DEF LiveRecorded
<1>0. live[n][u] \in Int /\ saved[n][u] \in Int
  BY AccountsAreInts
<1>1. LiveRecorded(n, u) /\ SavedRecorded(n, u) /\ SetRecorded(u)
  BY HistoryGrows DEF RecordInv
<1>2. u \in record
  <2>1. CASE live'[n][u] = live[n][u]
    BY <1>1, <2>1 DEF LiveRecorded
  <2>2. CASE SetUser(n) /\ u = pass.name
    BY <1>1, <2>2 DEF SetUser, SetRecorded
  <2>3. CASE (Restart(n) \/ RemoveCluster) /\ live'[n][u] = IF u = Default THEN Hand
                                                           ELSE saved[n][u]
    <3>1. saved[n][u] > 0
      BY <2>3 DEF Hand
    <3> QED
      BY <1>1, <2>3, <3>1, UnsavedSlips DEF SavedRecorded
  <2> QED
    BY <2>1, <2>2, <2>3, AccountEffect DEF Absent
<1> QED
  BY <1>0, <1>2, ForgetEffect

LEMMA SavedRecordedKept ==
    ASSUME TypeOK, ShapeInv, NameInv, PruneInv, RecordInv, [Next]_vars,
           NEW n \in Nodes, NEW u \in Names, <<n, u>> \notin slipped'
    PROVE  SavedRecorded(n, u)'
<1> SUFFICES ASSUME saved'[n][u] > 0
             PROVE  u \in record' \/ Deleting(n, u)'
  BY DEF SavedRecorded
<1>0. live[n][u] \in Int /\ saved[n][u] \in Int
  BY AccountsAreInts
<1>1. LiveRecorded(n, u) /\ SavedRecorded(n, u) /\ Emptied(n, u)
  BY HistoryGrows DEF RecordInv
<1>2. u \in record \/ Deleting(n, u)
  BY <1>1, AccountEffect DEF LiveRecorded, SavedRecorded
<1>3. CASE Deleting(n, u)
  <2>1. live[n][u] <= 0
    BY <1>1, <1>3 DEF Emptied, Deleting
  <2> QED
    BY <1>0, <1>3, <2>1, DeletingKept
<1>4. CASE u \in record \ record'
  BY <1>4, ForgetEffect
<1> QED
  BY <1>2, <1>3, <1>4

LEMMA SetRecordedKept ==
    ASSUME TypeOK, ShapeInv, PruneInv, RecordInv, [Next]_vars,
           NEW n \in Nodes, NEW u \in Names, <<n, u>> \notin slipped'
    PROVE  SetRecorded(u)'
<1> SUFFICES ASSUME pass'.pc \in {"set", "save"}, pass'.name = u
             PROVE  u \in record'
  BY DEF SetRecorded
<1>1. SetRecorded(u)
  BY HistoryGrows DEF RecordInv
<1>2. CASE EnsureACLOwner
  <2>1. record' = record \cup {pass.name} /\ pass' = [pass EXCEPT !.pc = "set"]
    BY <1>2, IdlePass DEF EnsureACLOwner, ReportError
  <2> QED
    BY <2>1 DEF TypeOK, PassType
<1>3. CASE ~EnsureACLOwner
  <2>1. pass.pc \in {"set", "save"} /\ pass.name = u
    <3>1. CASE UNCHANGED pass
      BY <3>1
    <3>2. CASE UserPass
      <4>1. ASSUME NEW c \in Users, Start(c) \/ Cleanup(c) PROVE FALSE
        BY <4>1, StartPass, CleanupPass
      <4>2. CASE Report \/ Disown \/ RemoveFinalizer
        BY <4>2, IdlePass DEF Report, Disown, RemoveFinalizer, TypeOK, PassType
      <4>3. ASSUME NEW m \in Nodes, SetUser(m) \/ DelUser(m)
            PROVE  pass.pc = "set" /\ pass'.name = pass.name
        BY <4>3, LoopEffect DEF SetUser, DelUser
      <4>4. CASE SaveUser \/ SaveDeletion
        BY <4>4, LoopEffect DEF SaveUser, SaveDeletion
      <4> QED
        BY <1>3, <3>2, <4>1, <4>2, <4>3, <4>4 DEF UserPass, PassOf
    <3>3. CASE Crash
      BY <3>3, IdlePass DEF Crash
    <3> QED
      BY <3>1, <3>2, <3>3, PassChanges
  <2> QED
    BY <1>1, <2>1, ForgetEffect DEF SetRecorded
<1> QED
  BY <1>2, <1>3

LEMMA EmptiedKept ==
    ASSUME TypeOK, ShapeInv, NameInv, VersionInv, PruneInv, RecordInv, [Next]_vars,
           NEW n \in Nodes, NEW u \in Names, <<n, u>> \notin slipped'
    PROVE  Emptied(n, u)'
<1> SUFFICES ASSUME pass'.pc \in {"del", "delsave"}, pass'.name = u
             PROVE  /\ n \in pass'.done => live'[n][u] <= 0 /\ saved'[n][u] <= 0
                    /\ Deleting(n, u)' => live'[n][u] <= 0
  BY DEF Emptied
<1>0. live[n][u] \in Int /\ saved[n][u] \in Int
  BY AccountsAreInts
<1>1. Emptied(n, u)
  BY HistoryGrows DEF RecordInv
<1>2. ASSUME NEW c \in Users, Cleanup(c)
      PROVE  pass'.done = {} /\ ~Deleting(n, u)'
  <2>1. pass'.pc = "del" /\ pass'.done = {}
    BY <1>2, CleanupPass
  <2> QED
    BY <2>1 DEF Deleting
<1>3. CASE pass.pc \in {"del", "delsave"} /\ pass.name = u /\ \A m : ~SetUser(m)
  <2>2. ASSUME n \in pass.done PROVE live'[n][u] <= 0 /\ saved'[n][u] <= 0
    <3>1. live[n][u] <= 0 /\ saved[n][u] <= 0
      BY <1>1, <1>3, <2>2 DEF Emptied
    <3> QED
      BY <1>0, <1>3, <3>1, AccountEffect DEF Absent, Hand
  <2>3. ASSUME Deleting(n, u) PROVE live'[n][u] <= 0
    <3>1. live[n][u] <= 0
      BY <1>1, <1>3, <2>3 DEF Emptied
    <3> QED
      BY <1>3, <2>3, <3>1, AccountEffect, UnsavedSlips DEF Absent
  <2>4. CASE UNCHANGED pass
    BY <2>2, <2>3, <2>4 DEF Deleting
  <2>5. ASSUME NEW m \in Nodes, DelUser(m)
        PROVE  pass'.done = pass.done /\ (Deleting(n, u)' => live'[n][u] <= 0)
    <3>1. CASE Skip(m)
      <4>1. pass'.done = pass.done /\ pass'.pc = "del"
        BY <2>5, <3>1, LoopEffect DEF DelUser
      <4> QED
        BY <4>1 DEF Deleting
    <3>2. CASE Visit(m, "delsave") /\ live' = [live EXCEPT ![m][pass.name] = Absent]
      <4>1. pass'.done = pass.done /\ pass'.at = m
        BY <3>2, LoopEffect
      <4>2. n = m => live'[n][u] = 0
        BY <1>3, <3>2 DEF TypeOK, Absent
      <4> QED
        BY <4>1, <4>2 DEF Deleting
    <3> QED
      BY <2>5, <3>1, <3>2 DEF DelUser
  <2>6. CASE SaveDeletion
    <3>1. pass.pc = "delsave" /\ pass.at \in Nodes
      BY <2>6 DEF SaveDeletion, ShapeInv, PassShape
    <3>2. pass'.pc = "del" /\ UNCHANGED live
      BY <2>6, LoopEffect DEF SaveDeletion
    <3>3. CASE Leave("del", TRUE) /\ saved' = [saved EXCEPT ![pass.at] = live[pass.at]]
      <4>1. pass'.done = pass.done \cup {pass.at}
        BY <3>3, LoopEffect
      <4>2. n = pass.at => live'[n][u] <= 0 /\ saved'[n][u] <= 0
        <5>1. n = pass.at => Deleting(n, u)
          BY <1>3, <3>1 DEF Deleting
        <5>2. n = pass.at => saved'[n][u] = live[n][u]
          BY <3>3 DEF TypeOK
        <5> QED
          BY <1>1, <1>3, <3>2, <5>1, <5>2 DEF Emptied
      <4> QED
        BY <2>2, <3>2, <4>1, <4>2 DEF Deleting
    <3>4. CASE Leave("del", FALSE)
      <4>1. pass'.done = pass.done
        BY <3>4, LoopEffect
      <4> QED
        BY <2>2, <3>2, <4>1 DEF Deleting
    <3> QED
      BY <2>6, <3>3, <3>4 DEF SaveDeletion
  <2>7. CASE UserPass
    <3>1. CASE \E c \in Users : Start(c) \/ Cleanup(c)
      BY <1>3, <3>1 DEF Start, Cleanup
    <3>2. CASE EnsureACLOwner \/ SaveUser \/ Report \/ RemoveFinalizer
      BY <1>3, <3>2 DEF EnsureACLOwner, SaveUser, Report, RemoveFinalizer
    <3>3. CASE Disown
      BY <3>3, IdlePass DEF Disown, TypeOK, PassType
    <3> QED
      BY <1>3, <2>2, <2>5, <2>6, <2>7, <3>1, <3>2, <3>3 DEF UserPass, PassOf
  <2>8. CASE Crash
    BY <2>8, IdlePass DEF Crash
  <2> QED
    BY <2>4, <2>7, <2>8, PassChanges
<1>4. CASE UNCHANGED pass
  BY <1>3, <1>4 DEF SetUser
<1>5. CASE UserPass
  <2>1. ASSUME NEW c \in Users, Start(c) PROVE FALSE
    BY <2>1, StartPass
  <2>2. CASE EnsureACLOwner
    BY <2>2, IdlePass DEF EnsureACLOwner, ReportError, TypeOK, PassType
  <2>3. CASE Report \/ RemoveFinalizer \/ Disown
    BY <2>3, IdlePass DEF Report, RemoveFinalizer, Disown, TypeOK, PassType
  <2>4. ASSUME NEW m \in Nodes, SetUser(m) PROVE FALSE
    BY <2>4, LoopEffect DEF SetUser
  <2>5. CASE SaveUser
    <3>1. pass'.pc = "set"
      BY <2>5, LoopEffect DEF SaveUser
    <3> QED
      BY <3>1
  <2>6. ASSUME NEW m \in Nodes, DelUser(m)
        PROVE  pass.pc \in {"del", "delsave"} /\ pass.name = u /\ \A l : ~SetUser(l)
    BY <2>6, LoopEffect DEF DelUser, SetUser
  <2>7. CASE SaveDeletion
    <3>1. pass.pc \in {"del", "delsave"} /\ pass.name = u /\ \A l : ~SetUser(l)
      BY <2>7, LoopEffect DEF SaveDeletion, SetUser
    <3> QED
      BY <1>3, <3>1
  <2> QED
    BY <1>2, <1>3, <1>5, <2>1, <2>2, <2>3, <2>4, <2>5, <2>6, <2>7 DEF UserPass, PassOf
<1>6. CASE Crash
  BY <1>6, IdlePass DEF Crash
<1> QED
  BY <1>4, <1>5, <1>6, PassChanges

LEMMA RecordKept ==
    ASSUME TypeOK, ShapeInv, NameInv, VersionInv, PruneInv, RecordInv, [Next]_vars
    PROVE  RecordInv'
  BY LiveRecordedKept, SavedRecordedKept, SetRecordedKept, EmptiedKept DEF RecordInv

-----------------------------------------------------------------------------
(* What status says.                                                       *)

\* The steps that touch a RedisUser.
LEMMA UserChanges ==
    ASSUME [Next]_vars
    PROVE  \/ UNCHANGED user
           \/ EnsureACLOwner \/ Report \/ RemoveFinalizer
           \/ \E c \in Users : Start(c) \/ Delete(c) \/ \E u \in Names : Declare(c, u)
<1>1. CASE UserPass
  BY <1>1 DEF UserPass, PassOf, Cleanup, SetUser, DelUser, SaveUser, SaveDeletion, Disown
<1>2. CASE PrunePass
  BY <1>2 DEF PrunePass, ReadOwners, Enumerate, ListUsers, SavePruned, DropOwners, PruneNode
<1>3. CASE Environment
  BY <1>3 DEF Environment, Restart, Boot, BecomeReady, LoseReadiness, RemoveCluster,
              RecreateCluster, Crash
<1> QED
  BY <1>1, <1>2, <1>3 DEF Next, vars

LEMMA VersionsAreNats ==
    ASSUME TypeOK
    PROVE  /\ issued \in Nat /\ pass.version \in Nat
           /\ \A c \in Users : user[c].version \in Nat /\ user[c].observed \in Nat
  BY UsersAssumption DEF TypeOK, PassType, UserType

\* A live RedisUser was live before with its name and version, or was just declared.
LEMMA LiveBefore ==
    ASSUME TypeOK, ShapeInv, [Next]_vars, NEW c \in Users, user'[c].life = "live"
    PROVE  \/ /\ user[c].life = "live" /\ user'[c].name = user[c].name
              /\ user'[c].version = user[c].version
           \/ /\ user'[c].version = issued + 1 /\ user'[c].observed = user[c].observed
              /\ UNCHANGED <<pass, prune, live, saved>>
<1>1. CASE SameObjects
  BY <1>1 DEF SameObjects
<1>2. CASE RemoveFinalizer
  BY <1>2, FinalizerEffect DEF ShapeInv
<1>3. ASSUME NEW d \in Users, NEW u \in Names, Declare(d, u)
      PROVE  \/ user'[c] = user[c]
             \/ /\ user'[c].version = issued + 1 /\ user'[c].observed = user[c].observed
                /\ UNCHANGED <<pass, prune, live, saved>>
  <2>1. UNCHANGED <<pass, prune, live, saved>>
    BY <1>3 DEF Declare, clusterVars
  <2> QED
    BY <1>3, <2>1, DeclareEffect
<1>4. ASSUME NEW d \in Users, Delete(d) PROVE user'[c] = user[c]
  BY <1>4, DeleteEffect
<1> QED
  BY <1>1, <1>2, <1>3, <1>4, ObjectChanges DEF ShapeInv

\* Status becomes Ready for the present version at the end of a pass that applied it.
LEMMA ReadyBefore ==
    ASSUME TypeOK, ShapeInv, VersionInv, [Next]_vars, NEW c \in Users, ReportedReady(c)'
    PROVE  /\ user[c].life = "live" /\ user'[c].name = user[c].name
           /\ user'[c].version = user[c].version
           /\ \/ ReportedReady(c) /\ user'[c].appliedTo = user[c].appliedTo
              \/ Report /\ Applying(c) /\ user'[c].appliedTo = pass.done
<1>0. /\ user'[c].life = "live" /\ user'[c].phase = "Ready"
      /\ user'[c].observed = user'[c].version
  BY DEF ReportedReady
<1>1. /\ user[c].life = "live" /\ user'[c].name = user[c].name
      /\ user'[c].version = user[c].version
  BY <1>0, LiveBefore, VersionsAreNats DEF VersionInv
<1>2. CASE user'[c] = user[c]
  BY <1>0, <1>1, <1>2 DEF ReportedReady
<1>3. CASE user'[c] # user[c]
  <2>1. CASE EnsureACLOwner
    <3>1. pass.cur \in Users /\ WriteStatus("Error", user[pass.cur].appliedTo)
      BY <1>3, <2>1 DEF EnsureACLOwner, ReportError, ShapeInv, PassShape
    <3> QED
      BY <1>0, <1>3, <3>1, WriteStatusEffect
  <2>2. CASE Report
    <3>1. /\ pass.cur \in Users /\ pass.pc = "set"
          /\ WriteStatus(IF pass.done = pass.listed THEN "Ready" ELSE "Degraded", pass.done)
      BY <2>2 DEF Report, ShapeInv, PassShape
    <3>2. /\ c = pass.cur /\ user[c].version = pass.version /\ user'[c].appliedTo = pass.done
      BY <1>3, <3>1, WriteStatusEffect
    <3> QED
      BY <1>1, <2>2, <3>1, <3>2 DEF Applying
  <2>3. ASSUME NEW d \in Users, Start(d)
        PROVE  ReportedReady(c) /\ user'[c].appliedTo = user[c].appliedTo
    BY <1>0, <1>1, <1>3, <2>3, StartEffect DEF ReportedReady
  <2>4. CASE RemoveFinalizer
    BY <1>0, <1>3, <2>4, FinalizerEffect DEF ShapeInv
  <2>5. ASSUME NEW d \in Users, Delete(d) PROVE FALSE
    BY <1>0, <1>3, <2>5, DeleteEffect
  <2>6. ASSUME NEW d \in Users, NEW u \in Names, Declare(d, u) PROVE FALSE
    <3>1. c = d
      BY <1>3, <2>6, DeclareEffect
    <3> QED
      BY <1>1, <2>6, <3>1, DeclareEffect, VersionsAreNats DEF VersionInv
  <2> QED
    BY <1>1, <1>3, <2>1, <2>2, <2>3, <2>4, <2>5, <2>6, UserChanges
<1> QED
  BY <1>1, <1>2, <1>3

\* A pass that applies an account was applying it before, or has just recorded the name.
LEMMA PassBefore ==
    ASSUME TypeOK, ShapeInv, [Next]_vars, pass'.pc \in {"own", "set", "save"}
    PROVE  \/ \E c \in Users : /\ Start(c) /\ pass'.pc = "own" /\ pass'.cur = c
                               /\ pass'.name = user[c].name /\ pass'.version = user[c].version
           \/ /\ pass.pc \in {"own", "set", "save"} /\ pass'.cur = pass.cur
              /\ pass'.name = pass.name /\ pass'.version = pass.version
              /\ \/ UNCHANGED pass
                 \/ EnsureACLOwner /\ pass.pc = "own" /\ pass'.pc = "set"
                    /\ pass'.done = {} /\ UNCHANGED user
                 \/ (\E n \in Nodes : SetUser(n)) /\ pass'.done = pass.done /\ UNCHANGED user
                 \/ SaveUser /\ UNCHANGED user /\ pass'.pc = "set"
<1>1. CASE UNCHANGED pass
  BY <1>1
<1>2. CASE UserPass
  <2>1. ASSUME NEW c \in Users, Start(c), pass' # pass
        PROVE  /\ pass'.pc = "own" /\ pass'.cur = c
               /\ pass'.name = user[c].name /\ pass'.version = user[c].version
    BY <2>1, StartPass
  <2>2. ASSUME NEW c \in Users, Cleanup(c) PROVE FALSE
    BY <2>2, CleanupPass
  <2>3. CASE EnsureACLOwner
    <3>1. pass' = [pass EXCEPT !.pc = "set"] /\ UNCHANGED user /\ pass.pc = "own"
      BY <2>3, IdlePass DEF EnsureACLOwner, ReportError
    <3>2. pass.done = {}
      BY <3>1 DEF ShapeInv, PassShape
    <3> QED
      BY <2>3, <3>1, <3>2 DEF TypeOK, PassType
  <2>4. CASE Report \/ Disown \/ RemoveFinalizer
    BY <2>4, IdlePass DEF Report, Disown, RemoveFinalizer, TypeOK, PassType
  <2>5. ASSUME NEW n \in Nodes, SetUser(n)
        PROVE  /\ pass.pc = "set" /\ pass'.cur = pass.cur /\ pass'.name = pass.name
               /\ pass'.version = pass.version /\ pass'.done = pass.done /\ UNCHANGED user
    BY <2>5, LoopEffect DEF SetUser
  <2>6. ASSUME NEW n \in Nodes, DelUser(n) PROVE FALSE
    BY <2>6, LoopEffect DEF DelUser
  <2>7. CASE SaveUser
    <3>1. /\ pass.pc = "save" /\ pass'.cur = pass.cur /\ pass'.name = pass.name
          /\ pass'.version = pass.version /\ pass'.pc = "set" /\ UNCHANGED user
      BY <2>7, LoopEffect DEF SaveUser
    <3> QED
      BY <2>7, <3>1
  <2>8. CASE SaveDeletion
    <3>1. pass'.pc = "del"
      BY <2>8, LoopEffect DEF SaveDeletion
    <3> QED
      BY <3>1
  <2> QED
    BY <1>1, <1>2, <2>1, <2>2, <2>3, <2>4, <2>5, <2>6, <2>7, <2>8 DEF UserPass, PassOf
<1>3. CASE Crash
  BY <1>3, IdlePass DEF Crash
<1> QED
  BY <1>1, <1>2, <1>3, PassChanges

LEMMA PassIsCurrentKept ==
    ASSUME TypeOK, ShapeInv, VersionInv, PassIsCurrent, [Next]_vars
    PROVE  PassIsCurrent'
<1> SUFFICES ASSUME pass'.pc \in {"own", "set", "save"},
                    user'[pass'.cur].version = pass'.version
             PROVE  user'[pass'.cur].name = pass'.name
  BY DEF PassIsCurrent
<1>1. ASSUME NEW c \in Users, Start(c), pass'.cur = c, pass'.name = user[c].name
      PROVE  user'[c].name = pass'.name
  BY <1>1, StartEffect DEF SameObjects
<1>2. CASE /\ pass.pc \in {"own", "set", "save"} /\ pass'.cur = pass.cur
           /\ pass'.name = pass.name /\ pass'.version = pass.version
  <2>1. pass.cur \in Users
    BY <1>2 DEF ShapeInv, PassShape
  <2>2. CASE user'[pass.cur].name = user[pass.cur].name
             /\ user'[pass.cur].version = user[pass.cur].version
    BY <1>2, <2>2 DEF PassIsCurrent
  <2>3. CASE SameObjects
    BY <2>1, <2>2, <2>3 DEF SameObjects
  <2>4. CASE RemoveFinalizer
    BY <1>2, <2>4 DEF RemoveFinalizer
  <2>5. ASSUME NEW d \in Users, Delete(d)
        PROVE  user'[pass.cur].name = user[pass.cur].name
               /\ user'[pass.cur].version = user[pass.cur].version
    BY <2>1, <2>5, DeleteEffect
  <2>6. ASSUME NEW d \in Users, NEW u \in Names, Declare(d, u)
        PROVE  user'[pass.cur] = user[pass.cur]
    BY <1>2, <2>1, <2>6, DeclareEffect, VersionsAreNats DEF VersionInv
  <2> QED
    BY <2>2, <2>3, <2>4, <2>5, <2>6, ObjectChanges DEF ShapeInv
<1> QED
  BY <1>1, <1>2, PassBefore

LEMMA ReadyUndisturbedKept ==
    ASSUME TypeOK, ShapeInv, VersionInv, ReadyInv, [Next]_vars, NEW c \in Users
    PROVE  ReadyUndisturbed(c)'
<1> SUFFICES ASSUME ReportedReady(c)', pass'.pc \in {"own", "set", "save"},
                    pass'.name = user'[c].name
             PROVE  pass'.cur = c /\ pass'.version = user'[c].version
  BY DEF ReadyUndisturbed
<1>1. /\ user[c].life = "live" /\ user'[c].name = user[c].name
      /\ user'[c].version = user[c].version
  BY ReadyBefore
<1>2. ASSUME NEW d \in Users, Start(d), pass'.name = user[d].name
      PROVE  c = d
  BY <1>1, <1>2 DEF Start, ShapeInv, Distinct
<1>3. CASE /\ pass.pc \in {"own", "set", "save"} /\ pass'.cur = pass.cur
           /\ pass'.name = pass.name /\ pass'.version = pass.version
  <2>1. ~Report
    BY IdlePass DEF Report
  <2>2. ReportedReady(c)
    BY <2>1, ReadyBefore
  <2> QED
    BY <1>1, <1>3, <2>2 DEF ReadyInv, ReadyUndisturbed
<1> QED
  BY <1>1, <1>2, <1>3, PassBefore

\* An account of the present version survives, in memory and on disk, what the passes and
\* the nodes do.
LEMMA LiveStays ==
    ASSUME TypeOK, ShapeInv, NameInv, VersionInv, ReadyInv, [Next]_vars,
           NEW c \in Users, NEW n \in Nodes, <<n, user[c].name>> \notin slipped',
           user[c].life = "live", live[n][user[c].name] = user[c].version,
           pass.pc = "set" /\ pass.name = user[c].name => pass.version = user[c].version
    PROVE  \/ live'[n][user[c].name] = user[c].version
           \/ /\ Restart(n) \/ RemoveCluster
              /\ live'[n][user[c].name] = IF user[c].name = Default THEN Hand
                                          ELSE saved[n][user[c].name]
<1> DEFINE u == user[c].name
<1>0. u \in Names
  BY DEF TypeOK, UserType
<1>1. ~(DelUser(n) /\ u = pass.name)
  <2> SUFFICES ASSUME DelUser(n), u = pass.name
               PROVE  FALSE
    OBVIOUS
  <2>1. pass.cur \in Users /\ user[pass.cur].life = "deleting" /\ user[pass.cur].name = u
    BY DEF DelUser, ShapeInv, PassShape
  <2> QED
    BY <2>1 DEF ShapeInv, Distinct
<1>2. ~(PruneNode(n) /\ u \in Doomed(n))
  BY HistoryGrows DEF PruneNode, ReadyInv, DoomedStale
<1>3. SetUser(n) => pass.pc = "set"
  BY DEF SetUser
<1> QED
  BY <1>0, <1>1, <1>2, <1>3, AccountEffect

LEMMA HasKept ==
    ASSUME TypeOK, ShapeInv, NameInv, VersionInv, ReadyInv, [Next]_vars,
           NEW c \in Users, NEW n \in Nodes, <<n, user[c].name>> \notin slipped',
           user[c].life = "live", Has(n, c),
           pass.pc = "set" /\ pass.name = user[c].name => pass.version = user[c].version
    PROVE  /\ live'[n][user[c].name] = user[c].version
           /\ saved'[n][user[c].name] = user[c].version
<1>0. user[c].name \in Names
  BY DEF TypeOK, UserType
<1>1. user[c].name # Default
  BY DefaultIsHand, VersionsAreNats DEF Has, Hand
<1> QED
  BY <1>0, <1>1, LiveStays, AccountEffect DEF Has

LEMMA ReadyHasKept ==
    ASSUME TypeOK, ShapeInv, NameInv, VersionInv, ReadyInv, [Next]_vars,
           NEW c \in Users, NEW n \in Nodes, <<n, user'[c].name>> \notin slipped'
    PROVE  ReadyHas(n, c)'
<1> SUFFICES ASSUME ReportedReady(c)', n \in user'[c].appliedTo
             PROVE  Has(n, c)'
  BY DEF ReadyHas
<1>1. /\ user[c].life = "live" /\ user'[c].name = user[c].name
      /\ user'[c].version = user[c].version
  BY ReadyBefore
<1>2. <<n, user[c].name>> \notin slipped /\ <<n, user[c].name>> \notin slipped'
  BY <1>1, HistoryGrows
<1>3. CASE ReportedReady(c) /\ user'[c].appliedTo = user[c].appliedTo
  <2>1. Has(n, c)
    BY <1>2, <1>3 DEF ReadyInv, ReadyHas
  <2>2. pass.pc = "set" /\ pass.name = user[c].name => pass.version = user[c].version
    BY <1>3 DEF ReadyInv, ReadyUndisturbed
  <2> QED
    BY <1>1, <1>2, <2>1, <2>2, HasKept DEF Has
<1>4. CASE Report /\ Applying(c) /\ user'[c].appliedTo = pass.done
  <2>1. Has(n, c)
    BY <1>2, <1>4 DEF ReadyInv, DoneHas
  <2> QED
    BY <1>1, <1>4, <2>1 DEF Has, Report, clusterVars
<1> QED
  BY <1>3, <1>4, ReadyBefore

\* A pass that applies the present version was applying it before.
LEMMA ApplyingBefore ==
    ASSUME TypeOK, ShapeInv, VersionInv, ReadyInv, [Next]_vars, NEW c \in Users, Applying(c)'
    PROVE  /\ user[c].life = "live" /\ user'[c].name = user[c].name
           /\ user'[c].version = user[c].version /\ pass.name = user[c].name
           /\ pass.version = user[c].version
           /\ \/ EnsureACLOwner /\ pass'.pc = "set" /\ pass'.done = {}
              \/ Applying(c) /\ UNCHANGED pass
              \/ Applying(c) /\ (\E n \in Nodes : SetUser(n)) /\ pass'.done = pass.done
              \/ Applying(c) /\ SaveUser /\ pass'.pc = "set"
<1>1. /\ pass'.pc \in {"set", "save"} /\ pass'.cur = c /\ user'[c].life = "live"
      /\ user'[c].version = pass'.version
  BY DEF Applying
<1>2. /\ pass.pc \in {"own", "set", "save"} /\ pass.cur = c /\ pass'.version = pass.version
      /\ \/ UNCHANGED pass
         \/ EnsureACLOwner /\ pass.pc = "own" /\ pass'.pc = "set" /\ pass'.done = {}
         \/ (\E n \in Nodes : SetUser(n)) /\ pass'.done = pass.done
         \/ SaveUser /\ pass'.pc = "set"
  BY <1>1, PassBefore
<1>3. /\ user[c].life = "live" /\ user'[c].name = user[c].name
      /\ user'[c].version = user[c].version
  BY <1>1, <1>2, LiveBefore, VersionsAreNats DEF VersionInv
<1>4. pass.name = user[c].name
  BY <1>1, <1>2, <1>3 DEF ReadyInv, PassIsCurrent
<1> QED
  BY <1>1, <1>2, <1>3, <1>4 DEF Applying, SetUser, SaveUser

LEMMA DoneHasKept ==
    ASSUME TypeOK, ShapeInv, NameInv, VersionInv, ReadyInv, [Next]_vars,
           NEW c \in Users, NEW n \in Nodes, <<n, user'[c].name>> \notin slipped'
    PROVE  DoneHas(n, c)'
<1> SUFFICES ASSUME Applying(c)', n \in pass'.done
             PROVE  Has(n, c)'
  BY DEF DoneHas
<1>1. /\ user[c].life = "live" /\ user'[c].name = user[c].name
      /\ user'[c].version = user[c].version /\ pass.name = user[c].name
      /\ pass.version = user[c].version /\ Applying(c)
  BY ApplyingBefore
<1>2. <<n, user[c].name>> \notin slipped /\ <<n, user[c].name>> \notin slipped'
  BY <1>1, HistoryGrows
<1>3. CASE n \in pass.done
  <2>1. Has(n, c)
    BY <1>1, <1>2, <1>3 DEF ReadyInv, DoneHas
  <2> QED
    BY <1>1, <1>2, <2>1, HasKept DEF Has
<1>4. CASE n \notin pass.done
  <2>1. SaveUser
    BY <1>4, ApplyingBefore
  <2>2. pass.pc = "save" /\ pass.at \in Nodes /\ UNCHANGED live
    BY <2>1 DEF SaveUser, ShapeInv, PassShape
  <2>3. n = pass.at /\ saved' = [saved EXCEPT ![n] = live[n]]
    BY <1>4, <2>1, LoopEffect DEF SaveUser
  <2>4. live[n][user[c].name] = user[c].version
    BY <1>1, <1>2, <2>2, <2>3 DEF ReadyInv, SetHas
  <2>5. saved'[n][user[c].name] = user[c].version
    BY <2>3, <2>4 DEF TypeOK
  <2> QED
    BY <1>1, <2>2, <2>4, <2>5 DEF Has
<1> QED
  BY <1>3, <1>4

LEMMA SetHasKept ==
    ASSUME TypeOK, ShapeInv, NameInv, VersionInv, ReadyInv, [Next]_vars,
           NEW c \in Users, NEW n \in Nodes, <<n, user'[c].name>> \notin slipped'
    PROVE  SetHas(n, c)'
<1> SUFFICES ASSUME Applying(c)', pass'.pc = "save", pass'.at = n
             PROVE  live'[n][user'[c].name] = user'[c].version
  BY DEF SetHas
<1>1. /\ user[c].life = "live" /\ user'[c].name = user[c].name
      /\ user'[c].version = user[c].version /\ pass.name = user[c].name
      /\ pass.version = user[c].version /\ Applying(c)
  BY ApplyingBefore
<1>2. <<n, user[c].name>> \notin slipped /\ <<n, user[c].name>> \notin slipped'
  BY <1>1, HistoryGrows
<1>3. CASE UNCHANGED pass
  <2>1. live[n][user[c].name] = user[c].version
    BY <1>1, <1>2, <1>3 DEF ReadyInv, SetHas
  <2>2. ~Restart(n) /\ ~RemoveCluster
    <3>1. user[c].name \in Names
      BY DEF TypeOK, UserType
    <3> QED
      BY <1>1, <1>2, <1>3, <3>1, UnsavedSlips
  <2> QED
    BY <1>1, <1>2, <2>1, <2>2, LiveStays
<1>4. ASSUME NEW m \in Nodes, SetUser(m)
      PROVE  live'[n][user[c].name] = user[c].version
  <2>1. Visit(m, "save") /\ live' = [live EXCEPT ![m][pass.name] = pass.version]
    BY <1>4, LoopEffect DEF SetUser
  <2>2. m = n
    BY <2>1, LoopEffect
  <2>3. pass.name \in Names
    BY DEF TypeOK, PassType
  <2> QED
    BY <1>1, <2>1, <2>2, <2>3 DEF TypeOK
<1> QED
  BY <1>1, <1>3, <1>4, ApplyingBefore

LEMMA DoomedStaleKept ==
    ASSUME TypeOK, ShapeInv, NameInv, VersionInv, ReadyInv, [Next]_vars,
           NEW c \in Users, NEW n \in Nodes, <<n, user'[c].name>> \notin slipped'
    PROVE  DoomedStale(n, c)'
<1> SUFFICES ASSUME prune'.pc \in {"del", "save"}, user'[c].name \in Doomed(n)',
                    user'[c].life = "live"
             PROVE  /\ live'[n][user'[c].name] # user'[c].version
                    /\ saved'[n][user'[c].name] # user'[c].version
  BY DEF DoomedStale
<1> DEFINE u == user'[c].name
<1>0. u \in Names /\ live[n][u] \in Int /\ saved[n][u] \in Int /\ <<n, u>> \notin slipped
  <2>1. u \in Names
    BY NextTypeOK DEF TypeOK, UserType
  <2> QED
    BY <2>1, AccountsAreInts, HistoryGrows
<1>1. CASE /\ user'[c].version = issued + 1 /\ UNCHANGED <<live, saved>>
  BY <1>0, <1>1, VersionsAreNats DEF VersionInv
<1>2. CASE /\ user[c].life = "live" /\ u = user[c].name /\ user'[c].version = user[c].version
  <2>1. ~\E m \in Nodes : Enumerate(m)
    BY DEF Enumerate, TypeOK, PruneType
  <2>2. ~ListUsers
    <3> SUFFICES ASSUME ListUsers
                 PROVE  FALSE
      OBVIOUS
    <3> DEFINE orphans == {v \in prune.owners : Manageable(v) /\ v \notin Declared}
    <3>1. prune' = [prune EXCEPT !.pc = "del", !.orphans = orphans, !.todo = prune.reached]
      BY IdlePass DEF ListUsers
    <3>2. prune'.orphans = orphans
      BY <3>1 DEF TypeOK, PruneType
    <3>3. u \in Declared
      BY <1>2 DEF Declared
    <3> QED
      BY <3>2, <3>3 DEF Doomed
  <2>3. prune.pc \in {"del", "save"} /\ u \in Doomed(n) /\ n \in prune.reached
    <3>1. /\ prune'.held = prune.held /\ prune'.orphans = prune.orphans
          /\ prune.pc \in {"del", "save"}
      BY <2>1, <2>2, FindingsKept
    <3> QED
      BY <3>1 DEF Doomed, ShapeInv, PruneShape
  <2>4. live[n][u] # user[c].version /\ saved[n][u] # user[c].version
    BY <1>0, <1>2, <2>3 DEF ReadyInv, DoomedStale
  <2>5. user[c].version > 0
    BY <1>2 DEF VersionInv
  <2>6. ~(SetUser(n) /\ u = pass.name /\ live'[n][u] # live[n][u])
    BY <2>3 DEF SetUser
  <2> QED
    BY <1>0, <1>2, <2>4, <2>5, <2>6, AccountEffect, VersionsAreNats DEF Absent, Hand
<1> QED
  BY <1>1, <1>2, LiveBefore

LEMMA ReadyKept ==
    ASSUME TypeOK, ShapeInv, NameInv, VersionInv, ReadyInv, [Next]_vars
    PROVE  ReadyInv'
  BY PassIsCurrentKept, ReadyUndisturbedKept, ReadyHasKept, DoneHasKept, SetHasKept,
     DoomedStaleKept
  DEF ReadyInv

-----------------------------------------------------------------------------
(* The theorems.                                                           *)

LEMMA InitInv == Init => IndInv
<1> SUFFICES ASSUME Init
             PROVE  IndInv
  OBVIOUS
<1>1. TypeOK
  BY InitTypeOK
<1>2. /\ pass.pc = "idle" /\ pass.version = 0 /\ prune.pc = "idle" /\ prune.at = Nowhere
      /\ prune.orphans = {} /\ prune.owners = {} /\ \A n \in Nodes : prune.held[n] = {}
  BY IdlePass DEF Init
<1>3. \A c \in Users : user[c].life = "absent" /\ user[c].version = 0 /\ user[c].observed = 0
  BY DEF Init
<1>4. /\ issued = 0 /\ record \subseteq {Default} /\ ever = {}
      /\ live = [n \in Nodes |-> Volume(n)] /\ saved = live
  BY UsersAssumption DEF Init
<1>5. \A n \in Nodes, u \in Names : /\ live[n][u] = Volume(n)[u] /\ saved[n][u] = Volume(n)[u]
                                    /\ live[n][u] \in {Hand, Absent}
                                    /\ saved[n][u] \in {Hand, Absent}
  BY <1>4 DEF Volume
<1>6. ShapeInv
  BY <1>2, <1>3 DEF ShapeInv, PassShape, PruneShape, Distinct
<1>7. NameInv
  BY <1>2, <1>3, <1>4, <1>5 DEF NameInv
<1>8. VersionInv
  BY <1>2, <1>3, <1>4, <1>5 DEF VersionInv, Hand, Absent
<1>9. PruneInv
  BY <1>2, <1>5 DEF PruneInv, NoGhost, Seen, Cleared, Hand, Absent
<1>10. RecordInv
  BY <1>2, <1>5 DEF RecordInv, LiveRecorded, SavedRecorded, SetRecorded, Emptied, Hand, Absent
<1>11. ReadyInv
  BY <1>2, <1>3 DEF ReadyInv, PassIsCurrent, ReadyUndisturbed, ReadyHas, DoneHas, SetHas,
                    DoomedStale, ReportedReady, Applying
<1> QED
  BY <1>1, <1>6, <1>7, <1>8, <1>9, <1>10, <1>11 DEF IndInv

\* The inductive invariant holds whatever the two reconcilers, the nodes, the user and the
\* operator process do.
THEOREM Invariance == Spec => []IndInv
<1>1. IndInv /\ [Next]_vars => IndInv'
  BY NextTypeOK, ShapeKept, NamesKept, VersionsKept, PruneKept, RecordKept, ReadyKept DEF IndInv
<1> QED
  BY <1>1, InitInv, PTL DEF Spec

\* Every variable stays in its type.
THEOREM TypeCorrect == Spec => []TypeOK
<1>1. IndInv => TypeOK
  BY DEF IndInv
<1> QED
  BY <1>1, Invariance, PTL

\* An account whose RedisUser is gone stays in the ownership record as long as a node has
\* it in memory or on disk, but for the races collected in slipped.
THEOREM OrphansCorrect == Spec => []OrphanIsRecorded
<1>1. ASSUME IndInv
      PROVE  OrphanIsRecorded
  <2> SUFFICES ASSUME NEW n \in Nodes, NEW u \in Names, Holds(n, u), u \notin Declared,
                      <<n, u>> \notin slipped
               PROVE  u \in record
    BY DEF OrphanIsRecorded
  <2>1. ~Deleting(n, u)
    <3> SUFFICES ASSUME Deleting(n, u)
                 PROVE  u \in Declared
      OBVIOUS
    <3>1. pass.cur \in Users /\ user[pass.cur].life = "deleting" /\ user[pass.cur].name = u
      BY <1>1 DEF Deleting, IndInv, ShapeInv, PassShape
    <3> QED
      BY <3>1 DEF Declared
  <2>2. LiveRecorded(n, u) /\ SavedRecorded(n, u)
    BY <1>1 DEF IndInv, RecordInv
  <2> QED
    BY <2>1, <2>2 DEF Holds, LiveRecorded, SavedRecorded
<1> QED
  BY <1>1, Invariance, PTL

\* A RedisUser reported Ready for its present spec has its account on the disk of every pod
\* it was applied to.
THEOREM ReadyCorrect == Spec => []ReadyIsSaved
<1>1. ASSUME IndInv
      PROVE  ReadyIsSaved
  <2> SUFFICES ASSUME NEW c \in Users, NEW n \in user[c].appliedTo, ReportedReady(c),
                      <<n, user[c].name>> \notin slipped
               PROVE  saved[n][user[c].name] = user[c].version
    BY DEF ReadyIsSaved, ReportedReady
  <2>1. n \in Nodes
    BY <1>1 DEF IndInv, TypeOK, UserType
  <2>2. ReadyHas(n, c)
    BY <1>1, <2>1 DEF IndInv, ReadyInv
  <2> QED
    BY <2>2 DEF ReadyHas, Has
<1> QED
  BY <1>1, Invariance, PTL

\* No step touches an account made by hand under a name that no RedisUser ever declared, nor
\* the default user's.
THEOREM HandMadeCorrect == Spec => HandMadeSpared
<1>1. ASSUME IndInv, [Next]_vars, NEW n \in Nodes, NEW u \in Names,
             live[n][u] = Hand, u \notin ever \ {Default}
      PROVE  live'[n][u] = Hand
  <2>1. live[n][u] = Volume(n)[u] /\ saved[n][u] = Volume(n)[u]
    BY <1>1 DEF IndInv, NameInv
  <2>2. ~(SetUser(n) /\ u = pass.name) /\ ~(DelUser(n) /\ u = pass.name) /\ u \notin Doomed(n)
    BY <1>1 DEF IndInv, NameInv, SetUser, DelUser, Doomed
  <2> QED
    BY <1>1, <2>1, <2>2, AccountEffect DEF IndInv
<1>2. IndInv /\ [Next]_vars =>
        \A n \in Nodes, u \in Names :
          live[n][u] = Hand /\ live'[n][u] # Hand => u \in ever \ {Default}
  BY <1>1
<1> QED
  BY <1>2, Invariance, PTL DEF Spec, HandMadeSpared
=============================================================================
