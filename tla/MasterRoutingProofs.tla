------------------------ MODULE MasterRoutingProofs ------------------------
(***************************************************************************)
(* Proofs about MasterRouting for every number of replicas and sentinels   *)
(* and every bound. The types rest on AddressInv (a live server has an     *)
(* address); the labels, the sparing of the master and the scale-down each *)
(* rest on what LabelInv, QuietInv and ResizeInv carry from one step of a  *)
(* pass to the next while pods and sentinels move.                         *)
(***************************************************************************)
EXTENDS MasterRouting, FiniteSetTheorems, TLAPS

\* TypeOK and the other parts hold in a healthy cluster.
LEMMA InitIndInv == Init => IndInv
<1> SUFFICES ASSUME Init
             PROVE  IndInv
  OBVIOUS
<1> USE RoutingAssumption DEF Init, Ordinals, Addresses, NoAddr, Itself, Host
<1>1. TypeOK
  <2>1. elected \in 1..MaxAddr /\ statusMaster \in 0..MaxAddr
    OBVIOUS
  <2>2. follows \in [Ordinals -> -1..MaxAddr] /\ view \in [Sentinels -> 1..MaxAddr]
    BY <2>1
  <2>3. addr \in [Ordinals -> 0..MaxAddr]
    OBVIOUS
  <2>4. label \in [Ordinals -> BOOLEAN]
    OBVIOUS
  <2>5. known \subseteq 1..MaxAddr /\ lastAddr \in 0..MaxAddr
    OBVIOUS
  <2>6. /\ {want, replicas, size} \subseteq MinSize..Size /\ {seen, stray} \subseteq 0..MaxAddr
        /\ edits \in 0..MaxEdits /\ faults \in 0..MaxFaults
    OBVIOUS
  <2>7. /\ leaving \in [Ordinals -> BOOLEAN] /\ alive \in [Ordinals -> BOOLEAN]
        /\ sentinelUp \in [Sentinels -> BOOLEAN]
    OBVIOUS
  <2>8. /\ {forced, settling, stale, hold, torn, quiet} \subseteq BOOLEAN
        /\ pc = "idle" /\ todo = {} /\ stray = NoAddr /\ target = {} /\ patches = {}
    OBVIOUS
  <2> HIDE RoutingAssumption DEF Init, Ordinals, NoAddr
  <2> QED
    BY <2>1, <2>2, <2>3, <2>4, <2>5, <2>6, <2>7, <2>8 DEF TypeOK
<1>2. AddressInv
  BY DEF AddressInv
<1>3. LabelInv
  <2>1. Alone(Labelled)
    <3> SUFFICES ASSUME NEW n \in Labelled, NEW m \in Labelled
                 PROVE  n = m
      BY DEF Alone
    <3>1. n + 1 = elected /\ m + 1 = elected
      BY DEF Labelled
    <3> QED
      BY <3>1 DEF Labelled
  <2> QED
    BY <2>1 DEF LabelInv
<1>4. QuietInv /\ ResizeInv
  BY DEF QuietInv, ResizeInv, ScalesDown, Stays
<1> QED
  BY <1>1, <1>2, <1>3, <1>4 DEF IndInv

\* A failure is counted within its bound.
LEMMA FaultType == faults \in 0..MaxFaults /\ Fault => faults' \in 0..MaxFaults
  BY RoutingAssumption DEF Fault

\* SLAVEOF leaves every node following somebody.
LEMMA SlaveOfType ==
    TypeOK => \A a : SlaveOf(a, seen) => follows' \in [Ordinals -> -1..MaxAddr]
  BY RoutingAssumption DEF SlaveOf, TypeOK

\* Every step of a pass, the pods, the sentinels, the user and the failures keeps the types.
LEMMA NextTypeOK == TypeOK /\ AddressInv /\ [Next]_vars => TypeOK'
<1> SUFFICES ASSUME TypeOK, AddressInv, [Next]_vars
             PROVE  TypeOK'
  OBVIOUS
<1> USE DEF TypeOK, podVars, sentinelVars, statusVars, passVars
<1>0. /\ MinSize \in Nat /\ Size \in MinSize..Size /\ Addresses \subseteq 0..MaxAddr
      /\ NoAddr \in 0..MaxAddr /\ 0..MaxAddr \subseteq -1..MaxAddr
      /\ Itself \in -1..MaxAddr /\ Host \in -1..MaxAddr
  BY RoutingAssumption DEF Addresses, NoAddr, Itself, Host
<1> USE <1>0, RoutingAssumption
<1>1. CASE UNCHANGED vars
  BY <1>1 DEF vars
<1>2. CASE BeginPass
  BY <1>2 DEF BeginPass
<1>3. CASE HoldScaleDown
  BY <1>3 DEF HoldScaleDown, RequestFailover
<1>4. CASE AllowScale
  BY <1>4, FaultType DEF AllowScale
<1>5. CASE Resize
  BY <1>5 DEF Resize
<1>6. CASE QueryMaster
  <2>1. PICK s \in RunningSentinels :
            /\ seen' = view[s]
            /\ quiet' = (view[s] = elected)
            /\ IF statusMaster \notin {NoAddr, view[s]} THEN pc' = "quorum" /\ UNCHANGED todo
               ELSE pc' = "repoint" /\ todo' = RunningPods \ {view[s]}
    BY <1>6 DEF QueryMaster
  <2>2. seen' \in 0..MaxAddr /\ quiet' \in BOOLEAN
    BY <2>1 DEF RunningSentinels
  <2>3. pc' \in {"quorum", "repoint"} /\ todo' \subseteq Addresses
        /\ (todo' # {} => pc' = "repoint")
    BY <1>6, <2>1 DEF QueryMaster, RunningPods, Addresses, NoAddr
  <2> QED
    BY <1>6, <2>2, <2>3 DEF QueryMaster
<1>7. CASE QueryFails
  BY <1>7, FaultType DEF QueryFails
<1>8. CASE CheckQuorum
  BY <1>8 DEF CheckQuorum
<1>9. CASE Requery
  BY <1>9 DEF Requery, RunningSentinels
<1>10. CASE DemoteOld
  <2>1. faults' \in 0..MaxFaults /\ follows' \in [Ordinals -> -1..MaxAddr]
    BY <1>10, FaultType, SlaveOfType DEF DemoteOld
  <2>2. todo' \subseteq Addresses
    BY <1>10 DEF DemoteOld, RunningPods, Ordinals, Addresses, NoAddr
  <2> QED
    BY <1>10, <2>1, <2>2 DEF DemoteOld
<1>11. CASE Repoint
  <2>1. faults' \in 0..MaxFaults /\ follows' \in [Ordinals -> -1..MaxAddr]
    BY <1>11, FaultType, SlaveOfType DEF Repoint
  <2> QED
    BY <1>11, <2>1 DEF Repoint
<1>12. CASE LoopDone
  BY <1>12 DEF LoopDone
<1>13. ASSUME NEW a \in Addresses, EnsureFollows(a)
       PROVE  TypeOK'
  <2>1. faults' \in 0..MaxFaults /\ follows' \in [Ordinals -> -1..MaxAddr]
    BY <1>13, FaultType, SlaveOfType DEF EnsureFollows
  <2> QED
    BY <1>13, <2>1 DEF EnsureFollows
<1>14. ASSUME NEW a \in Addresses, InspectReplica(a)
       PROVE  TypeOK'
  BY <1>14 DEF InspectReplica
<1>15. CASE ListPods
  BY <1>15 DEF ListPods, OrdinalsOf, PatchesFor, Labelled
<1>16. CASE PatchFails
  BY <1>16, FaultType DEF PatchFails
<1>17. CASE LabelDone
  BY <1>17 DEF LabelDone
<1>18. CASE WriteStatus
  <2>1. statusMaster' \in 0..MaxAddr /\ settling' \in BOOLEAN
    BY <1>18 DEF WriteStatus
  <2> QED
    BY <1>18, <2>1 DEF WriteStatus, EndPass
<1>19. ASSUME NEW n \in Ordinals, PatchLabel(n)
       PROVE  TypeOK'
  <2>1. CASE addr[n] = NoAddr
    BY <1>19, <2>1 DEF PatchLabel
  <2>2. CASE addr[n] # NoAddr
    <3>1. label' = [label EXCEPT ![n] = n \in target] /\ (n \in target) \in BOOLEAN
      BY <1>19, <2>2 DEF PatchLabel
    <3>2. label' \in [Ordinals -> BOOLEAN]
      BY <3>1
    <3> QED
      BY <1>19, <2>2, <3>2 DEF PatchLabel
  <2> QED
    BY <2>1, <2>2
<1>20. ASSUME NEW n \in Ordinals, Delete(n)
       PROVE  TypeOK'
  BY <1>20, FaultType DEF Delete
<1>21. ASSUME NEW n \in Ordinals, Gone(n)
       PROVE  TypeOK'
  BY <1>21 DEF Gone
<1>22. ASSUME NEW n \in Ordinals, Create(n)
       PROVE  TypeOK'
  BY <1>22 DEF Create
<1>23. ASSUME NEW n \in Ordinals, Boot(n)
       PROVE  TypeOK'
  <2>1. SourceAtBoot(n) \subseteq -1..MaxAddr
    BY DEF SourceAtBoot, RunningSentinels
  <2>2. follows' \in [Ordinals -> -1..MaxAddr]
    BY <1>23, <2>1 DEF Boot
  <2> QED
    BY <1>23, <2>2 DEF Boot
<1>24. ASSUME NEW s \in Sentinels, NEW n \in Ordinals, Elect(s, n)
       PROVE  TypeOK'
  <2>1. addr[n] \in Addresses
    BY <1>24 DEF Elect, Candidates
  <2> QED
    BY <1>24, <2>1 DEF Elect
<1>25. ASSUME NEW s \in Sentinels, Hear(s)
       PROVE  TypeOK'
  BY <1>25 DEF Hear
<1>26. ASSUME NEW s \in Sentinels, SentinelStarts(s)
       PROVE  TypeOK'
  BY <1>26 DEF SentinelStarts
<1>27. ASSUME NEW n \in Ordinals, Discover(n)
       PROVE  TypeOK'
  <2>1. addr[n] \in Addresses
    BY <1>27 DEF Discover, AddressInv, Addresses, NoAddr
  <2> QED
    BY ZenonT(60), <1>27, <2>1 DEF Discover
<1>28. ASSUME NEW n \in Ordinals, Reconfigure(n)
       PROVE  TypeOK'
  BY <1>28 DEF Reconfigure
<1>29. ASSUME NEW k \in MinSize..Size, UserScales(k)
       PROVE  TypeOK'
  BY <1>29 DEF UserScales
<1>30. CASE FailoverTimeout
  BY ZenonT(60), <1>30 DEF FailoverTimeout
<1>31. CASE PassFails
  <2>1. faults' \in 0..MaxFaults /\ torn' \in BOOLEAN
    BY <1>31, FaultType DEF PassFails
  <2> QED
    BY <1>31, <2>1 DEF PassFails, EndPass
<1>32. ASSUME NEW n \in Ordinals, Crash(n)
       PROVE  TypeOK'
  BY <1>32, FaultType DEF Crash
<1>33. ASSUME NEW s \in Sentinels, SentinelStops(s)
       PROVE  TypeOK'
  BY <1>33, FaultType DEF SentinelStops
<1> QED
  BY <1>1, <1>2, <1>3, <1>4, <1>5, <1>6, <1>7, <1>8, <1>9, <1>10, <1>11, <1>12, <1>13, <1>14,
       <1>15, <1>16, <1>17, <1>18, <1>19, <1>20, <1>21, <1>22, <1>23, <1>24, <1>25, <1>26,
       <1>27, <1>28, <1>29, <1>30, <1>31, <1>32, <1>33 DEF Next, Pass, Kubelet, Sentinel, Vote,
       Environment

\* A pass leaves the pods and the newest election alone, but for what its commands make
\* nodes follow.
LEMMA PassFrame ==
    Pass => UNCHANGED <<addr, leaving, alive, lastAddr, sentinelUp, view, elected, known, want>>
  BY DEF Pass, BeginPass, HoldScaleDown, AllowScale, Resize, QueryMaster, QueryFails,
         CheckQuorum, Requery, DemoteOld, Repoint, LoopDone, EnsureFollows, InspectReplica,
         ListPods, PatchFails, LabelDone, WriteStatus, PatchLabel, podVars, sentinelVars

\* The kubelet and the sentinels leave the pass, the status and the objects alone.
LEMMA WorldFrame == Kubelet \/ Sentinel => UNCHANGED <<passVars, statusVars, replicas, want>>
  BY DEF Kubelet, Delete, Gone, Create, Boot, Sentinel, Vote, Elect, Hear, SentinelStarts,
         Discover, Reconfigure

\* Addresses stay unique: a pod gets the next one, or loses its own.
LEMMA NextAddressInv == TypeOK /\ AddressInv /\ [Next]_vars => AddressInv'
<1> SUFFICES ASSUME TypeOK, AddressInv, [Next]_vars
             PROVE  AddressInv'
  OBVIOUS
<1> USE RoutingAssumption DEF AddressInv, Ordinals, NoAddr
<1>1. CASE UNCHANGED <<addr, alive, lastAddr>>
  BY <1>1
<1>2. ASSUME NEW n \in Ordinals, Gone(n) \/ Boot(n) \/ Crash(n)
      PROVE  AddressInv'
  <2>1. CASE Gone(n)
    BY <2>1 DEF Gone, TypeOK
  <2>2. CASE Boot(n)
    BY <2>2 DEF Boot, TypeOK
  <2>3. CASE Crash(n)
    BY <2>3 DEF Crash, TypeOK
  <2> QED
    BY <1>2, <2>1, <2>2, <2>3
<1>3. ASSUME NEW n \in Ordinals, Create(n)
      PROVE  AddressInv'
  BY SMTT(30), <1>3 DEF Create, TypeOK
<1>4. CASE Pass
  BY <1>1, <1>4, PassFrame
<1>5. CASE UNCHANGED vars
  BY <1>1, <1>5 DEF vars, podVars
<1>6. CASE Kubelet
  BY <1>1, <1>2, <1>3, <1>6 DEF Kubelet, Delete
<1>7. CASE Sentinel
  BY <1>1, <1>7 DEF Sentinel, Vote, Elect, Hear, SentinelStarts, Discover, Reconfigure, podVars
<1>8. CASE Environment
  BY <1>1, <1>2, <1>8 DEF Environment, UserScales, FailoverTimeout, PassFails, SentinelStops,
                          podVars
<1> QED
  BY <1>4, <1>5, <1>6, <1>7, <1>8 DEF Next

\* Two pods with the address a pass acts on are one pod.
LEMMA OneOwner == AddressInv => \A a : a # NoAddr => Alone(OrdinalsOf(a))
  BY DEF AddressInv, Alone, OrdinalsOf

\* Taking labels away keeps LabelInv.
LEMMA FewerLabels ==
    ASSUME LabelInv, Labelled' \subseteq Labelled, UNCHANGED <<pc, target, patches, torn>>
    PROVE  LabelInv'
  BY DEF LabelInv, Alone

\* The labels are wrong only while they are patched, or when the patching was cut short.
LEMMA NextLabelInv ==
    TypeOK /\ AddressInv /\ LabelInv /\ QuietInv /\ [Next]_vars => LabelInv'
<1> SUFFICES ASSUME TypeOK, AddressInv, LabelInv, QuietInv, [Next]_vars
             PROVE  LabelInv'
  OBVIOUS
<1>1. CASE UNCHANGED <<label, pc, target, patches, torn>>
  BY <1>1, FewerLabels DEF Labelled
<1>2. CASE pc # "label" /\ pc' # "label" /\ UNCHANGED <<label, torn>>
  BY <1>2 DEF LabelInv, Labelled, Alone
<1>3. CASE ListPods
  <2>1. Alone(OrdinalsOf(seen)) /\ UNCHANGED label /\ pc' = "label"
    BY <1>3, OneOwner DEF ListPods, QuietInv
  <2> QED
    BY <1>3, <2>1 DEF ListPods, PatchesFor, Labelled, LabelInv, Alone
<1>4. ASSUME NEW n \in Ordinals, PatchLabel(n)
      PROVE  LabelInv'
  <2>1. CASE addr[n] = NoAddr
    BY <1>4, <2>1 DEF PatchLabel, LabelInv
  <2>2. CASE addr[n] # NoAddr
    <3>1. /\ pc = "label" /\ UNCHANGED <<pc, target>> /\ patches' = patches \ {n}
          /\ label' = [label EXCEPT ![n] = n \in target]
      BY <1>4, <2>2 DEF PatchLabel
    <3>2. Alone(target) /\ Labelled \ patches \subseteq target
      BY <3>1 DEF LabelInv
    <3>3. Labelled' \ patches' \subseteq target
      BY <3>1, <3>2 DEF Labelled, TypeOK
    <3> QED
      BY <3>1, <3>2, <3>3 DEF LabelInv, Alone
  <2> QED
    BY <2>1, <2>2
<1>5. CASE PatchFails
  BY <1>5 DEF PatchFails, LabelInv
<1>6. CASE LabelDone
  BY <1>6 DEF LabelDone, Labelled, LabelInv, Alone
<1>7. CASE PassFails
  <2>1. pc' # "label" /\ UNCHANGED label /\ (torn' <=> (torn \/ patches # {}))
    BY <1>7 DEF PassFails, EndPass, TypeOK
  <2> QED
    BY <2>1 DEF LabelInv, Labelled, Alone
<1>8. ASSUME NEW n \in Ordinals, Gone(n)
      PROVE  LabelInv'
  <2>1. Labelled' \subseteq Labelled
    BY <1>8 DEF Gone, Labelled, TypeOK
  <2> QED
    BY <1>8, <2>1, FewerLabels DEF Gone, passVars
<1>9. CASE Pass
  <2>1. BeginPass \/ HoldScaleDown \/ AllowScale \/ Resize \/ QueryMaster \/ QueryFails
          \/ CheckQuorum \/ Requery \/ DemoteOld \/ Repoint \/ LoopDone \/ WriteStatus
          \/ (\E a \in Addresses : EnsureFollows(a) \/ InspectReplica(a))
        => pc # "label" /\ pc' # "label" /\ UNCHANGED <<label, torn>>
    BY DEF BeginPass, HoldScaleDown, AllowScale, Resize, QueryMaster, QueryFails, CheckQuorum,
           Requery, DemoteOld, Repoint, LoopDone, EnsureFollows, InspectReplica, WriteStatus,
           EndPass
  <2> QED
    BY <1>2, <1>3, <1>4, <1>5, <1>6, <1>9, <2>1 DEF Pass
<1>10. CASE UNCHANGED vars
  BY <1>1, <1>10 DEF vars, passVars
<1>11. CASE Kubelet
  BY <1>1, <1>8, <1>11 DEF Kubelet, Delete, Create, Boot, passVars
<1>12. CASE Sentinel
  BY <1>1, <1>12 DEF Sentinel, Vote, Elect, Hear, SentinelStarts, Discover, Reconfigure, passVars
<1>13. CASE Environment
  BY <1>1, <1>7, <1>13 DEF Environment, UserScales, FailoverTimeout, Crash, SentinelStops,
                           passVars
<1> QED
  BY <1>9, <1>10, <1>11, <1>12, <1>13 DEF Next

\* Whatever happens between two steps of a pass, it goes on acting on other addresses than
\* the master's, and an election that it missed is recorded in quiet.
LEMMA NextQuietInv == TypeOK /\ QuietInv /\ [Next]_vars => QuietInv'
<1> SUFFICES ASSUME TypeOK, QuietInv, [Next]_vars
             PROVE  QuietInv'
  OBVIOUS
<1> USE DEF QuietInv
<1>1. CASE UNCHANGED <<pc, seen, todo, stray, statusMaster>>
           /\ (quiet' = FALSE \/ UNCHANGED <<quiet, elected>>)
  BY <1>1
<1>2. CASE pc' \in {"idle", "scale", "resize", "query", "label", "write"}
  BY <1>2
<1>3. CASE QueryMaster
  <2>1. PICK s \in RunningSentinels :
            /\ seen' = view[s]
            /\ quiet' = (view[s] = elected)
            /\ IF statusMaster \notin {NoAddr, view[s]} THEN pc' = "quorum" /\ UNCHANGED todo
               ELSE pc' = "repoint" /\ todo' = RunningPods \ {view[s]}
    BY <1>3 DEF QueryMaster
  <2>2. view[s] \in Addresses /\ view[s] # NoAddr
    BY DEF RunningSentinels, TypeOK, Addresses, NoAddr
  <2>3. stray' = NoAddr /\ UNCHANGED <<statusMaster, elected>>
    BY <1>3 DEF QueryMaster, TypeOK, statusVars, sentinelVars
  <2> QED
    BY <2>1, <2>2, <2>3
<1>4. CASE CheckQuorum
  BY <1>4 DEF CheckQuorum, statusVars
<1>5. CASE Requery
  BY <1>5 DEF Requery, statusVars, sentinelVars
<1>6. CASE DemoteOld
  BY <1>6 DEF DemoteOld, TypeOK, sentinelVars
<1>7. CASE Repoint
  BY <1>7 DEF Repoint, sentinelVars
<1>8. ASSUME NEW a \in Addresses, EnsureFollows(a)
      PROVE  QuietInv'
  BY <1>8 DEF EnsureFollows, sentinelVars
<1>9. ASSUME NEW a \in Addresses, InspectReplica(a)
      PROVE  QuietInv'
  BY <1>9 DEF InspectReplica, sentinelVars
<1>10. CASE LoopDone
  BY <1>10 DEF LoopDone
<1>11. CASE Pass
  <2>1. BeginPass \/ HoldScaleDown \/ AllowScale \/ Resize \/ QueryFails \/ ListPods
          \/ PatchFails \/ LabelDone \/ WriteStatus \/ (\E n \in Ordinals : PatchLabel(n))
        => pc' \in {"idle", "scale", "resize", "query", "label", "write"}
    BY DEF BeginPass, HoldScaleDown, AllowScale, Resize, QueryFails, ListPods, PatchFails,
           LabelDone, WriteStatus, PatchLabel, EndPass
  <2> QED
    BY <1>2, <1>3, <1>4, <1>5, <1>6, <1>7, <1>8, <1>9, <1>10, <1>11, <2>1 DEF Pass
<1>12. CASE UNCHANGED vars
  BY <1>1, <1>12 DEF vars, passVars, statusVars, sentinelVars
<1>13. CASE Kubelet
  BY <1>1, <1>13 DEF Kubelet, Delete, Gone, Create, Boot, passVars, statusVars, sentinelVars
<1>14. CASE Sentinel
  BY <1>1, <1>14 DEF Sentinel, Vote, Elect, Hear, SentinelStarts, Discover, Reconfigure,
                     passVars, statusVars, sentinelVars
<1>15. CASE Environment
  BY <1>1, <1>2, <1>15 DEF Environment, UserScales, FailoverTimeout, PassFails, EndPass, Crash,
                           SentinelStops, passVars, statusVars, sentinelVars
<1> QED
  BY <1>11, <1>12, <1>13, <1>14, <1>15 DEF Next

\* Between the guard of a scale-down and the write of the StatefulSet the master can move only
\* by an election, and a new pod never takes its address.
LEMMA NextResizeInv == TypeOK /\ AddressInv /\ ResizeInv /\ [Next]_vars => ResizeInv'
<1> SUFFICES ASSUME TypeOK, AddressInv, ResizeInv, [Next]_vars
             PROVE  ResizeInv'
  OBVIOUS
<1> USE DEF ResizeInv, ScalesDown, Stays
<1>1. CASE UNCHANGED <<addr, leaving, lastAddr, elected>> /\ pc' # "resize"
  BY <1>1
<1>2. CASE UNCHANGED <<addr, leaving, lastAddr, elected, pc, quiet, hold, size, replicas>>
  BY <1>2
<1>3. CASE HoldScaleDown
  BY <1>3 DEF HoldScaleDown, podVars
<1>4. CASE AllowScale
  <2>1. UNCHANGED <<addr, leaving, lastAddr, elected, size, replicas, hold>>
    BY <1>4 DEF AllowScale, podVars, sentinelVars
  <2>2. CASE ScalesDown /\ quiet'
    <3>1. PICK s \in RunningSentinels : /\ \E n \in OrdinalsOf(view[s]) : Stays(n)
                                       /\ quiet' = (view[s] = elected)
      BY <1>4, <2>2 DEF AllowScale
    <3>2. PICK n \in OrdinalsOf(elected) : Stays(n)
      BY <2>2, <3>1
    <3>3. elected # NoAddr
      BY DEF TypeOK, Addresses, NoAddr
    <3>4. \A m \in Ordinals : addr[m] = elected /\ ~leaving[m] => m = n
      BY <3>2, <3>3, OneOwner DEF Alone, OrdinalsOf
    <3> QED
      BY <2>1, <3>2, <3>4
  <2> QED
    BY <2>1, <2>2
<1>5. ASSUME NEW n \in Ordinals, Delete(n) \/ Gone(n)
      PROVE  ResizeInv'
  BY <1>5 DEF Delete, Gone, TypeOK, Addresses, NoAddr, passVars, sentinelVars
<1>6. ASSUME NEW n \in Ordinals, Create(n)
      PROVE  ResizeInv'
  BY <1>6, RoutingAssumption DEF Create, TypeOK, Addresses, passVars, sentinelVars
<1>7. ASSUME NEW s \in Sentinels, NEW n \in Ordinals, Elect(s, n)
      PROVE  ResizeInv'
  BY <1>7 DEF Elect, Candidates, AddressInv, passVars
<1>8. CASE Pass
  <2>1. BeginPass \/ Resize \/ QueryMaster \/ QueryFails \/ CheckQuorum \/ Requery \/ DemoteOld
          \/ Repoint \/ LoopDone \/ ListPods \/ PatchFails \/ LabelDone \/ WriteStatus
          \/ (\E n \in Ordinals : PatchLabel(n))
          \/ (\E a \in Addresses : EnsureFollows(a) \/ InspectReplica(a))
        => pc' # "resize"
    BY DEF BeginPass, Resize, QueryMaster, QueryFails, CheckQuorum, Requery, DemoteOld, Repoint,
           LoopDone, ListPods, PatchFails, LabelDone, WriteStatus, PatchLabel, EndPass,
           EnsureFollows, InspectReplica
  <2> QED
    BY <1>1, <1>3, <1>4, <1>8, <2>1, PassFrame DEF Pass
<1>9. CASE UNCHANGED vars
  BY <1>2, <1>9 DEF vars, podVars, passVars, sentinelVars
<1>10. CASE Kubelet
  BY <1>2, <1>5, <1>6, <1>10 DEF Kubelet, Boot, passVars, sentinelVars
<1>11. CASE Sentinel
  BY <1>2, <1>7, <1>11 DEF Sentinel, Vote, Hear, SentinelStarts, Discover, Reconfigure, podVars,
                           passVars, sentinelVars
<1>12. CASE Environment
  BY <1>1, <1>2, <1>12 DEF Environment, UserScales, FailoverTimeout, PassFails, EndPass, Crash,
                           SentinelStops, podVars, passVars, sentinelVars
<1> QED
  BY <1>8, <1>9, <1>10, <1>11, <1>12 DEF Next

\* The inductive invariant holds in every reachable state.
THEOREM Invariance == Spec => []IndInv
<1>1. IndInv /\ [Next]_vars => IndInv'
  BY NextTypeOK, NextAddressInv, NextLabelInv, NextQuietInv, NextResizeInv DEF IndInv
<1> QED
  BY <1>1, InitIndInv, PTL DEF Spec

\* Every variable of the routing model keeps its type.
THEOREM TypeCorrect == Spec => []TypeOK
  BY Invariance, PTL DEF IndInv

\* Between passes the write Service selects at most one pod, unless the last labelling was
\* cut short.
THEOREM WriteEndpointIsUnique == Spec => []OneWriteEndpoint
<1>1. IndInv => OneWriteEndpoint
  <2> SUFFICES ASSUME IndInv, pc = "idle", ~torn
               PROVE  Cardinality(Labelled) <= 1
    BY DEF OneWriteEndpoint
  <2>1. Alone(Labelled)
    BY DEF IndInv, LabelInv
  <2>2. CASE Labelled = {}
    BY <2>2, FS_EmptySet
  <2>3. CASE Labelled # {}
    <3>1. PICK n : Labelled = {n}
      BY <2>1, <2>3 DEF Alone
    <3>2. Cardinality({n}) = 1
      BY FS_Singleton
    <3> QED
      BY <3>1, <3>2
  <2> QED
    BY <2>2, <2>3
<1> QED
  BY <1>1, Invariance, PTL

\* The operator's own commands never make a replica of the serving master, if the sentinel
\* asked last knew the newest election and no election came in between.
THEOREM MasterStaysMaster == Spec => MasterIsSpared
<1>1. IndInv /\ [Next]_vars
      => [\A n \in Ordinals : quiet /\ IsMaster(n) => follows'[n] = Itself]_vars
  <2> SUFFICES ASSUME IndInv, Next, NEW n \in Ordinals, quiet, IsMaster(n)
               PROVE  follows'[n] = Itself
    BY DEF vars
  <2> USE DEF IsMaster, IndInv, TypeOK
  <2>1. CASE UNCHANGED follows
    BY <2>1
  <2>2. CASE DemoteOld
    BY <2>2 DEF DemoteOld, SlaveOf, QuietInv
  <2>3. CASE Repoint
    BY <2>3 DEF Repoint, SlaveOf, QuietInv
  <2>4. ASSUME NEW a \in Addresses, EnsureFollows(a)
        PROVE  follows'[n] = Itself
    BY <2>4 DEF EnsureFollows, SlaveOf, QuietInv
  <2>5. CASE Pass
    BY <2>1, <2>2, <2>3, <2>4, <2>5
       DEF Pass, BeginPass, HoldScaleDown, AllowScale, Resize, QueryMaster, QueryFails,
           CheckQuorum, Requery, LoopDone, InspectReplica, ListPods, PatchFails, LabelDone,
           WriteStatus, PatchLabel, podVars
  <2>6. CASE Kubelet
    BY <2>1, <2>6 DEF Kubelet, Delete, Gone, Create, Boot
  <2>7. CASE Sentinel
    BY <2>1, <2>7 DEF Sentinel, Vote, Elect, Hear, SentinelStarts, Discover, Reconfigure, podVars
  <2>8. CASE Environment
    BY <2>1, <2>8 DEF Environment, UserScales, FailoverTimeout, PassFails, Crash, SentinelStops,
                      podVars
  <2> QED
    BY <2>5, <2>6, <2>7, <2>8 DEF Next
<1> QED
  BY <1>1, Invariance, PTL DEF Spec, MasterIsSpared

\* A scale-down never removes the ordinal of the master, under the same condition.
THEOREM ScaleDownIsSafe == Spec => ScaleDownSparesMaster
<1>1. IndInv /\ [Next]_vars
      => [replicas' < replicas /\ quiet =>
             \A n \in Ordinals : addr[n] = elected /\ ~leaving[n] => n < replicas']_vars
  <2> SUFFICES ASSUME IndInv, Next, replicas' < replicas, quiet,
                      NEW n \in Ordinals, addr[n] = elected, ~leaving[n]
               PROVE  n < replicas'
    OBVIOUS
  <2> USE RoutingAssumption DEF IndInv, TypeOK
  <2>1. CASE UNCHANGED replicas
    BY <2>1
  <2>2. CASE Resize
    <3>1. ~hold /\ replicas' = size
      BY <2>2 DEF Resize
    <3> QED
      BY <2>2, <3>1 DEF Resize, ResizeInv, ScalesDown, Stays
  <2>3. CASE Pass
    BY <2>1, <2>2, <2>3
       DEF Pass, BeginPass, HoldScaleDown, AllowScale, QueryMaster, QueryFails, CheckQuorum,
           Requery, DemoteOld, Repoint, LoopDone, EnsureFollows, InspectReplica, ListPods,
           PatchFails, LabelDone, WriteStatus, PatchLabel
  <2>4. CASE Kubelet \/ Sentinel
    BY <2>1, <2>4, WorldFrame
  <2>5. CASE Environment
    BY <2>1, <2>5 DEF Environment, UserScales, FailoverTimeout, PassFails, Crash, SentinelStops
  <2> QED
    BY <2>3, <2>4, <2>5 DEF Next
<1> QED
  BY <1>1, Invariance, PTL DEF Spec, ScaleDownSparesMaster
=============================================================================
