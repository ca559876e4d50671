---------------------- MODULE CredentialRotationProofs ----------------------
(***************************************************************************)
(* Proofs about CredentialRotation for every set of pods and passwords and *)
(* every bound. Type correctness is inductive by itself. LinksUp is not:   *)
(* that a narrowing node breaks no link rests on the phases before it      *)
(* having completed on every settled node, which IndInv records.           *)
(***************************************************************************)
EXTENDS CredentialRotation, TLAPS

\* TypeOK holds initially.
LEMMA InitTypeOK == Init => TypeOK
  BY ConstantsAssumption DEF Init, TypeOK, Component, Nodes, Absent, NoAuth, Unstamped, PushStages

\* The phase order stays within the stages of a push and the record.
LEMMA StageAfterType == \A s \in PushStages : StageAfter[s] \in PushStages \cup {"record"}
  BY DEF StageAfter, PushStages

\* TodoIn picks listed nodes.
LEMMA TodoInType == \A s : snap \subseteq Nodes => TodoIn(s) \subseteq Nodes
  BY DEF TodoIn, Nodes

\* Every step of the operator, the pods, the user and the failures keeps the types.
LEMMA NextTypeOK == TypeOK /\ [Next]_vars => TypeOK'
<1> SUFFICES ASSUME TypeOK, [Next]_vars
             PROVE  TypeOK'
  OBVIOUS
<1> USE ConstantsAssumption DEF Absent, NoAuth, Unstamped
<1>1. CASE UNCHANGED vars
  BY <1>1 DEF vars, secretVars, appliedVars, podVars, nodeVars, passVars, TypeOK
<1>2. ASSUME NEW p \in Passwords \cup {Invalid, Missing}, UserEditsSecret(p)
      PROVE  TypeOK'
  BY <1>2 DEF UserEditsSecret, TypeOK, appliedVars, podVars, nodeVars, passVars
<1>3. CASE ReadUnusableSecret
  BY <1>3 DEF ReadUnusableSecret, GoStamp, TypeOK, secretVars, appliedVars, podVars, nodeVars
<1>4. CASE ReadUnchanged
  BY <1>4 DEF ReadUnchanged, GoStamp, TypeOK, secretVars, appliedVars, podVars, nodeVars
<1>5. CASE ReadRefresh
  BY <1>5 DEF ReadRefresh, TypeOK, secretVars, appliedVars, podVars, nodeVars
<1>6. CASE ReadRotation
  BY <1>6 DEF ReadRotation, TypeOK, secretVars, appliedVars, podVars, nodeVars
<1>7. CASE WriteAppliedAuth
  BY <1>7 DEF WriteAppliedAuth, GoStamp, TypeOK, secretVars, podVars, nodeVars
<1>8. CASE RefreshAppliedAuth
  BY <1>8 DEF RefreshAppliedAuth, GoStamp, TypeOK, secretVars, podVars, nodeVars
<1>9. CASE PassFails
  BY <1>9 DEF PassFails, Fault, EndPass, TypeOK, secretVars, appliedVars, podVars, nodeVars
<1>10. ASSUME NEW starting \in SUBSET Unready, ListPods(starting)
       PROVE  TypeOK'
  BY <1>10 DEF ListPods, Unready, Serving, TypeOK, PushStages, secretVars, appliedVars, podVars,
               nodeVars
<1>11. ASSUME NEW n \in Nodes, Dial(n)
       PROVE  TypeOK'
  BY <1>11 DEF Dial, Visit, TypeOK, secretVars, appliedVars, podVars, nodeVars
<1>12. ASSUME NEW n \in Nodes, Widen(n)
       PROVE  TypeOK'
  BY <1>12 DEF Widen, Visit, AddPassword, TypeOK, secretVars, appliedVars, podVars
<1>13. ASSUME NEW n \in Nodes, Switch(n)
       PROVE  TypeOK'
  BY <1>13 DEF Switch, Visit, TypeOK, secretVars, appliedVars, podVars
<1>26. ASSUME NEW n \in Nodes, SwitchAuthPass(n)
       PROVE  TypeOK'
  BY <1>26 DEF SwitchAuthPass, TypeOK, secretVars, appliedVars, podVars, passVars
<1>14. ASSUME NEW n \in Nodes, Narrow(n)
       PROVE  TypeOK'
  BY <1>14 DEF Narrow, Visit, TypeOK, secretVars, appliedVars, podVars
<1>15. CASE StageDone
  <2>1. pc' \in PushStages \cup {"record"} /\ todo' \subseteq Nodes
    BY <1>15, StageAfterType, TodoInType DEF StageDone, TypeOK
  <2> QED
    BY <1>15, <2>1 DEF StageDone, TypeOK, secretVars, appliedVars, podVars, nodeVars
<1>16. CASE PushRefused
  BY <1>16 DEF PushRefused, GoStamp, TypeOK, secretVars, appliedVars, podVars, nodeVars
<1>17. CASE PushFails
  BY <1>17 DEF PushFails, Fault, GoStamp, TypeOK, secretVars, appliedVars, podVars, nodeVars
<1>18. CASE StampRedis
  BY <1>18 DEF StampRedis, TypeOK, secretVars, appliedVars, podVars, nodeVars, passVars
<1>19. CASE StampSentinel
  BY <1>19 DEF StampSentinel, EndPass, TypeOK, secretVars, appliedVars, podVars, nodeVars
<1>20. ASSUME NEW n \in Nodes, Start(n)
       PROVE  TypeOK'
  BY <1>20 DEF Start, TemplateOf, CanCapture, CapturedPw, Component, TypeOK, secretVars,
               appliedVars, nodeVars, passVars
<1>21. ASSUME NEW n \in Nodes, Boot(n)
       PROVE  TypeOK'
  BY <1>21 DEF Boot, TypeOK, secretVars, appliedVars, passVars
<1>22. ASSUME NEW n \in Nodes, Restart(n), faults' \in 0..MaxFaults
       PROVE  TypeOK'
  BY <1>22 DEF Restart, Silence, TypeOK, secretVars, appliedVars, passVars
<1>23. ASSUME NEW n \in Nodes, Roll(n)
       PROVE  TypeOK'
  BY <1>23 DEF Roll, Silence, Component, TypeOK, secretVars, appliedVars
<1>24. ASSUME NEW n \in Nodes, Crash(n)
       PROVE  TypeOK'
  BY <1>22, <1>24 DEF Crash, Fault, TypeOK
<1>25. ASSUME NEW n \in Nodes, LivenessKill(n)
       PROVE  TypeOK'
  BY <1>22, <1>25 DEF LivenessKill, TypeOK
<1> QED
  BY <1>1, <1>2, <1>3, <1>4, <1>5, <1>6, <1>7, <1>8, <1>9, <1>10, <1>11, <1>12, <1>13, <1>14,
     <1>15, <1>16, <1>17, <1>18, <1>19, <1>20, <1>21, <1>23, <1>24, <1>25, <1>26
  DEF Next, OperatorPass, Push, PodLife, Environment

\* Type correctness, for any cluster and any bounds.
THEOREM TypeCorrect == Spec => []TypeOK
  BY InitTypeOK, NextTypeOK, PTL DEF Spec

----------------------------------------------------------------------------
(* Links                                                                   *)

\* A cluster that ran with a password from the start is on it as a whole.
LEMMA InitIndInv == InitialPw # NoPass /\ Init => IndInv
<1> SUFFICES ASSUME InitialPw # NoPass, Init
             PROVE  IndInv
  OBVIOUS
<1> USE ConstantsAssumption
<1>1. TypeOK
  BY InitTypeOK
<1>2. \A n \in settled : accepts[n] = {InitialPw} /\ toRedis[n] = InitialPw /\ pod[n] = "serving"
  BY DEF Init
<1>3. \A n \in settled \cap Sentinels : toSentinel[n] = InitialPw
  BY DEF Init
<1>4. pc = "idle" /\ Agreed = InitialPw /\ InitialPw \in Passwords
  BY DEF Init, Agreed
<1>5. LinksUp
  BY <1>2, <1>3 DEF LinksUp, LinkUp
<1>6. CleanInv /\ SettledInv
  BY <1>2, <1>3, <1>4 DEF CleanInv, SettledInv, Presents
<1>7. PhaseInv /\ WriteInv /\ ReadInv
  BY <1>4 DEF PhaseInv, WriteInv, ReadInv, Widened, Switched, Narrowed, Past, PushStages
<1> QED
  BY <1>1, <1>5, <1>6, <1>7 DEF IndInv

\* A step that leaves the nodes, the record and the settled set alone, and takes the pass
\* to no writing stage, preserves the invariant.
LEMMA QuietStep ==
  ASSUME IndInv, TypeOK',
         UNCHANGED <<appliedVars, nodeVars, settled, clean>>,
         \A n \in settled : pod'[n] = pod[n],
         pc' \notin (PushStages \ {"dial"}) \cup {"record"},
         pc' \in {"list", "dial", "refresh"} => desired' \in Passwords,
         pc' = "refresh" => desired' = appliedPw
  PROVE  IndInv'
<1>1. LinksUp' /\ CleanInv' /\ SettledInv'
  BY DEF IndInv, LinksUp, LinkUp, CleanInv, SettledInv, Presents, Agreed, nodeVars, appliedVars
<1>2. PhaseInv' /\ WriteInv' /\ ReadInv'
  BY DEF PhaseInv, WriteInv, ReadInv, Widened, Switched, Narrowed, Past, PushStages, appliedVars
<1> QED
  BY <1>1, <1>2 DEF IndInv

\* A container that goes down leaves the settled set, and nothing else changes for the
\* nodes that stay.
LEMMA DownStep ==
  ASSUME IndInv, TypeOK', NEW n \in Nodes,
         Silence(n), settled' = settled \ {n},
         \A m \in settled \ {n} : pod'[m] = pod[m],
         UNCHANGED <<appliedVars, pc, desired, snap, todo, clean>>
  PROVE  IndInv'
<1>1. \A m \in settled' : /\ m \in settled
                         /\ accepts'[m] = accepts[m]
                         /\ toRedis'[m] = toRedis[m]
                         /\ (m \in Sentinels => toSentinel'[m] = toSentinel[m])
                         /\ pod'[m] = pod[m]
  <2> SUFFICES ASSUME NEW m \in settled'
               PROVE  /\ m \in settled
                      /\ accepts'[m] = accepts[m]
                      /\ toRedis'[m] = toRedis[m]
                      /\ (m \in Sentinels => toSentinel'[m] = toSentinel[m])
                      /\ pod'[m] = pod[m]
    OBVIOUS
  <2> QED
    BY DEF Silence, IndInv, TypeOK
<1>2. LinksUp'
  BY <1>1 DEF IndInv, LinksUp, LinkUp
<1>3. CleanInv'
  BY <1>1 DEF IndInv, CleanInv, Presents, Agreed, appliedVars
<1>4. SettledInv'
  BY <1>1 DEF IndInv, SettledInv
<1>5. PhaseInv'
  <2> SUFFICES ASSUME NEW m \in settled'
               PROVE  /\ Widened(m)' => (desired \in accepts[m])'
                      /\ Switched(m)' => Presents(m, desired)'
                      /\ Narrowed(m)' => (accepts[m] = {desired})'
    BY DEF PhaseInv
  <2>1. /\ Widened(m) => desired \in accepts[m]
        /\ Switched(m) => Presents(m, desired)
        /\ Narrowed(m) => accepts[m] = {desired}
    BY <1>1 DEF IndInv, PhaseInv
  <2>2. /\ Widened(m)' <=> Widened(m)
        /\ Switched(m)' <=> Switched(m)
        /\ Narrowed(m)' <=> Narrowed(m)
    BY DEF Widened, Switched, Narrowed, Past
  <2> QED
    BY <1>1, <2>1, <2>2 DEF Presents
<1>6. WriteInv' /\ ReadInv'
  BY <1>1 DEF IndInv, WriteInv, ReadInv, appliedVars
<1> QED
  BY <1>2, <1>3, <1>4, <1>5, <1>6 DEF IndInv

\* Widening adds the new password to one more node and takes none away.
LEMMA WidenInv == ASSUME IndInv, TypeOK', NEW n \in Nodes, Widen(n) PROVE IndInv'
<1> USE ConstantsAssumption
<1>1. /\ pc \in {"widenRedis", "widenSentinel"} /\ pc' = pc /\ todo' = todo \ {n}
      /\ UNCHANGED <<appliedVars, pod, toRedis, toSentinel, desired, snap, clean, settled>>
      /\ ~clean /\ settled \subseteq snap /\ desired \in Passwords
  BY DEF IndInv, WriteInv, ReadInv, Widen, Visit, PushStages, podVars, appliedVars
<1>2. /\ \A m \in Nodes, p \in Passwords : p \in accepts[m] => p \in accepts'[m]
      /\ desired \in accepts'[n]
      /\ \A m \in Nodes : m # n => accepts'[m] = accepts[m]
  BY DEF IndInv, TypeOK, Widen, AddPassword
<1>3. settled \subseteq Nodes
  BY DEF IndInv, TypeOK
<1>4. SettledInv'
  BY <1>1 DEF IndInv, SettledInv
<1>5. LinksUp'
  BY <1>1, <1>2, <1>3 DEF IndInv, LinksUp, LinkUp, SettledInv
<1>6. PhaseInv'
  BY <1>1, <1>2, <1>3 DEF IndInv, PhaseInv, Widened, Switched, Narrowed, Past
<1>7. CleanInv' /\ WriteInv' /\ ReadInv'
  BY <1>1 DEF CleanInv, WriteInv, ReadInv, PushStages
<1> QED
  BY <1>4, <1>5, <1>6, <1>7 DEF IndInv

\* A dialer switches to a password every settled node was widened to.
LEMMA SwitchInv == ASSUME IndInv, TypeOK', NEW n \in Nodes, Switch(n) PROVE IndInv'
<1> USE ConstantsAssumption
<1>1. /\ pc \in {"switchRedis", "switchSentinel"} /\ pc' = pc /\ todo' = todo \ {n}
      /\ UNCHANGED <<appliedVars, pod, accepts, desired, snap, clean, settled>>
      /\ ~clean /\ settled \subseteq snap /\ desired \in Passwords
  BY DEF IndInv, WriteInv, ReadInv, Switch, Visit, PushStages, podVars, appliedVars
<1>2. \A m \in settled : desired \in accepts[m]
  BY <1>1 DEF IndInv, PhaseInv, Widened, Past
<1>3. /\ \A m \in Nodes : toRedis'[m] = IF m = n THEN desired ELSE toRedis[m]
      /\ \A m \in Sentinels : toSentinel'[m] = IF m = n THEN desired ELSE toSentinel[m]
  BY DEF IndInv, TypeOK, Switch
<1>4. settled \subseteq Nodes
  BY DEF IndInv, TypeOK
<1>5. SettledInv'
  BY <1>1, <1>3, <1>4 DEF IndInv, SettledInv
<1>6. LinksUp'
  BY <1>1, <1>2, <1>3, <1>4 DEF IndInv, LinksUp, LinkUp
<1>7. PhaseInv'
  BY <1>1, <1>2, <1>3, <1>4 DEF IndInv, PhaseInv, Widened, Switched, Narrowed, Past, Presents
<1>8. CleanInv' /\ WriteInv' /\ ReadInv'
  BY <1>1 DEF CleanInv, WriteInv, ReadInv, PushStages
<1> QED
  BY <1>5, <1>6, <1>7, <1>8 DEF IndInv

\* A node drops the old password when every settled node presents the new one.
LEMMA NarrowInv == ASSUME IndInv, TypeOK', NEW n \in Nodes, Narrow(n) PROVE IndInv'
<1> USE ConstantsAssumption
<1>1. /\ pc \in {"narrowRedis", "narrowSentinel"} /\ pc' = pc /\ todo' = todo \ {n}
      /\ UNCHANGED <<appliedVars, pod, toRedis, toSentinel, desired, snap, clean, settled>>
      /\ ~clean /\ settled \subseteq snap /\ desired \in Passwords
  BY DEF IndInv, WriteInv, ReadInv, Narrow, Visit, PushStages, podVars, appliedVars
<1>2. \A m \in settled : desired \in accepts[m] /\ Presents(m, desired)
  BY <1>1 DEF IndInv, PhaseInv, Widened, Switched, Past
<1>3. \A m \in Nodes : accepts'[m] = IF m = n THEN {desired} ELSE accepts[m]
  BY DEF IndInv, TypeOK, Narrow
<1>4. settled \subseteq Nodes
  BY DEF IndInv, TypeOK
<1>5. SettledInv'
  BY <1>1 DEF IndInv, SettledInv
<1>6. LinksUp'
  BY <1>1, <1>2, <1>3, <1>4 DEF LinksUp, LinkUp, Presents
<1>7. PhaseInv'
  BY <1>1, <1>2, <1>3, <1>4 DEF IndInv, PhaseInv, Widened, Switched, Narrowed, Past, Presents
<1>8. CleanInv' /\ WriteInv' /\ ReadInv'
  BY <1>1 DEF CleanInv, WriteInv, ReadInv, PushStages
<1> QED
  BY <1>5, <1>6, <1>7, <1>8 DEF IndInv

\* A container that boots joins the settled nodes on the password they are all on.
LEMMA BootInv ==
  ASSUME InitialPw # NoPass, IndInv, TypeOK', NEW n \in Nodes, Boot(n)
  PROVE  IndInv'
<1> USE ConstantsAssumption
<1>1. UNCHANGED <<appliedVars, pc, desired, snap, todo, clean>>
  BY DEF Boot, passVars
<1>2. \A m \in settled' \ {n} : /\ m \in settled
                               /\ accepts'[m] = accepts[m]
                               /\ toRedis'[m] = toRedis[m]
                               /\ (m \in Sentinels => toSentinel'[m] = toSentinel[m])
                               /\ pod'[m] = pod[m]
  <2> SUFFICES ASSUME NEW m \in settled' \ {n}
               PROVE  /\ m \in settled
                      /\ accepts'[m] = accepts[m]
                      /\ toRedis'[m] = toRedis[m]
                      /\ (m \in Sentinels => toSentinel'[m] = toSentinel[m])
                      /\ pod'[m] = pod[m]
    OBVIOUS
  <2> QED
    BY DEF Boot, IndInv, TypeOK
<1>3. CASE n \notin settled'
  <2>1. \A m \in settled' : /\ m \in settled
                           /\ accepts'[m] = accepts[m]
                           /\ toRedis'[m] = toRedis[m]
                           /\ (m \in Sentinels => toSentinel'[m] = toSentinel[m])
                           /\ pod'[m] = pod[m]
    BY <1>2, <1>3
  <2>2. LinksUp' /\ SettledInv'
    BY <2>1 DEF IndInv, LinksUp, LinkUp, SettledInv
  <2>3. CleanInv'
    BY <1>1, <2>1 DEF IndInv, CleanInv, Presents, Agreed, appliedVars
  <2>4. PhaseInv' /\ WriteInv' /\ ReadInv'
    BY <1>1, <2>1 DEF IndInv, PhaseInv, WriteInv, ReadInv, Widened, Switched, Narrowed, Past,
                      Presents, appliedVars
  <2> QED
    BY <2>2, <2>3, <2>4 DEF IndInv
<1>4. CASE n \in settled'
  <2>1. clean /\ env[n] = Agreed /\ Agreed' = Agreed
    <3>1. Settles(n)
      BY <1>4 DEF Boot
    <3> QED
      BY <1>1, <3>1 DEF Settles, Agreed, appliedVars
  <2>2. \A m \in settled' : /\ accepts'[m] = {Agreed}
                           /\ Presents(m, Agreed)'
                           /\ pod'[m] = "serving"
    BY <1>2, <2>1 DEF Boot, IndInv, TypeOK, CleanInv, SettledInv, Presents, Nodes
  <2>3. Agreed \in Passwords
    BY DEF IndInv, TypeOK, Agreed
  <2>4. pc' \notin (PushStages \ {"dial"}) \cup {"record"}
    BY <1>1, <2>1 DEF IndInv, WriteInv
  <2>5. LinksUp'
    BY <2>1, <2>2 DEF LinksUp, LinkUp, Presents
  <2>6. CleanInv' /\ SettledInv'
    BY <2>1, <2>2, <2>3 DEF CleanInv, SettledInv, Presents
  <2>7. PhaseInv' /\ WriteInv' /\ ReadInv'
    BY <1>1, <2>4 DEF IndInv, PhaseInv, WriteInv, ReadInv, Widened, Switched, Narrowed, Past,
                      PushStages, appliedVars
  <2> QED
    BY <2>5, <2>6, <2>7 DEF IndInv
<1> QED
  BY <1>3, <1>4

\* A phase begins with all its nodes to visit, and the one before is over.
LEMMA StageDoneInv == ASSUME IndInv, TypeOK', StageDone PROVE IndInv'
<1> USE ConstantsAssumption
<1>1. /\ UNCHANGED <<appliedVars, nodeVars, pod, desired, snap>>
      /\ pc \in PushStages /\ todo = {} /\ desired \in Passwords
      /\ settled' \subseteq settled /\ settled' \subseteq snap /\ ~clean'
      /\ pc' \in PushStages \cup {"record"}
  BY StageAfterType DEF StageDone, IndInv, WriteInv, ReadInv, podVars, PushStages
<1>2. LinksUp' /\ SettledInv'
  BY <1>1 DEF IndInv, LinksUp, LinkUp, SettledInv, nodeVars
<1>3. CleanInv' /\ WriteInv' /\ ReadInv'
  BY <1>1 DEF CleanInv, WriteInv, ReadInv, PushStages
<1>4. PhaseInv'
  <2> SUFFICES ASSUME NEW m \in settled'
               PROVE  /\ Widened(m)' => (desired \in accepts[m])'
                      /\ Switched(m)' => Presents(m, desired)'
                      /\ Narrowed(m)' => (accepts[m] = {desired})'
    BY DEF PhaseInv
  <2>1. /\ m \in settled /\ m \in snap /\ m \in Nodes
        /\ Widened(m) => desired \in accepts[m]
        /\ Switched(m) => Presents(m, desired)
        /\ Narrowed(m) => accepts[m] = {desired}
    BY <1>1 DEF IndInv, PhaseInv, TypeOK
  <2>2. todo' = TodoIn(pc') /\ snap' = snap
    BY <1>1 DEF StageDone
  <2>3. /\ Widened(m)' => Widened(m)
        /\ Switched(m)' => Switched(m)
        /\ Narrowed(m)' => Narrowed(m)
    <3>1. pc' = StageAfter[pc]
      BY DEF StageDone
    <3>2. CASE pc = "dial"
      BY <1>1, <2>1, <2>2, <3>1, <3>2 DEF StageAfter, TodoIn, Widened, Switched, Narrowed, Past, Nodes
    <3>3. CASE pc = "widenRedis"
      BY <1>1, <2>1, <2>2, <3>1, <3>3 DEF StageAfter, TodoIn, Widened, Switched, Narrowed, Past, Nodes
    <3>4. CASE pc = "widenSentinel"
      BY <1>1, <2>1, <2>2, <3>1, <3>4 DEF StageAfter, TodoIn, Widened, Switched, Narrowed, Past, Nodes
    <3>5. CASE pc = "switchRedis"
      BY <1>1, <2>1, <2>2, <3>1, <3>5 DEF StageAfter, TodoIn, Widened, Switched, Narrowed, Past, Nodes
    <3>6. CASE pc = "switchSentinel"
      BY <1>1, <2>1, <2>2, <3>1, <3>6 DEF StageAfter, TodoIn, Widened, Switched, Narrowed, Past, Nodes
    <3>7. CASE pc = "narrowRedis"
      BY <1>1, <2>1, <2>2, <3>1, <3>7 DEF StageAfter, TodoIn, Widened, Switched, Narrowed, Past, Nodes
    <3>8. CASE pc = "narrowSentinel"
      BY <1>1, <2>1, <2>2, <3>1, <3>8 DEF StageAfter, TodoIn, Widened, Switched, Narrowed, Past, Nodes
    <3> QED
      BY <1>1, <3>2, <3>3, <3>4, <3>5, <3>6, <3>7, <3>8 DEF PushStages
  <2> QED
    BY <1>1, <2>1, <2>3 DEF Presents, nodeVars
<1> QED
  BY <1>2, <1>3, <1>4 DEF IndInv

\* The record is written when every settled node is on the new password alone.
LEMMA WriteAppliedInv == ASSUME IndInv, TypeOK', WriteAppliedAuth PROVE IndInv'
<1> USE ConstantsAssumption
<1>1. /\ pc = "record" /\ pc' = "stampRedis"
      /\ UNCHANGED <<nodeVars, pod, settled>>
      /\ desired \in Passwords /\ appliedPw' = desired
  BY DEF WriteAppliedAuth, GoStamp, IndInv, ReadInv, podVars
<1>2. \A n \in settled : accepts[n] = {desired} /\ Presents(n, desired)
  BY <1>1 DEF IndInv, PhaseInv, Switched, Narrowed, Past
<1>3. Agreed' = desired
  BY <1>1 DEF Agreed
<1>4. CleanInv'
  BY <1>1, <1>2, <1>3 DEF CleanInv, Presents, nodeVars
<1>5. LinksUp' /\ SettledInv'
  BY <1>1 DEF IndInv, LinksUp, LinkUp, SettledInv, nodeVars
<1>6. PhaseInv' /\ WriteInv' /\ ReadInv'
  BY <1>1 DEF PhaseInv, WriteInv, ReadInv, Widened, Switched, Narrowed, Past, PushStages
<1> QED
  BY <1>4, <1>5, <1>6 DEF IndInv

\* A sentinel may stay half switched, in a phase in which every settled node accepts the
\* new password already.
LEMMA SwitchAuthPassInv ==
  ASSUME IndInv, TypeOK', NEW n \in Nodes, SwitchAuthPass(n)
  PROVE  IndInv'
<1> USE ConstantsAssumption
<1>1. /\ pc = "switchSentinel" /\ n \in todo
      /\ UNCHANGED <<appliedVars, pod, accepts, toSentinel, pc, desired, snap, todo, clean, settled>>
  BY DEF SwitchAuthPass, podVars, passVars
<1>2. ~clean /\ desired \in Passwords /\ settled \subseteq Nodes
  BY <1>1 DEF IndInv, WriteInv, ReadInv, TypeOK, PushStages
<1>3. /\ \A m \in settled : toRedis'[m] \in {desired, toRedis[m]} /\ desired \in accepts[m]
      /\ \A m \in settled : Presents(m, desired) => Presents(m, desired)'
  BY <1>1, <1>2 DEF SwitchAuthPass, IndInv, PhaseInv, Widened, Past, TypeOK, Presents
<1>4. LinksUp' /\ SettledInv'
  BY <1>1, <1>2, <1>3 DEF IndInv, LinksUp, LinkUp, SettledInv
<1>5. CleanInv' /\ WriteInv' /\ ReadInv'
  BY <1>1, <1>2 DEF IndInv, CleanInv, WriteInv, ReadInv, appliedVars
<1>6. PhaseInv'
  BY <1>1, <1>3 DEF IndInv, PhaseInv, Widened, Switched, Narrowed, Past
<1> QED
  BY <1>4, <1>5, <1>6 DEF IndInv

\* One step per action: the quiet ones by QuietStep, the ones that end a container by
\* DownStep, the writing ones by their own lemmas.
LEMMA NextIndInv == ASSUME InitialPw # NoPass, IndInv, [Next]_vars PROVE IndInv'
<1>0. TypeOK'
  BY NextTypeOK DEF IndInv
<1>1. CASE UNCHANGED vars
  BY <1>1 DEF vars, secretVars, appliedVars, podVars, nodeVars, passVars, IndInv, TypeOK, LinksUp,
              LinkUp, CleanInv, PhaseInv, WriteInv, ReadInv, SettledInv, Agreed, Presents, Widened,
              Switched, Narrowed, Past
<1>2. ASSUME NEW p \in Passwords \cup {Invalid, Missing}, UserEditsSecret(p)
      PROVE  IndInv'
  <2>1. UNCHANGED <<appliedVars, pod, accepts, toRedis, toSentinel, pc, desired, snap, todo, clean,
                    settled>>
    BY <1>2 DEF UserEditsSecret, podVars, nodeVars, passVars
  <2> QED
    BY <1>0, <2>1 DEF appliedVars, IndInv, LinksUp, LinkUp, CleanInv, PhaseInv, WriteInv, ReadInv,
                      SettledInv, Agreed, Presents, Widened, Switched, Narrowed, Past
<1>3. CASE ReadUnusableSecret \/ ReadUnchanged \/ PushRefused \/ PushFails
  BY <1>0, <1>3, QuietStep
  DEF ReadUnusableSecret, ReadUnchanged, PushRefused, PushFails, GoStamp, podVars, PushStages
<1>4. CASE ReadRefresh \/ ReadRotation
  BY <1>0, <1>4, QuietStep DEF ReadRefresh, ReadRotation, podVars, PushStages
<1>5. CASE WriteAppliedAuth
  BY <1>0, <1>5, WriteAppliedInv
<1>6. CASE RefreshAppliedAuth
  <2>1. appliedPw' = appliedPw /\ pc' = "stampRedis"
        /\ UNCHANGED <<pod, accepts, toRedis, toSentinel, clean, settled>>
    BY <1>6 DEF RefreshAppliedAuth, GoStamp, IndInv, ReadInv, podVars, nodeVars
  <2>2. LinksUp' /\ CleanInv' /\ SettledInv'
    BY <2>1 DEF IndInv, LinksUp, LinkUp, CleanInv, SettledInv, Presents, Agreed
  <2>3. PhaseInv' /\ WriteInv' /\ ReadInv'
    BY <2>1 DEF PhaseInv, WriteInv, ReadInv, Widened, Switched, Narrowed, Past, PushStages
  <2> QED
    BY <1>0, <2>2, <2>3 DEF IndInv
<1>7. CASE PassFails
  BY <1>0, <1>7, QuietStep DEF PassFails, EndPass, podVars, PushStages
<1>8. ASSUME NEW starting \in SUBSET Unready, ListPods(starting)
      PROVE  IndInv'
  <2>1. desired' \in Passwords
    BY <1>8 DEF ListPods, IndInv, ReadInv
  <2> QED
    BY <1>0, <1>8, <2>1, QuietStep DEF ListPods, podVars, PushStages
<1>9. ASSUME NEW n \in Nodes, Dial(n)
      PROVE  IndInv'
  <2>1. desired' \in Passwords
    BY <1>9 DEF Dial, Visit, IndInv, ReadInv, PushStages
  <2> QED
    BY <1>0, <1>9, <2>1, QuietStep DEF Dial, Visit, podVars, nodeVars, PushStages
<1>10. ASSUME NEW n \in Nodes, Widen(n) \/ SwitchAuthPass(n) \/ Switch(n) \/ Narrow(n)
       PROVE  IndInv'
  BY <1>0, <1>10, WidenInv, SwitchAuthPassInv, SwitchInv, NarrowInv
<1>11. CASE StageDone
  BY <1>0, <1>11, StageDoneInv
<1>13. CASE StampRedis \/ StampSentinel
  BY <1>0, <1>13, QuietStep DEF StampRedis, StampSentinel, EndPass, podVars, PushStages
<1>14. ASSUME NEW n \in Nodes, Start(n)
       PROVE  IndInv'
  <2>1. \A m \in settled : pod'[m] = pod[m]
    BY <1>14 DEF Start, IndInv, SettledInv, TypeOK
  <2>2. UNCHANGED <<appliedVars, accepts, toRedis, toSentinel, pc, desired, snap, todo, clean,
                    settled>>
    BY <1>14 DEF Start, nodeVars, passVars
  <2> QED
    BY <1>0, <2>1, <2>2 DEF appliedVars, IndInv, LinksUp, LinkUp, CleanInv, PhaseInv, WriteInv,
                            ReadInv, SettledInv, Agreed, Presents, Widened, Switched, Narrowed, Past
<1>15. ASSUME NEW n \in Nodes, Boot(n)
       PROVE  IndInv'
  BY <1>0, <1>15, BootInv
<1>16. ASSUME NEW n \in Nodes, Roll(n) \/ Restart(n)
       PROVE  IndInv'
  <2>1. /\ Silence(n) /\ settled' = settled \ {n}
        /\ UNCHANGED <<appliedVars, pc, desired, snap, todo, clean>>
        /\ \A m \in settled \ {n} : pod'[m] = pod[m]
    BY <1>16 DEF Roll, Restart, passVars, IndInv, TypeOK
  <2> QED
    BY <1>0, <2>1, DownStep
<1> QED
  BY <1>1, <1>2, <1>3, <1>4, <1>5, <1>6, <1>7, <1>8, <1>9, <1>10, <1>11, <1>13, <1>14,
     <1>15, <1>16
  DEF Next, OperatorPass, Push, PodLife, Environment, Crash, LivenessKill

\* The rotation never breaks a link between settled nodes: in a cluster that ran with a
\* password from the start, whatever the order of edits, failures, restarts and rolls,
\* a settled node's credential is accepted by every settled peer.
THEOREM LinksStayUp == ASSUME InitialPw # NoPass PROVE Spec => []LinksUp
<1>1. Init => IndInv
  BY InitIndInv
<1>2. IndInv /\ [Next]_vars => IndInv'
  BY NextIndInv
<1>3. IndInv => LinksUp
  BY DEF IndInv
<1> QED
  BY <1>1, <1>2, <1>3, PTL DEF Spec

\* A recorded rotation leaves no settled node that still accepts an older password.
THEOREM OldPasswordIsRevoked == ASSUME InitialPw # NoPass PROVE Spec => []OldPasswordRevoked
<1>1. Init => IndInv
  BY InitIndInv
<1>2. IndInv /\ [Next]_vars => IndInv'
  BY NextIndInv
<1>3. IndInv => OldPasswordRevoked
  BY DEF IndInv, CleanInv, OldPasswordRevoked, Agreed
<1> QED
  BY <1>1, <1>2, <1>3, PTL DEF Spec

----------------------------------------------------------------------------
(* Stamps                                                                  *)

\* Every action keeps the record behind the Secret and the stamps behind the record.
LEMMA NextVersionInv == ASSUME TypeOK, VersionInv, [Next]_vars PROVE VersionInv'
<1> USE ConstantsAssumption DEF VersionInv, NoStampAheadOfPush, TypeOK, PushStages, Absent, Unstamped
<1>1. CASE UNCHANGED vars
  BY <1>1 DEF vars, secretVars, appliedVars, passVars
<1>2. ASSUME NEW p \in Passwords \cup {Invalid, Missing}, UserEditsSecret(p)
      PROVE  VersionInv'
  BY <1>2 DEF UserEditsSecret, appliedVars, passVars
<1>3. CASE ReadUnusableSecret \/ ReadUnchanged \/ PushRefused \/ PushFails
  BY <1>3 DEF ReadUnusableSecret, ReadUnchanged, PushRefused, PushFails, GoStamp, secretVars,
              appliedVars
<1>4. CASE ReadRefresh \/ ReadRotation
  BY <1>4 DEF ReadRefresh, ReadRotation, secretVars, appliedVars
<1>5. CASE WriteAppliedAuth \/ RefreshAppliedAuth
  BY <1>5 DEF WriteAppliedAuth, RefreshAppliedAuth, GoStamp, secretVars
<1>6. CASE PassFails
  BY <1>6 DEF PassFails, EndPass, secretVars, appliedVars
<1>7. ASSUME NEW starting \in SUBSET Unready, ListPods(starting)
      PROVE  VersionInv'
  BY <1>7 DEF ListPods, secretVars, appliedVars
<1>8. ASSUME NEW n \in Nodes,
             Dial(n) \/ Widen(n) \/ SwitchAuthPass(n) \/ Switch(n) \/ Narrow(n)
      PROVE  VersionInv'
  BY <1>8 DEF Dial, Widen, SwitchAuthPass, Switch, Narrow, Visit, secretVars, appliedVars, passVars
<1>9. CASE StageDone
  BY <1>9, StageAfterType DEF StageDone, secretVars, appliedVars
<1>10. CASE StampRedis \/ StampSentinel
  BY <1>10 DEF StampRedis, StampSentinel, EndPass, secretVars, appliedVars, passVars
<1>11. ASSUME NEW n \in Nodes, Start(n) \/ Boot(n) \/ Restart(n) \/ Roll(n)
       PROVE  VersionInv'
  BY <1>11 DEF Start, Boot, Restart, Roll, secretVars, appliedVars, passVars
<1> QED
  BY <1>1, <1>2, <1>3, <1>4, <1>5, <1>6, <1>7, <1>8, <1>9, <1>10, <1>11
  DEF Next, OperatorPass, Push, PodLife, Environment, Crash, LivenessKill

\* No pod template ever names a version of the Secret whose password was not pushed and
\* recorded: a failed rotation rolls nothing.
THEOREM StampFollowsPush == Spec => []NoStampAheadOfPush
<1>1. Init => VersionInv
  BY ConstantsAssumption DEF Init, VersionInv, NoStampAheadOfPush, PushStages, Absent, NoAuth,
                             Unstamped
<1>2. TypeOK /\ VersionInv /\ [Next]_vars => VersionInv'
  BY NextVersionInv
<1>3. VersionInv => NoStampAheadOfPush
  BY DEF VersionInv
<1> QED
  BY <1>1, <1>2, <1>3, TypeCorrect, PTL DEF Spec
=============================================================================
