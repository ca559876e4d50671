------------------------ MODULE SentinelWatchProofs ------------------------
(***************************************************************************)
(* Proofs about SentinelWatch for every finite set of clusters, all sizes, *)
(* any capacity of the channel and every bound. The wait group counts the  *)
(* goroutines that run (CountInv), which is what a return of Start rests   *)
(* on; subscriptions are unique because a context is given out only when   *)
(* nobody carries it; and a promotion is followed because FollowInv tells  *)
(* the announcement that is owed from the others.                          *)
(***************************************************************************)
EXTENDS SentinelWatch, FiniteSetTheorems, TLAPS

(* There are finitely many goroutines. *)
LEMMA GoroutinesFinite == IsFiniteSet(Goroutines)
<1>1. IsFiniteSet(Sentinels) /\ IsFiniteSet(Contexts)
  <2>1. 1 \in Int /\ MaxSentinels \in Int /\ 2 * MaxEdits + 1 \in Int
    BY WatchAssumption
  <2> QED
    BY <2>1, FS_Interval DEF Sentinels, Contexts
<1>2. IsFiniteSet(Sentinels \X Contexts)
  BY <1>1, FS_Product
<1>3. IsFiniteSet(Clusters \X (Sentinels \X Contexts))
  BY <1>2, WatchAssumption, FS_Product
<1> DEFINE Pairs == Clusters \X (Sentinels \X Contexts)
           flat == [p \in Pairs |-> <<p[1], p[2][1], p[2][2]>>]
<1>4. flat \in Surjection(Pairs, Goroutines)
  <2>1. flat \in [Pairs -> Goroutines]
    BY DEF Goroutines
  <2>2. ASSUME NEW g \in Goroutines PROVE \E p \in Pairs : flat[p] = g
    <3>1. <<g[1], <<g[2], g[3]>> >> \in Pairs
      BY DEF Goroutines
    <3>2. flat[<<g[1], <<g[2], g[3]>> >>] = g
      BY <3>1 DEF Goroutines
    <3> QED
      BY <3>1, <3>2
  <2> QED
    BY <2>1, <2>2 DEF Surjection
<1> HIDE DEF flat
<1> QED
  BY <1>3, <1>4, FS_Surjection

Runners == {g \in Goroutines : Running(g)}

LEMMA RunnersFinite == IsFiniteSet(Runners) /\ Cardinality(Runners) \in 0..Cardinality(Goroutines)
<1>1. Runners \in SUBSET Goroutines
  BY DEF Runners
<1> QED
  BY <1>1, GoroutinesFinite, FS_Subset, FS_CardinalityType

(* The parts of a goroutine's name. *)
LEMMA GoroutineParts ==
    ASSUME NEW g \in Goroutines
    PROVE  g[1] \in Clusters /\ g[2] \in Sentinels /\ g[3] \in Contexts /\ g[2] \in Int /\ g[2] > 0
  BY DEF Goroutines, Sentinels

-----------------------------------------------------------------------------
(* Rounds of sync *)

(* The goroutines a round starts do not run yet. *)
LEMMA FreshIsFree ==
    ASSUME NEW c \in Clusters, Free(c) # {}
    PROVE  /\ Fresh(c) \in Contexts
           /\ \A g \in Goroutines : g[1] = c /\ g[3] = Fresh(c) => ~Running(g)
<1>1. Fresh(c) \in Free(c)
  BY DEF Fresh
<1> QED
  BY <1>1 DEF Free

Started == {g \in Goroutines : g[1] \in Begun /\ g[2] <= Desired(g[1]) /\ g[3] = Fresh(g[1])}

(* What a round does, goroutine by goroutine. *)
LEMMA SyncStarts ==
    ASSUME TypeOK, Sync
    PROVE  /\ Started \subseteq Goroutines \ Runners
           /\ at' = [g \in Goroutines |-> IF g \in Started THEN "wait" ELSE at[g]]
           /\ wg' = wg + Cardinality(Started)
<1>1. \A g \in Goroutines : g[1] \in Begun => context'[g[1]] = Fresh(g[1])
  BY GoroutineParts DEF Sync, Round, Begun
<1>2. Started = {g \in Goroutines : /\ g[1] \in Begun
                                    /\ g[2] <= Desired(g[1])
                                    /\ g[3] = context'[g[1]]}
  BY <1>1 DEF Started
<1>3. Started \subseteq Goroutines \ Runners
  BY FreshIsFree, GoroutineParts DEF Started, Runners, Sync, Round
<1>4. Spawn(Begun)
  BY DEF Sync, Round
<1> QED
  BY <1>2, <1>3, <1>4 DEF Spawn

-----------------------------------------------------------------------------
(* The wait group *)

LEMMA StepCountInv == TypeOK /\ CountInv /\ [Next]_vars => CountInv'
<1> SUFFICES ASSUME TypeOK, CountInv, [Next]_vars
             PROVE  CountInv'
  OBVIOUS
<1>0. wg = Cardinality(Runners) /\ (CountInv' <=> wg' = Cardinality(Runners'))
  BY DEF CountInv, Runners
<1>1. CASE UNCHANGED <<wg, at>>
  BY <1>0, <1>1 DEF Runners, Running
<1>2. CASE Sync
  <2>1. Runners' = Runners \cup Started
    BY <1>2, SyncStarts DEF Runners, Running
  <2>2. Runners \cap Started = {}
    BY <1>2, SyncStarts
  <2>3. IsFiniteSet(Started)
    BY GoroutinesFinite, FS_Subset DEF Started
  <2>4. Cardinality(Runners') = Cardinality(Runners) + Cardinality(Started) - Cardinality({})
    BY <2>1, <2>2, <2>3, RunnersFinite, FS_Union
  <2>5. Cardinality(Runners) \in Nat /\ Cardinality(Started) \in Nat
    BY <2>3, RunnersFinite, FS_CardinalityType
  <2> QED
    BY <1>0, <1>2, <2>4, <2>5, SyncStarts, FS_EmptySet
<1>3. ASSUME NEW g \in Goroutines, Running(g), AttemptEnds(g) PROVE CountInv'
  <2>1. CASE Cancelled(g)
    <3>1. Runners' = Runners \ {g}
      BY <1>3, <2>1 DEF AttemptEnds, Runners, Running, TypeOK
    <3>2. Cardinality(Runners \ {g}) = Cardinality(Runners) - 1
      BY <1>3, RunnersFinite, FS_RemoveElement DEF Runners
    <3> QED
      BY <1>0, <1>3, <2>1, <3>1, <3>2 DEF AttemptEnds
  <2>2. CASE ~Cancelled(g)
    <3>1. Runners' = Runners
      BY <1>3, <2>2 DEF AttemptEnds, Runners, Running, TypeOK
    <3> QED
      BY <1>0, <1>3, <2>2, <3>1 DEF AttemptEnds
  <2> QED
    BY <2>1, <2>2
<1>4. ASSUME NEW g \in Goroutines, NEW place \in Places \ {"none"}, Running(g),
             at' = [at EXCEPT ![g] = place], UNCHANGED wg
      PROVE  CountInv'
  <2>1. Runners' = Runners
    BY <1>4 DEF Runners, Running, TypeOK
  <2> QED
    BY <1>0, <1>4, <2>1
<1>5. ASSUME NEW g \in Goroutines, Goroutine(g) PROVE CountInv'
  <2>1. CASE Attempt(g)
    BY <1>3, <1>4, <2>1 DEF Attempt, Running, Places
  <2>2. CASE Dial(g)
    BY <1>3, <1>4, <2>2 DEF Dial, Running, Places
  <2>3. CASE Receive(g) \/ Send(g)
    BY <1>4, <2>3 DEF Receive, Send, Sends, Running, Places
  <2>4. CASE Close(g) \/ Break(g)
    BY <1>3, <2>4 DEF Close, Break, Running
  <2> QED
    BY <1>5, <2>1, <2>2, <2>3, <2>4 DEF Goroutine
<1>6. CASE CancelAll \/ Return \/ Reconciler \/ UNCHANGED vars
  BY <1>1, <1>6 DEF CancelAll, Return, Reconciler, Enqueue, Reconcile, vars, goroutine
<1>7. CASE Environment
  BY <1>1, <1>7
  DEF Environment, ContextEnds, Requeue, Delete, Finalize, ChangePassword, RecordPassword, Promote,
      Adopt, Announce, Resize, Create, goroutine
<1> QED
  BY <1>2, <1>5, <1>6, <1>7 DEF Next, Watcher

-----------------------------------------------------------------------------
(* Types *)

LEMMA InitTypeOK == Init => TypeOK /\ CountInv
<1> SUFFICES ASSUME Init
             PROVE  TypeOK /\ CountInv
  OBVIOUS
<1>1. CountInv
  <2>1. {g \in Goroutines : Running(g)} = {}
    BY DEF Init, Running
  <2> QED
    BY <2>1, FS_EmptySet DEF Init, CountInv
<1>2. wg \in 0..Cardinality(Goroutines)
  BY <1>1, RunnersFinite DEF CountInv, Runners
<1>3. MaxEdits \in Nat /\ MaxPromotions \in Nat /\ MaxFaults \in Nat /\ Buffer \in Nat
  BY WatchAssumption
<1>4. events \in Seq(Clusters) /\ Len(events) <= Buffer
  BY <1>3 DEF Init
<1>5. 1 \in Contexts
  BY <1>3 DEF Contexts
<1>6. /\ context \in [Clusters -> Contexts] /\ cancelled \in [Clusters -> SUBSET Contexts]
      /\ accepted \in [Clusters -> 0..MaxEdits] /\ recorded \in [Clusters -> 0..MaxEdits]
      /\ entry \in [Clusters -> Sentinels \cup {NoEntry}]
  BY <1>3, <1>5 DEF Init
<1>7. /\ at \in [Goroutines -> Places] /\ password \in [Goroutines -> 0..MaxEdits]
      /\ unread \in [Goroutines -> BOOLEAN]
  BY <1>3 DEF Init, Places
<1>8. /\ promoted \in [Clusters -> 0..MaxPromotions]
      /\ adopted \in [Clusters -> [Sentinels -> 0..MaxPromotions]]
      /\ view \in [Clusters -> 0..MaxPromotions]
      /\ owing \in [Clusters -> Sentinels \cup {Nobody}]
  BY <1>3 DEF Init
<1>9. /\ object \in [Clusters -> {"live", "deleting", "absent"}]
      /\ replicas \in [Clusters -> Sentinels] /\ \A c \in Clusters : replicas[c] \in Sizes[c]
  BY DEF Init
<1>10. /\ stage \in {"running", "waiting", "returned"} /\ ended \in BOOLEAN /\ queue \subseteq Clusters
  BY DEF Init
<1>11. edits \in 0..MaxEdits /\ faults \in 0..MaxFaults
  BY <1>3 DEF Init
<1> QED
  BY <1>1, <1>2, <1>4, <1>6, <1>7, <1>8, <1>9, <1>10, <1>11 DEF TypeOK

LEMMA NextTypeOK == TypeOK /\ CountInv /\ CountInv' /\ [Next]_vars => TypeOK'
<1> SUFFICES ASSUME TypeOK, CountInv', [Next]_vars
             PROVE  TypeOK'
  OBVIOUS
<1>0. wg' \in 0..Cardinality(Goroutines)
  <2>1. {g \in Goroutines : Running(g)}' \in SUBSET Goroutines
    OBVIOUS
  <2> QED
    BY <2>1, GoroutinesFinite, FS_Subset, FS_CardinalityType DEF CountInv
<1>b. /\ MaxEdits \in Nat /\ MaxPromotions \in Nat /\ MaxFaults \in Nat /\ Buffer \in Nat
      /\ \A c \in Clusters : Sizes[c] \subseteq Sentinels
  BY WatchAssumption DEF Sentinels
<1> USE <1>0, <1>b DEF TypeOK, resource, secret, start, table, goroutine, wakeups, master, bounds
<1>1. CASE UNCHANGED vars
  BY <1>1 DEF vars
<1>2. CASE Sync
  <2>1. /\ entry' \in [Clusters -> Sentinels \cup {NoEntry}]
        /\ cancelled' \in [Clusters -> SUBSET Contexts]
    BY <1>2 DEF Sync, Round, Desired
  <2>2. context' \in [Clusters -> Contexts]
    BY <1>2, FreshIsFree DEF Sync, Round
  <2>3. at' \in [Goroutines -> Places]
    BY <1>2, SyncStarts DEF Places
  <2> QED
    BY <1>2, <2>1, <2>2, <2>3 DEF Sync, Round
<1>3. CASE CancelAll
  BY <1>3 DEF CancelAll
<1>4. CASE Return
  BY <1>4 DEF Return
<1>5. ASSUME NEW reason, Fails(reason) PROVE edits' \in 0..MaxEdits /\ faults' \in 0..MaxFaults
  BY <1>5 DEF Fails, Fault
<1>6. ASSUME NEW g \in Goroutines, AttemptEnds(g)
      PROVE  /\ at' \in [Goroutines -> Places] /\ unread' \in [Goroutines -> BOOLEAN]
             /\ owing' \in [Clusters -> Sentinels \cup {Nobody}]
  BY <1>6, GoroutineParts DEF AttemptEnds, Loses, Places
<1>7. ASSUME NEW g \in Goroutines, Attempt(g) PROVE TypeOK'
  <2>1. password' \in [Goroutines -> 0..MaxEdits]
    BY ZenonT(60), <1>7, GoroutineParts DEF Attempt
  <2>2. /\ at' \in [Goroutines -> Places] /\ unread' \in [Goroutines -> BOOLEAN]
        /\ owing' \in [Clusters -> Sentinels \cup {Nobody}]
        /\ edits' \in 0..MaxEdits /\ faults' \in 0..MaxFaults
    BY <1>5, <1>6, <1>7 DEF Attempt, Places
  <2> QED
    BY <1>7, <2>1, <2>2 DEF Attempt
<1>8. ASSUME NEW g \in Goroutines, Dial(g) PROVE TypeOK'
  <2>1. password' \in [Goroutines -> 0..MaxEdits]
    BY <1>8 DEF Dial
  <2>2. /\ at' \in [Goroutines -> Places] /\ unread' \in [Goroutines -> BOOLEAN]
        /\ owing' \in [Clusters -> Sentinels \cup {Nobody}]
        /\ edits' \in 0..MaxEdits /\ faults' \in 0..MaxFaults
    BY <1>5, <1>6, <1>8 DEF Dial, Places
  <2> QED
    BY <1>8, <2>1, <2>2 DEF Dial
<1>9. ASSUME NEW g \in Goroutines, Send(g) PROVE TypeOK'
  <2>1. events' \in Seq(Clusters) /\ Len(events') <= Buffer
    <3>1. CASE Len(events) < Buffer /\ events' = Append(events, g[1])
      BY <3>1, GoroutineParts
    <3> QED
      BY <1>9, <3>1 DEF Send, Sends
  <2>2. at' \in [Goroutines -> Places]
    BY <1>9 DEF Send, Sends, Places
  <2>3. ASSUME Drops(g) PROVE owing' \in [Clusters -> Sentinels \cup {Nobody}]
    BY <2>3, GoroutineParts DEF Drops
  <2> QED
    BY <1>9, <2>1, <2>2, <2>3 DEF Send, Sends
<1>9a. ASSUME NEW g \in Goroutines, Receive(g) PROVE TypeOK'
  BY <1>9a DEF Receive, Places
<1>10. ASSUME NEW g \in Goroutines, Close(g) PROVE TypeOK'
  BY <1>6, <1>10 DEF Close
<1>11. ASSUME NEW g \in Goroutines, Break(g) PROVE TypeOK'
  BY <1>5, <1>6, <1>11 DEF Break
<1>12. CASE Enqueue
  <2>1. Head(events) \in Clusters /\ events' \in Seq(Clusters) /\ Len(events') <= Buffer
    BY SMTT(30), <1>12 DEF Enqueue
  <2> QED
    BY <1>12, <2>1 DEF Enqueue
<1>13. ASSUME NEW c \in Clusters, Reconcile(c) PROVE TypeOK'
  <2>1. view' \in [Clusters -> 0..MaxPromotions]
    <3>1. ASSUME NEW i \in Sentinels, view' = [view EXCEPT ![c] = adopted[c][i]]
          PROVE  view' \in [Clusters -> 0..MaxPromotions]
      <4>1. adopted[c][i] \in 0..MaxPromotions
        OBVIOUS
      <4> QED
        BY <3>1, <4>1
    <3> QED
      BY <1>13, <3>1 DEF Reconcile
  <2>2. queue' \subseteq Clusters
    BY <1>13 DEF Reconcile
  <2> QED
    BY <1>13, <2>1, <2>2 DEF Reconcile
<1>14. CASE ContextEnds
  BY <1>14 DEF ContextEnds
<1>15. ASSUME NEW c \in Clusters, Requeue(c) PROVE TypeOK'
  BY <1>15 DEF Requeue
<1>16. ASSUME NEW c \in Clusters, Delete(c) PROVE TypeOK'
  BY <1>16 DEF Delete, Edit
<1>17. ASSUME NEW c \in Clusters, Finalize(c) PROVE TypeOK'
  BY <1>17 DEF Finalize
<1>18. ASSUME NEW c \in Clusters, ChangePassword(c) PROVE TypeOK'
  <2>1. edits' \in 0..MaxEdits /\ UNCHANGED faults
    BY <1>18 DEF ChangePassword, Edit
  <2>2. accepted' \in [Clusters -> 0..MaxEdits]
    BY <1>18, <2>1 DEF ChangePassword
  <2> QED
    BY <1>18, <2>1, <2>2 DEF ChangePassword
<1>19. ASSUME NEW c \in Clusters, RecordPassword(c) PROVE TypeOK'
  BY <1>19 DEF RecordPassword
<1>20. ASSUME NEW c \in Clusters, NEW i \in Sentinels, promoted' \in [Clusters -> 0..MaxPromotions],
              Announce(c, i)
       PROVE  TypeOK'
  <2>1. adopted' \in [Clusters -> [Sentinels -> 0..MaxPromotions]]
    BY <1>20 DEF Announce
  <2>2. unread' \in [Goroutines -> BOOLEAN] /\ owing' \in [Clusters -> Sentinels \cup {Nobody}]
    BY <1>20 DEF Announce
  <2> QED
    BY <1>20, <2>1, <2>2 DEF Announce
<1>21. ASSUME NEW c \in Clusters, NEW i \in Sentinels, Promote(c, i) \/ Adopt(c, i) PROVE TypeOK'
  <2>1. promoted' \in [Clusters -> 0..MaxPromotions]
    <3>1. CASE Promote(c, i)
      <4>1. promoted[c] + 1 \in 0..MaxPromotions
        BY <3>1 DEF Promote
      <4> QED
        BY <3>1, <4>1 DEF Promote
    <3> QED
      BY <1>21, <3>1 DEF Adopt
  <2> QED
    BY <1>20, <1>21, <2>1 DEF Promote, Adopt
<1>22. ASSUME NEW c \in Clusters, NEW n, Settled(c, n)
       PROVE  /\ adopted' \in [Clusters -> [Sentinels -> 0..MaxPromotions]]
              /\ owing' \in [Clusters -> Sentinels \cup {Nobody}]
  <2>1. [i \in Sentinels |-> IF Exists(c, i) /\ i <= n THEN adopted[c][i] ELSE promoted[c]]
          \in [Sentinels -> 0..MaxPromotions]
    OBVIOUS
  <2> QED
    BY <1>22, <2>1 DEF Settled
<1>23. ASSUME NEW c \in Clusters, NEW n \in Sizes[c], Resize(c, n) PROVE TypeOK'
  <2>1. /\ replicas' \in [Clusters -> Sentinels]
        /\ \A d \in Clusters : replicas'[d] \in Sizes[d]
    BY <1>23 DEF Resize
  <2> QED
    BY SMTT(30), <1>22, <1>23, <2>1 DEF Resize, Edit, Settled
<1>24. ASSUME NEW c \in Clusters, NEW n \in Sizes[c], Create(c, n) PROVE TypeOK'
  <2>1. /\ replicas' \in [Clusters -> Sentinels]
        /\ \A d \in Clusters : replicas'[d] \in Sizes[d]
        /\ object' \in [Clusters -> {"live", "deleting", "absent"}]
    BY <1>24 DEF Create
  <2>2. Settled(c, n) /\ UNCHANGED <<secret, start, table, goroutine, wakeups, bounds>>
    BY <1>24 DEF Create
  <2>3. /\ adopted' \in [Clusters -> [Sentinels -> 0..MaxPromotions]]
        /\ owing' \in [Clusters -> Sentinels \cup {Nobody}]
        /\ UNCHANGED <<promoted, view>>
    BY <1>22, <2>2 DEF Settled
  <2> QED
    BY <2>1, <2>2, <2>3
<1>25. CASE Environment
  BY <1>14, <1>15, <1>16, <1>17, <1>18, <1>19, <1>21, <1>23, <1>24, <1>25 DEF Environment
<1>26. CASE \E g \in Goroutines : Goroutine(g)
  BY <1>7, <1>8, <1>9, <1>9a, <1>10, <1>11, <1>26 DEF Goroutine
<1> QED
  BY <1>1, <1>2, <1>3, <1>4, <1>12, <1>13, <1>25, <1>26 DEF Next, Watcher, Reconciler

-----------------------------------------------------------------------------
(* Subscriptions *)

LEMMA StepOneSubscriptionEach ==
    TypeOK /\ OneSubscriptionEach /\ [Next]_vars => OneSubscriptionEach'
<1> SUFFICES ASSUME TypeOK, OneSubscriptionEach, [Next]_vars
             PROVE  OneSubscriptionEach'
  OBVIOUS
(* Goroutines come to an end, contexts too, and the table stays. *)
<1>1. ASSUME UNCHANGED table, \A h \in Goroutines : Running(h)' => Running(h), ended => ended'
      PROVE  OneSubscriptionEach'
  <2> SUFFICES ASSUME NEW h \in Goroutines, Running(h)', ~Cancelled(h)'
               PROVE  h[3] = context'[h[1]] /\ h[2] <= entry'[h[1]]
    BY DEF OneSubscriptionEach
  <2>1. Running(h) /\ ~Cancelled(h)
    BY <1>1 DEF Cancelled, table
  <2> QED
    BY <1>1, <2>1 DEF OneSubscriptionEach, table
<1>2. CASE Sync
  <2> SUFFICES ASSUME NEW g \in Goroutines, Running(g)', ~Cancelled(g)'
               PROVE  g[3] = context'[g[1]] /\ g[2] <= entry'[g[1]]
    BY DEF OneSubscriptionEach
  <2> DEFINE c == g[1]
  <2>0. /\ c \in Clusters /\ g[2] \in Int /\ g[2] > 0
        /\ ~ended /\ g[3] \notin cancelled'[c]
        /\ entry'[c] = Desired(c)
        /\ cancelled'[c] = (IF c \in Stopped THEN cancelled[c] \cup {context[c]} ELSE cancelled[c])
                             \ (IF c \in Begun THEN {Fresh(c)} ELSE {})
        /\ context'[c] = IF c \in Begun THEN Fresh(c) ELSE context[c]
        /\ c \in Begun => Free(c) # {}
    BY <1>2, GoroutineParts DEF Sync, Round, Cancelled, start
  <2> HIDE DEF c
  <2>1. CASE g \in Started
    BY <2>0, <2>1 DEF Started, c
  <2>2. CASE g \notin Started
    <3>1. Running(g)
      BY <1>2, <2>2, SyncStarts DEF Running
    <3>2. c \in Begun => g[3] # Fresh(c)
      BY <2>0, <3>1, FreshIsFree DEF c
    <3>3. g[3] \notin cancelled[c] /\ (c \in Stopped => g[3] # context[c])
      BY <2>0, <3>2
    <3>4. ~Cancelled(g)
      BY <2>0, <3>3 DEF Cancelled, c
    <3>5. g[3] = context[c] /\ g[2] <= entry[c]
      BY <3>1, <3>4 DEF OneSubscriptionEach, c
    <3>6. entry[c] # NoEntry /\ c \notin Stopped
      BY <2>0, <3>3, <3>5 DEF NoEntry
    <3>7. entry[c] = Desired(c) /\ c \notin Begun
      BY <2>0, <3>6 DEF Stopped, Begun
    <3> QED
      BY <2>0, <3>5, <3>7 DEF c
  <2> QED
    BY <2>1, <2>2
<1>3. CASE CancelAll
  BY <1>3 DEF CancelAll, OneSubscriptionEach, Cancelled
<1>4. ASSUME NEW g \in Goroutines, Goroutine(g) PROVE OneSubscriptionEach'
  <2>1. UNCHANGED <<table, ended>>
    BY <1>4 DEF Goroutine, Attempt, Dial, Receive, Send, Sends, Close, Break, table, start
  <2>2. ASSUME NEW h \in Goroutines, Running(h)' PROVE Running(h)
    BY <1>4, <2>2
    DEF Goroutine, Attempt, Dial, Receive, Send, Sends, Close, Break, AttemptEnds, Running, TypeOK
  <2> QED
    BY <1>1, <2>1, <2>2
<1>5. CASE Return \/ Reconciler \/ UNCHANGED vars
  <2>1. UNCHANGED <<table, ended, at>>
    BY <1>5 DEF Return, Reconciler, Enqueue, Reconcile, vars, table, start, goroutine
  <2> QED
    BY <1>1, <2>1 DEF Running
<1>6. CASE Environment
  <2>1. UNCHANGED <<table, at>> /\ (ended => ended')
    BY <1>6
    DEF Environment, ContextEnds, Requeue, Delete, Finalize, ChangePassword, RecordPassword, Promote,
        Adopt, Announce, Resize, Create, table, start, goroutine
  <2> QED
    BY <1>1, <2>1 DEF Running
<1> QED
  BY <1>2, <1>3, <1>4, <1>5, <1>6 DEF Next, Watcher

-----------------------------------------------------------------------------
(* Promotions *)

(* A cluster that nobody looks at or announces for keeps its wake-up. *)
LEMMA FollowFrame ==
    ASSUME TypeOK, FollowInv, NEW c \in Clusters,
           owing'[c] \in {owing[c], Nobody},
           owing'[c] # Nobody =>
             /\ object'[c] # "absent" /\ replicas'[c] = replicas[c]
             /\ adopted'[c] = adopted[c] /\ view'[c] = view[c]
             /\ OnItsWay(c) => OnItsWay(c)'
    PROVE  Followed(c)'
<1> SUFFICES ASSUME owing'[c] # Nobody,
                    \A i \in Sentinels : Exists(c, i)' => adopted'[c][i] > view'[c]
             PROVE  OnItsWay(c)'
  BY DEF Followed
<1>1. owing[c] # Nobody /\ object[c] # "absent"
  BY DEF FollowInv, Followed
<1>2. \A i \in Sentinels : Exists(c, i) => adopted[c][i] > view[c]
  BY <1>1 DEF Exists
<1> QED
  BY <1>1, <1>2 DEF FollowInv, Followed

LEMMA StepFollowInv == TypeOK /\ FollowInv /\ [Next]_vars => FollowInv'
<1> SUFFICES ASSUME TypeOK, FollowInv, [Next]_vars, NEW c \in Clusters
             PROVE  Followed(c)'
  BY DEF FollowInv
<1> USE DEF resource, secret, start, table, goroutine, wakeups, master, bounds
<1>0. owing[c] # Nobody => object[c] # "absent"
  BY DEF FollowInv, Followed
<1>1. CASE Sync
  <2>1. ASSUME NEW g \in Goroutines, at[g] \in {"open", "send"} PROVE at'[g] = at[g]
    BY <1>1, <2>1, SyncStarts DEF Runners, Running
  <2>2. OnItsWay(c) => OnItsWay(c)'
    BY <1>1, <2>1 DEF Sync, Round, OnItsWay, Carries
  <2> QED
    BY <1>0, <1>1, <2>2, FollowFrame DEF Sync, Round
<1>2. CASE CancelAll \/ Return \/ ContextEnds \/ UNCHANGED vars
  <2>1. OnItsWay(c) => OnItsWay(c)'
    BY <1>2 DEF CancelAll, Return, ContextEnds, vars, OnItsWay, Carries
  <2> QED
    BY <1>0, <1>2, <2>1, FollowFrame DEF CancelAll, Return, ContextEnds, vars
(* A connection that goes may take the announcement with it, but then it is owed no more. *)
<1>3. ASSUME NEW g \in Goroutines, at[g] # "send", AttemptEnds(g),
             UNCHANGED <<resource, wakeups, master>>
      PROVE  Followed(c)'
  <2>1. owing'[c] \in {owing[c], Nobody}
    BY <1>3, GoroutineParts DEF AttemptEnds, Loses, TypeOK
  <2>2. ASSUME owing'[c] # Nobody, OnItsWay(c) PROVE OnItsWay(c)'
    <3>1. ASSUME NEW h \in Goroutines, h[1] = c, h[2] = owing[c], Carries(h)
          PROVE  OnItsWay(c)'
      <4>1. h # g
        BY <1>3, <2>2, <3>1 DEF AttemptEnds, Loses, Carries, TypeOK
      <4>2. at'[h] = at[h] /\ unread'[h] = unread[h] /\ owing'[c] = owing[c]
        BY <1>3, <2>1, <2>2, <4>1 DEF AttemptEnds, TypeOK
      <4> QED
        BY <3>1, <4>2 DEF OnItsWay, Carries
    <3> QED
      BY <1>3, <2>2, <3>1 DEF OnItsWay
  <2> QED
    BY <1>0, <1>3, <2>1, <2>2, FollowFrame
(* A connection on its way up loses nothing. *)
<1>4. ASSUME NEW g \in Goroutines, NEW place, at[g] \notin {"open", "send"},
             at' = [at EXCEPT ![g] = place], UNCHANGED <<resource, wakeups, master, unread, owing>>
      PROVE  Followed(c)'
  <2>1. OnItsWay(c) => OnItsWay(c)'
    BY <1>4 DEF OnItsWay, Carries, TypeOK
  <2> QED
    BY <1>0, <1>4, <2>1, FollowFrame
<1>5. ASSUME NEW g \in Goroutines, Attempt(g) \/ Dial(g) \/ Close(g) \/ Break(g)
      PROVE  Followed(c)'
  <2>1. CASE AttemptEnds(g)
    BY <1>3, <1>5, <2>1 DEF Attempt, Dial, Close, Break
  <2>2. CASE Attempt(g) /\ ~AttemptEnds(g)
    BY <1>4, <2>2 DEF Attempt
  <2>3. CASE Dial(g) /\ ~AttemptEnds(g)
    BY <1>4, <2>3 DEF Dial
  <2> QED
    BY <1>5, <2>1, <2>2, <2>3 DEF Close, Break
(* What is read is in the callback. *)
<1>6a. ASSUME NEW g \in Goroutines, Receive(g)
       PROVE  Followed(c)'
  <2>1. ASSUME NEW h \in Goroutines, Carries(h) PROVE Carries(h)'
    BY <1>6a, <2>1 DEF Receive, Carries, TypeOK
  <2>2. OnItsWay(c) => OnItsWay(c)'
    BY <1>6a, <2>1 DEF Receive, OnItsWay
  <2> QED
    BY <1>0, <1>6a, <2>2, FollowFrame DEF Receive
<1>6. ASSUME NEW g \in Goroutines, Send(g)
      PROVE  Followed(c)'
  <2>1. owing'[c] \in {owing[c], Nobody}
    BY <1>6, GoroutineParts DEF Send, Sends, Drops, TypeOK
  <2>2. ASSUME NEW h \in Goroutines, h # g PROVE Carries(h)' <=> Carries(h)
    BY <1>6, <2>2 DEF Send, Sends, Carries, TypeOK
  <2>3. CASE events' = Append(events, g[1]) /\ UNCHANGED owing
    <3>0. events \in Seq(Clusters) /\ g[1] \in Clusters /\ Len(events) \in Nat
      BY GoroutineParts DEF TypeOK
    <3>1. Len(events) + 1 \in DOMAIN events' /\ events'[Len(events) + 1] = g[1]
      BY <2>3, <3>0
    <3>2. \A k \in DOMAIN events : k \in DOMAIN events' /\ events'[k] = events[k]
      BY <2>3, <3>0
    <3>3. g[1] = c => OnItsWay(c)'
      BY <3>1 DEF OnItsWay
    <3>4. OnItsWay(c) => OnItsWay(c)'
      BY <1>6, <2>2, <2>3, <3>2, <3>3 DEF Send, Sends, OnItsWay
    <3> QED
      BY <1>0, <1>6, <2>1, <3>4, FollowFrame DEF Send, Sends
  <2>4. CASE UNCHANGED events /\ Drops(g)
    <3>1. ASSUME owing'[c] # Nobody, OnItsWay(c) PROVE OnItsWay(c)'
      <4>1. ASSUME g[1] = c, g[2] = owing[c] PROVE Carries(g)'
        <5>1. unread[g]
          BY <1>6, <2>4, <3>1, <4>1 DEF Drops, TypeOK
        <5> QED
          BY <1>6, <5>1 DEF Send, Sends, Carries, TypeOK
      <4>2. owing'[c] = owing[c]
        BY <2>1, <3>1
      <4> QED
        BY <1>6, <2>2, <2>4, <3>1, <4>1, <4>2 DEF Send, Sends, OnItsWay
    <3> QED
      BY <1>0, <1>6, <2>1, <3>1, FollowFrame DEF Send, Sends
  <2> QED
    BY <1>6, <2>3, <2>4 DEF Send, Sends
<1>7. CASE Enqueue
  <2>1. ASSUME NEW k \in DOMAIN events, events[k] = c PROVE OnItsWay(c)'
    <3>1. CASE k = 1
      BY <1>7, <2>1, <3>1 DEF Enqueue, OnItsWay, TypeOK
    <3>2. CASE k # 1
      <4>1. k - 1 \in DOMAIN events' /\ events'[k - 1] = c
        <5>1. events \in Seq(Clusters) /\ events' = Tail(events) /\ events # <<>>
          BY <1>7 DEF Enqueue, TypeOK
        <5>2. k \in 2..Len(events) /\ Len(events) \in Nat
          BY <2>1, <3>2, <5>1
        <5> QED
          BY <2>1, <5>1, <5>2
      <4> QED
        BY <4>1 DEF OnItsWay
    <3> QED
      BY <3>1, <3>2
  <2>2. OnItsWay(c) => OnItsWay(c)'
    BY <1>7, <2>1 DEF Enqueue, OnItsWay, Carries
  <2> QED
    BY <1>0, <1>7, <2>2, FollowFrame DEF Enqueue
(* After a pass the reconciler knows what one of the Sentinels knows. *)
<1>8. ASSUME NEW d \in Clusters, Reconcile(d)
      PROVE  Followed(c)'
  <2>1. CASE d = c /\ object[c] # "absent"
    <3>1. PICK i \in Sentinels : Exists(c, i) /\ view' = [view EXCEPT ![c] = adopted[c][i]]
      BY <1>8, <2>1 DEF Reconcile
    <3>2. Exists(c, i)' /\ adopted'[c][i] = view'[c] /\ view'[c] \in Int
      BY <1>8, <3>1 DEF Reconcile, Exists, TypeOK
    <3> QED
      BY <1>0, <1>8, <3>2 DEF Reconcile, Followed
  <2>2. CASE d = c /\ object[c] = "absent"
    BY <1>0, <1>8, <2>2 DEF Reconcile, Followed
  <2>3. CASE d # c
    <3>1. view'[c] = view[c]
      BY <1>8, <2>3 DEF Reconcile, TypeOK
    <3>2. OnItsWay(c) => OnItsWay(c)'
      BY <1>8, <2>3 DEF Reconcile, OnItsWay, Carries
    <3> QED
      BY <1>0, <1>8, <3>1, <3>2, FollowFrame DEF Reconcile
  <2> QED
    BY <2>1, <2>2, <2>3
<1>9. ASSUME NEW d \in Clusters,
             Requeue(d) \/ Delete(d) \/ Finalize(d) \/ ChangePassword(d) \/ RecordPassword(d)
      PROVE  Followed(c)'
  <2>1. owing'[c] \in {owing[c], Nobody}
    BY <1>9 DEF Requeue, Delete, Finalize, ChangePassword, RecordPassword, TypeOK
  <2>2. owing'[c] # Nobody => object'[c] # "absent"
    BY <1>0, <1>9 DEF Requeue, Delete, Finalize, ChangePassword, RecordPassword, TypeOK
  <2>3. OnItsWay(c) /\ owing'[c] = owing[c] => OnItsWay(c)'
    BY <1>9 DEF Requeue, Delete, Finalize, ChangePassword, RecordPassword, OnItsWay,
           Carries
  <2>4. UNCHANGED <<replicas, adopted, view>>
    BY <1>9 DEF Requeue, Delete, Finalize, ChangePassword, RecordPassword
  <2> QED
    BY <2>1, <2>2, <2>3, <2>4, FollowFrame
<1>10. ASSUME NEW d \in Clusters, NEW i \in Sentinels, Promote(d, i) \/ Adopt(d, i)
       PROVE  Followed(c)'
  <2>0. Announce(d, i) /\ Exists(d, i)
    BY <1>10 DEF Promote, Adopt
  <2> DEFINE listening ==
               {g \in Goroutines : g[1] = d /\ g[2] = i /\ at[g] \in {"open", "send"}}
  <2>1. CASE d = c
    <3>1. CASE listening = {}
      BY <2>0, <2>1, <3>1 DEF Announce, TypeOK, Followed
    <3>2. CASE listening # {}
      <4>1. PICK g \in Goroutines : g[1] = c /\ g[2] = i /\ at[g] \in {"open", "send"}
        BY <2>1, <3>2
      <4>2. Carries(g)' /\ owing'[c] = i
        BY <2>0, <2>1, <3>2, <4>1 DEF Announce, Carries, TypeOK
      <4>3. OnItsWay(c)'
        BY <4>1, <4>2 DEF OnItsWay
      <4> QED
        BY <2>0, <2>1, <4>3 DEF Announce, Exists, Followed
    <3> QED
      BY <3>1, <3>2
  <2>2. CASE d # c
    <3>1. owing'[c] = owing[c] /\ adopted'[c] = adopted[c]
      BY <2>0, <2>2 DEF Announce, TypeOK
    <3>2. ASSUME NEW g \in Goroutines, unread[g] PROVE unread'[g]
      BY <2>0, <3>2 DEF Announce
    <3>3. OnItsWay(c) => OnItsWay(c)'
      BY <2>0, <3>1, <3>2 DEF Announce, OnItsWay, Carries
    <3> QED
      BY <1>0, <2>0, <3>1, <3>3, FollowFrame DEF Announce
  <2> QED
    BY <2>1, <2>2
<1>11. ASSUME NEW d \in Clusters, NEW n, Resize(d, n) \/ Create(d, n)
       PROVE  Followed(c)'
  <2>0. Settled(d, n) /\ UNCHANGED <<goroutine, wakeups>>
    BY <1>11 DEF Resize, Create
  <2>1. CASE d = c
    BY <2>0, <2>1 DEF Settled, TypeOK, Followed
  <2>2. CASE d # c
    <3>1. owing'[c] = owing[c] /\ adopted'[c] = adopted[c] /\ view' = view
      BY <2>0, <2>2 DEF Settled, TypeOK
    <3>2. object'[c] = object[c] /\ replicas'[c] = replicas[c]
      BY <1>11, <2>2 DEF Resize, Create, TypeOK
    <3>3. OnItsWay(c) => OnItsWay(c)'
      BY <2>0, <3>1 DEF OnItsWay, Carries
    <3> QED
      BY <1>0, <3>1, <3>2, <3>3, FollowFrame
  <2> QED
    BY <2>1, <2>2
<1>12. CASE Environment
  BY <1>2, <1>9, <1>10, <1>11, <1>12 DEF Environment
<1>13. CASE \E g \in Goroutines : Goroutine(g)
  BY <1>5, <1>6, <1>6a, <1>13 DEF Goroutine
<1> QED
  BY <1>1, <1>2, <1>7, <1>8, <1>12, <1>13 DEF Next, Watcher, Reconciler

-----------------------------------------------------------------------------
(* The theorems *)

(* Start returns only when the wait group is empty, and nothing is started  *)
(* afterwards.                                                              *)
LEMMA StepNothingOutlivesStart ==
    TypeOK /\ CountInv /\ NothingOutlivesStart /\ [Next]_vars => NothingOutlivesStart'
<1> SUFFICES ASSUME TypeOK, CountInv, NothingOutlivesStart, [Next]_vars, stage' = "returned"
             PROVE  \A g \in Goroutines : ~Running(g)'
  BY DEF NothingOutlivesStart
<1>1. CASE Return
  <2>1. Cardinality(Runners) = 0
    BY <1>1 DEF Return, CountInv, Runners
  <2>2. Runners = {}
    BY <2>1, RunnersFinite, FS_EmptySet
  <2> QED
    BY <1>1, <2>2 DEF Return, Runners, Running, goroutine
<1>2. CASE ~Return
  <2>1. stage = "returned"
    BY <1>2
    DEF Next, Watcher, Sync, Round, CancelAll, Reconciler, Enqueue, Reconcile, Environment, ContextEnds,
        Requeue, Delete, Finalize, ChangePassword, RecordPassword, Promote, Adopt, Announce, Resize,
        Create, Goroutine, Attempt, Dial, Receive, Send, Sends, Close, Break, start, vars
  <2>2. \A g \in Goroutines : at[g] = "none"
    BY <2>1 DEF NothingOutlivesStart, Running
  <2>3. ~Sync /\ ~CancelAll /\ ~\E g \in Goroutines : Goroutine(g)
    BY <2>1, <2>2 DEF Sync, Round, CancelAll, Goroutine, Attempt, Dial, Receive, Send, Sends, Close, Break
  <2>4. CASE Reconciler \/ UNCHANGED vars
    BY <2>2, <2>4 DEF Reconciler, Enqueue, Reconcile, vars, goroutine, Running
  <2>5. CASE Environment
    <3>1. UNCHANGED at
      BY <2>5
      DEF Environment, ContextEnds, Requeue, Delete, Finalize, ChangePassword, RecordPassword,
          Promote, Adopt, Announce, Resize, Create, goroutine
    <3> QED
      BY <2>2, <3>1 DEF Running
  <2> QED
    BY <1>2, <2>3, <2>4, <2>5 DEF Next, Watcher
<1> QED
  BY <1>1, <1>2

LEMMA InitIndInv == Init => IndInv
<1> SUFFICES ASSUME Init
             PROVE  IndInv
  OBVIOUS
<1>1. NothingOutlivesStart /\ OneSubscriptionEach
  BY DEF Init, NothingOutlivesStart, OneSubscriptionEach, Running
<1>2. FollowInv
  BY DEF Init, FollowInv, Followed
<1> QED
  BY <1>1, <1>2, InitTypeOK DEF IndInv

LEMMA StepIndInv == IndInv /\ [Next]_vars => IndInv'
  BY NextTypeOK, StepCountInv, StepNothingOutlivesStart, StepOneSubscriptionEach, StepFollowInv
  DEF IndInv

(* The invariant of the watcher holds in every reachable state. *)
THEOREM Invariance == Spec => []IndInv
  BY InitIndInv, StepIndInv, PTL DEF Spec

(* The channel of events stays within its capacity, the wait group never    *)
(* goes below zero, and everything else has its declared type.              *)
THEOREM TypeCorrect == Spec => []TypeOK
<1>1. IndInv => TypeOK
  BY DEF IndInv
<1> QED
  BY <1>1, Invariance, PTL

(* When Start returns no goroutine of the watcher is left. *)
THEOREM ShutdownCorrect == Spec => []NothingOutlivesStart
<1>1. IndInv => NothingOutlivesStart
  BY DEF IndInv
<1> QED
  BY <1>1, Invariance, PTL

(* However clusters come, go and change size, sync leaves at most one       *)
(* subscription per Sentinel that is not cancelled.                         *)
THEOREM SubscriptionsCorrect == Spec => []OneSubscriptionEach
<1>1. IndInv => OneSubscriptionEach
  BY DEF IndInv
<1> QED
  BY <1>1, Invariance, PTL

(* A promotion every Sentinel has adopted wakes the reconciler, unless its  *)
(* last announcement was lost.                                              *)
THEOREM PromotionsCorrect == Spec => []PromotionIsFollowed
<1>1. IndInv => PromotionIsFollowed
  <2>1. ASSUME NEW c \in Clusters, OnItsWay(c) PROVE Woken(c)
    BY <2>1 DEF OnItsWay, Woken
  <2> QED
    BY <2>1 DEF IndInv, FollowInv, Followed, PromotionIsFollowed
<1> QED
  BY <1>1, Invariance, PTL
=============================================================================
