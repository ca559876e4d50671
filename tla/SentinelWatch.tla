--------------------------- MODULE SentinelWatch ---------------------------
(***************************************************************************)
(* The subscriptions that wake the RedisSentinel reconciler when a         *)
(* Sentinel announces a promotion (internal/sentinelwatch/watcher.go,      *)
(* internal/sentinel/events.go), and what a wake-up is for: the            *)
(* reconciler's view of the master.                                        *)
(*                                                                         *)
(* One goroutine per Sentinel of every cluster resolves the password,      *)
(* dials, subscribes to +switch-master and puts a reference to its cluster *)
(* into a bounded channel for every announcement; the send never blocks.   *)
(* sync follows the RedisSentinels: the goroutines of a cluster share a    *)
(* context that it cancels when the cluster goes or its list of Sentinels  *)
(* changes. A cancelled goroutine goes on until it notices, next to the    *)
(* one that replaces it.                                                   *)
(*                                                                         *)
(* Abstractions: the list of addresses is its length, which determines it; *)
(* a number stands for a context and its CancelFunc; a wait is a wait,    *)
(* however long (its doubling, and the reset after a long connection, only *)
(* set the rate of dialling); announcements of one Sentinel not yet read   *)
(* are one; names other than the cluster's own master, which the callback  *)
(* passes over without a trace, are not published; a round of sync is one  *)
(* step, an edit between its List and its diff having the effect of an     *)
(* edit after it, and one whose List fails changes nothing.                *)
(***************************************************************************)
EXTENDS Integers, FiniteSets, Sequences

CONSTANTS
    Clusters,       \* RedisSentinels
    Sizes,          \* the values of spec.sentinelConfig.replicas of each cluster
    MaxSentinels,   \* the largest of them
    Buffer,         \* capacity of the channel of events
    MaxPromotions,  \* bound on the promotions of a cluster
    MaxEdits,       \* bound on resizes, deletions and password changes
    MaxFaults       \* bound on failed calls and broken connections

ASSUME WatchAssumption ==
    /\ IsFiniteSet(Clusters) /\ MaxSentinels \in Nat
    /\ Sizes \in [Clusters -> SUBSET (1..MaxSentinels) \ {{}}]
    /\ Buffer \in Nat \ {0}
    /\ {MaxPromotions, MaxEdits, MaxFaults} \subseteq Nat

Sentinels == 1..MaxSentinels
NoEntry == 0          \* a cluster without subscriptions
Nobody == 0           \* no Sentinel
Contexts == 1..(2 * MaxEdits + 1)
Goroutines == Clusters \X Sentinels \X Contexts
Places == {"none", "wait", "dial", "open", "send"}

VARIABLES
    object,     \* "live", "deleting" or "absent"
    replicas,   \* spec.sentinelConfig.replicas
    accepted,   \* the password the Sentinels require
    recorded,   \* the password AdminPassword returns
    stage,      \* Start: "running", "waiting" for the goroutines, "returned"
    ended,      \* whether the manager's context has ended
    entry,      \* the watcher's map: the fingerprint of a cluster, or NoEntry
    context,    \* the last context made for a cluster, forgotten contexts reused
    cancelled,  \* the contexts that were cancelled
    wg,         \* the wait group
    at,         \* where a goroutine is
    password,   \* what it resolved and is about to dial with
    unread,     \* whether an announcement on its connection is not yet read
    events,     \* the channel
    queue,      \* the reconciler's workqueue
    promoted,   \* promotions of a cluster so far
    adopted,    \* the last of them a Sentinel has adopted
    view,       \* the last of them the reconciler knows
    owing,      \* history: the last Sentinel to adopt, if its announcement is
                \* on its way to the reconciler, else Nobody
    edits, faults

resource == <<object, replicas>>
secret == <<accepted, recorded>>
start == <<stage, ended>>
table == <<entry, context, cancelled>>
goroutine == <<wg, at, password, unread>>
wakeups == <<events, queue>>
master == <<promoted, adopted, view>>
bounds == <<edits, faults>>
vars == <<resource, secret, start, table, goroutine, wakeups, master, owing, bounds>>

TypeOK ==
    /\ object \in [Clusters -> {"live", "deleting", "absent"}]
    /\ replicas \in [Clusters -> Sentinels] /\ \A c \in Clusters : replicas[c] \in Sizes[c]
    /\ accepted \in [Clusters -> 0..MaxEdits] /\ recorded \in [Clusters -> 0..MaxEdits]
    /\ stage \in {"running", "waiting", "returned"} /\ ended \in BOOLEAN
    /\ entry \in [Clusters -> Sentinels \cup {NoEntry}]
    /\ context \in [Clusters -> Contexts]
    /\ cancelled \in [Clusters -> SUBSET Contexts]
    /\ wg \in 0..Cardinality(Goroutines)
    /\ at \in [Goroutines -> Places]
    /\ password \in [Goroutines -> 0..MaxEdits]
    /\ unread \in [Goroutines -> BOOLEAN]
    /\ events \in Seq(Clusters) /\ Len(events) <= Buffer
    /\ queue \subseteq Clusters
    /\ promoted \in [Clusters -> 0..MaxPromotions]
    /\ adopted \in [Clusters -> [Sentinels -> 0..MaxPromotions]]
    /\ view \in [Clusters -> 0..MaxPromotions]
    /\ owing \in [Clusters -> Sentinels \cup {Nobody}]
    /\ edits \in 0..MaxEdits /\ faults \in 0..MaxFaults

Init ==
    /\ object = [c \in Clusters |-> "live"]
    /\ replicas \in [Clusters -> Sentinels] /\ \A c \in Clusters : replicas[c] \in Sizes[c]
    /\ accepted = [c \in Clusters |-> 0] /\ recorded = accepted
    /\ stage = "running" /\ ended = FALSE
    /\ entry = [c \in Clusters |-> NoEntry]
    /\ context = [c \in Clusters |-> 1]
    /\ cancelled = [c \in Clusters |-> {}]
    /\ wg = 0
    /\ at = [g \in Goroutines |-> "none"]
    /\ password = [g \in Goroutines |-> 0]
    /\ unread = [g \in Goroutines |-> FALSE]
    /\ events = <<>> /\ queue = {}
    /\ promoted = [c \in Clusters |-> 0]
    /\ adopted = [c \in Clusters |-> [i \in Sentinels |-> 0]]
    /\ view = [c \in Clusters |-> 0]
    /\ owing = [c \in Clusters |-> Nobody]
    /\ edits = 0 /\ faults = 0

(* The Sentinels that run: those of a cluster that exists, by ordinal. *)
Exists(c, i) == object[c] # "absent" /\ i <= replicas[c]

(* A goroutine that has been started and has not returned, and one whose    *)
(* context has ended: its own, or the manager's from which it derives.      *)
Running(g) == at[g] # "none"
Cancelled(g) == ended \/ g[3] \in cancelled[g[1]]

Fault ==
    /\ faults < MaxFaults
    /\ faults' = faults + 1
    /\ UNCHANGED edits

(* A call that fails for a reason, or for none. *)
Fails(reason) ==
    \/ reason /\ UNCHANGED bounds
    \/ Fault

-----------------------------------------------------------------------------
(* sync and Start *)

(* The fingerprint sync wants for a cluster: none for one that is gone or   *)
(* going.                                                                   *)
Desired(c) == IF object[c] = "live" THEN replicas[c] ELSE NoEntry

(* The clusters whose goroutines a round stops, and those it starts some    *)
(* for; a cluster whose list has changed is both.                           *)
Stopped == {c \in Clusters : entry[c] # NoEntry /\ entry[c] # Desired(c)}
Begun == {c \in Clusters : Desired(c) # NoEntry /\ entry[c] # Desired(c)}

(* The contexts that no goroutine of the cluster still carries. *)
Free(c) == {k \in Contexts : \A g \in Goroutines : g[1] = c /\ g[3] = k => ~Running(g)}
Fresh(c) == CHOOSE k \in Free(c) : TRUE

(* The goroutines sync starts for the clusters of S, and their place in the *)
(* wait group, taken before they run.                                       *)
SpawnUncounted(S) ==
    LET started == {g \in Goroutines : /\ g[1] \in S
                                       /\ g[2] <= Desired(g[1])
                                       /\ g[3] = context'[g[1]]}
    IN  /\ at' = [g \in Goroutines |-> IF g \in started THEN "wait" ELSE at[g]]
        /\ wg' = wg + Cardinality(S)

Spawn(S) ==
    LET started == {g \in Goroutines : /\ g[1] \in S
                                       /\ g[2] <= Desired(g[1])
                                       /\ g[3] = context'[g[1]]}
    IN  /\ at' = [g \in Goroutines |-> IF g \in started THEN "wait" ELSE at[g]]
        /\ wg' = wg + Cardinality(started)

(* The bound on contexts is one on rounds that start goroutines. *)
Round(stopped) ==
    /\ stage = "running"
    /\ \A c \in Begun : Free(c) # {}
    /\ entry' = [c \in Clusters |-> Desired(c)]
    /\ cancelled' = [c \in Clusters |->
                       (IF c \in stopped THEN cancelled[c] \cup {context[c]} ELSE cancelled[c])
                       \ (IF c \in Begun THEN {Fresh(c)} ELSE {})]
    /\ context' = [c \in Clusters |-> IF c \in Begun THEN Fresh(c) ELSE context[c]]
    /\ Spawn(Begun)
    /\ UNCHANGED <<resource, secret, start, password, unread, wakeups, master, owing, bounds>>

SyncLeaking == Round(Stopped \ Begun)

Sync == Round(Stopped)

(* The manager stops, or loses its lease. *)
ContextEnds ==
    /\ ~ended
    /\ ended' = TRUE
    /\ UNCHANGED <<resource, secret, stage, table, goroutine, wakeups, master, owing, bounds>>

(* Start after the end: every entry is cancelled and dropped, and then it   *)
(* waits. Until select gets here the ticker may win another round of sync.  *)
CancelAll ==
    /\ stage = "running" /\ ended
    /\ stage' = "waiting"
    /\ cancelled' = [c \in Clusters |-> IF entry[c] = NoEntry THEN cancelled[c]
                                        ELSE cancelled[c] \cup {context[c]}]
    /\ entry' = [c \in Clusters |-> NoEntry]
    /\ UNCHANGED <<resource, secret, ended, context, goroutine, wakeups, master, owing, bounds>>

Return ==
    /\ stage = "waiting" /\ wg = 0
    /\ stage' = "returned"
    /\ UNCHANGED <<resource, secret, ended, table, goroutine, wakeups, master, owing, bounds>>

-----------------------------------------------------------------------------
(* run, attempt and SubscribeSwitchMaster, in goroutine g *)

(* An announcement that g's connection takes with it is owed no more. *)
Loses(g) ==
    owing' = [owing EXCEPT ![g[1]] = IF unread[g] /\ owing[g[1]] = g[2]
                                     THEN Nobody ELSE @]

(* attempt is over: run returns if the context has ended, else it waits. *)
AttemptEnds(g) ==
    /\ at' = [at EXCEPT ![g] = IF Cancelled(g) THEN "none" ELSE "wait"]
    /\ wg' = IF Cancelled(g) THEN wg - 1 ELSE wg
    /\ unread' = [unread EXCEPT ![g] = FALSE]
    /\ Loses(g)

(* A new goroutine, or one whose wait is over, makes an attempt unless its  *)
(* context has ended. The password is resolved afresh; a cluster that is    *)
(* gone, or TLS material that cannot be read, ends the attempt.             *)
AttemptAsBefore(g) ==
    /\ at[g] = "wait"
    /\ \/ /\ object[g[1]] # "absent" /\ ~Cancelled(g)
          /\ at' = [at EXCEPT ![g] = "dial"]
          /\ UNCHANGED <<wg, password, unread, owing, bounds>>
       \/ /\ Fails(object[g[1]] = "absent" \/ Cancelled(g))
          /\ AttemptEnds(g)
          /\ UNCHANGED password
    /\ UNCHANGED <<resource, secret, start, table, wakeups, master>>

Attempt(g) ==
    /\ at[g] = "wait"
    /\ \/ /\ object[g[1]] # "absent" /\ ~Cancelled(g)
          /\ password' = [password EXCEPT ![g] = recorded[g[1]]]
          /\ at' = [at EXCEPT ![g] = "dial"]
          /\ UNCHANGED <<wg, unread, owing, bounds>>
       \/ /\ Fails(object[g[1]] = "absent" \/ Cancelled(g))
          /\ AttemptEnds(g)
          /\ UNCHANGED password
    /\ UNCHANGED <<resource, secret, start, table, wakeups, master>>

(* A Sentinel that runs lets in who knows its password. *)
Admits(g) == Exists(g[1], g[2]) /\ password[g] = accepted[g[1]] /\ ~Cancelled(g)

Dial(g) ==
    /\ at[g] = "dial"
    /\ \/ /\ Admits(g)
          /\ at' = [at EXCEPT ![g] = "open"]
          /\ UNCHANGED <<wg, unread, owing, bounds>>
       \/ /\ Fails(~Admits(g))
          /\ AttemptEnds(g)
    /\ password' = [password EXCEPT ![g] = 0]
    /\ UNCHANGED <<resource, secret, start, table, wakeups, master>>

(* The read returns an announcement, and the callback has it. A goroutine  *)
(* that is cancelled and has not noticed reads on.                          *)
Receive(g) ==
    /\ at[g] = "open" /\ unread[g]
    /\ at' = [at EXCEPT ![g] = "send"]
    /\ unread' = [unread EXCEPT ![g] = FALSE]
    /\ UNCHANGED <<resource, secret, start, table, wg, password, wakeups, master, owing, bounds>>

(* The callback puts a reference to the cluster into the channel, or drops  *)
(* it when the channel is full: what it had to tell is owed no more, unless *)
(* another announcement is there to be read.                                *)
Drops(g) ==
    owing' = [owing EXCEPT ![g[1]] = IF ~unread[g] /\ owing[g[1]] = g[2] THEN Nobody ELSE @]

Sends(g, put) ==
    /\ at[g] = "send"
    /\ at' = [at EXCEPT ![g] = "open"]
    /\ put
    /\ UNCHANGED <<resource, secret, start, table, wg, password, unread, queue, master, bounds>>

SendShort(g) ==
    Sends(g, \/ Len(events) < Buffer - 1 /\ events' = Append(events, g[1]) /\ UNCHANGED owing
             \/ Len(events) = Buffer - 1 /\ UNCHANGED <<events, owing>>
             \/ Len(events) = Buffer /\ UNCHANGED events /\ Drops(g))

SendUnbounded(g) == Sends(g, events' = Append(events, g[1]) /\ UNCHANGED owing)

SendBlocking(g) ==
    Sends(g, Len(events) < Buffer /\ events' = Append(events, g[1]) /\ UNCHANGED owing)

Send(g) ==
    Sends(g, \/ Len(events) < Buffer /\ events' = Append(events, g[1]) /\ UNCHANGED owing
             \/ Len(events) = Buffer /\ UNCHANGED events /\ Drops(g))

(* The end of the context closes the connection from the side, which is     *)
(* what gets a blocked read to return; a callback it does not interrupt.    *)
Close(g) ==
    /\ at[g] = "open" /\ Cancelled(g)
    /\ AttemptEnds(g)
    /\ UNCHANGED <<resource, secret, start, table, password, wakeups, master, bounds>>

(* A connection breaks, as it does when its Sentinel goes; the next read    *)
(* tells.                                                                   *)
Break(g) ==
    /\ at[g] = "open"
    /\ Fails(~Exists(g[1], g[2]))
    /\ AttemptEnds(g)
    /\ UNCHANGED <<resource, secret, start, table, password, wakeups, master>>

-----------------------------------------------------------------------------
(* The reconciler *)

(* The source turns a reference into a request; requests collapse. Both     *)
(* ends of the channel stop with the manager, and nobody waits for either.  *)
Enqueue ==
    /\ ~ended /\ events # <<>>
    /\ queue' = queue \cup {Head(events)}
    /\ events' = Tail(events)
    /\ UNCHANGED <<resource, secret, start, table, goroutine, master, owing, bounds>>

(* The periodic pass, at any time. *)
Requeue(c) ==
    /\ ~ended
    /\ queue' = queue \cup {c}
    /\ UNCHANGED <<resource, secret, start, table, goroutine, events, master, owing, bounds>>

(* A pass asks the first Sentinel that answers, which need not be one that  *)
(* has adopted the promotion.                                               *)
Reconcile(c) ==
    /\ ~ended /\ c \in queue
    /\ queue' = queue \ {c}
    /\ \/ \E i \in Sentinels : Exists(c, i) /\ view' = [view EXCEPT ![c] = adopted[c][i]]
       \/ object[c] = "absent" /\ UNCHANGED view
    /\ UNCHANGED <<resource, secret, start, table, goroutine, events, promoted, adopted,
                   owing, bounds>>

-----------------------------------------------------------------------------
(* The Sentinels and the user *)

(* Sentinel i adopts the latest master and tells whoever is subscribed. *)
Announce(c, i) ==
    /\ adopted' = [adopted EXCEPT ![c][i] = promoted'[c]]
    /\ LET listening == {g \in Goroutines : g[1] = c /\ g[2] = i /\ at[g] \in {"open", "send"}}
       IN  /\ unread' = [g \in Goroutines |-> g \in listening \/ unread[g]]
           /\ owing' = [owing EXCEPT ![c] = IF listening = {} THEN Nobody ELSE i]
    /\ UNCHANGED <<resource, secret, start, table, wg, at, password, wakeups, view, bounds>>

(* Sentinel i leads a failover; the others learn of it later. *)
Promote(c, i) ==
    /\ Exists(c, i) /\ promoted[c] < MaxPromotions
    /\ promoted' = [promoted EXCEPT ![c] = @ + 1]
    /\ Announce(c, i)

Adopt(c, i) ==
    /\ Exists(c, i) /\ adopted[c][i] < promoted[c]
    /\ UNCHANGED promoted
    /\ Announce(c, i)

Edit ==
    /\ edits < MaxEdits
    /\ edits' = edits + 1
    /\ UNCHANGED faults

(* The Sentinels of a new set start from what the cluster is, and announce  *)
(* nothing.                                                                 *)
Settled(c, n) ==
    /\ adopted' = [adopted EXCEPT ![c] = [i \in Sentinels |->
                     IF Exists(c, i) /\ i <= n THEN @[i] ELSE promoted[c]]]
    /\ owing' = [owing EXCEPT ![c] = Nobody]
    /\ UNCHANGED <<promoted, view>>

Resize(c, n) ==
    /\ Edit /\ object[c] = "live" /\ n # replicas[c]
    /\ replicas' = [replicas EXCEPT ![c] = n]
    /\ Settled(c, n)
    /\ UNCHANGED <<object, secret, start, table, goroutine, wakeups>>

Delete(c) ==
    /\ Edit /\ object[c] = "live"
    /\ object' = [object EXCEPT ![c] = "deleting"]
    /\ UNCHANGED <<replicas, secret, start, table, goroutine, wakeups, master, owing>>

Finalize(c) ==
    /\ object[c] = "deleting"
    /\ object' = [object EXCEPT ![c] = "absent"]
    /\ owing' = [owing EXCEPT ![c] = Nobody]
    /\ UNCHANGED <<replicas, secret, start, table, goroutine, wakeups, master, bounds>>

Create(c, n) ==
    /\ object[c] = "absent"
    /\ object' = [object EXCEPT ![c] = "live"]
    /\ replicas' = [replicas EXCEPT ![c] = n]
    /\ Settled(c, n)
    /\ UNCHANGED <<secret, start, table, goroutine, wakeups, bounds>>

(* A rotation moves the nodes first and the record after them. Connections  *)
(* that are up stay up.                                                     *)
ChangePassword(c) ==
    /\ Edit /\ object[c] = "live" /\ accepted[c] = recorded[c]
    /\ accepted' = [accepted EXCEPT ![c] = edits']
    /\ UNCHANGED <<resource, recorded, start, table, goroutine, wakeups, master, owing>>

RecordPassword(c) ==
    /\ recorded[c] # accepted[c]
    /\ recorded' = [recorded EXCEPT ![c] = accepted[c]]
    /\ UNCHANGED <<resource, accepted, start, table, goroutine, wakeups, master, owing, bounds>>

-----------------------------------------------------------------------------
Watcher == Sync \/ CancelAll \/ Return
Goroutine(g) == Attempt(g) \/ Dial(g) \/ Receive(g) \/ Send(g) \/ Close(g) \/ Break(g)
Reconciler == Enqueue \/ \E c \in Clusters : Reconcile(c)
Environment ==
    \/ ContextEnds
    \/ \E c \in Clusters :
         \/ Requeue(c) \/ Delete(c) \/ Finalize(c) \/ ChangePassword(c) \/ RecordPassword(c)
         \/ \E i \in Sentinels : Promote(c, i) \/ Adopt(c, i)
         \/ \E n \in Sizes[c] : Resize(c, n) \/ Create(c, n)

Next == Watcher \/ Reconciler \/ Environment \/ \E g \in Goroutines : Goroutine(g)

Spec == Init /\ [][Next]_vars

(* The ticker, the goroutines' timers and reads, and the consumer of the    *)
(* channel all go on; so do a rotation once begun and a finalizer. A        *)
(* connection to a Sentinel that has gone is noticed; nothing obliges a     *)
(* fault to happen.                                                         *)
Continues(g) ==
    \/ Attempt(g) \/ Dial(g) \/ Receive(g) \/ Send(g) \/ Close(g)
    \/ ~Exists(g[1], g[2]) /\ Break(g)

FairSpec ==
    /\ Spec
    /\ WF_vars(Sync) /\ WF_vars(CancelAll) /\ WF_vars(Return) /\ WF_vars(Reconciler)
    /\ \A g \in Goroutines : WF_vars(Continues(g))
    /\ \A c \in Clusters : WF_vars(Finalize(c)) /\ WF_vars(RecordPassword(c))

-----------------------------------------------------------------------------
(* Properties *)

(* When Start returns no goroutine is left: none started by a last round of *)
(* sync, none still reading, none cancelled earlier and not yet back. The   *)
(* manager that waits for its runnables waits for the connections too       *)
(* (watcher.go:117 "then stops every subscription and waits for the         *)
(* goroutines").                                                            *)
NothingOutlivesStart == stage = "returned" => \A g \in Goroutines : ~Running(g)

(* However often a cluster is deleted, recreated and resized between rounds *)
(* of sync, a Sentinel has at most one subscription that is not cancelled,  *)
(* and it is one of the list the watcher's entry was made for: no context   *)
(* is forgotten with its goroutines still reading.                          *)
OneSubscriptionEach ==
    \A g \in Goroutines :
       Running(g) /\ ~Cancelled(g) => g[3] = context[g[1]] /\ g[2] <= entry[g[1]]

(* A goroutine with an announcement, unread or in its callback. *)
Carries(g) == at[g] = "send" \/ (at[g] = "open" /\ unread[g])

(* A wake-up on its way: requested, in the channel, or with a goroutine.    *)
Woken(c) ==
    \/ c \in queue
    \/ \E k \in DOMAIN events : events[k] = c
    \/ \E g \in Goroutines : g[1] = c /\ Carries(g)

(* No promotion is slept through: once every Sentinel of a cluster has      *)
(* adopted a master that the reconciler does not know, a wake-up is on its  *)
(* way, unless the last announcement met no connection, was lost with one,  *)
(* or found the channel full. A pass that asked a Sentinel before it        *)
(* adopted is no excuse: that is why every Sentinel has a subscription.     *)
PromotionIsFollowed ==
    \A c \in Clusters :
       /\ owing[c] # Nobody
       /\ \A i \in Sentinels : Exists(c, i) => adopted[c][i] > view[c]
       => Woken(c)

(* The subscriptions come to match the clusters: when edits and faults are  *)
(* over, every Sentinel of every live cluster is subscribed, once, however  *)
(* passwords changed between resolving one and using it, and no goroutine   *)
(* of a cluster or list that is gone is left.                               *)
Matched ==
    \A c \in Clusters, i \in Sentinels :
       LET running == {g \in Goroutines : g[1] = c /\ g[2] = i /\ Running(g)}
       IN  IF object[c] = "live" /\ i <= replicas[c]
           THEN \E g \in running : running = {g} /\ at[g] = "open"
           ELSE running = {}

SubscriptionsFollow == <>[](ended \/ Matched)

(* The end of the manager's context gets Start to return: blocked reads,    *)
(* waits and dials end with it, and no callback waits for room in a channel *)
(* that nobody empties any more.                                            *)
ShutdownCompletes == ended ~> stage = "returned"

-----------------------------------------------------------------------------
(* The inductive invariant *)

(* The wait group counts the goroutines that have not returned. *)
CountInv == wg = Cardinality({g \in Goroutines : Running(g)})

(* The announcement that is owed is on its way, and not only one of another *)
(* Sentinel, which may yet be lost without a trace.                         *)
OnItsWay(c) ==
    \/ c \in queue
    \/ \E k \in DOMAIN events : events[k] = c
    \/ \E g \in Goroutines : g[1] = c /\ g[2] = owing[c] /\ Carries(g)

Followed(c) ==
    owing[c] # Nobody =>
      /\ object[c] # "absent"
      /\ (\A i \in Sentinels : Exists(c, i) => adopted[c][i] > view[c]) => OnItsWay(c)

FollowInv == \A c \in Clusters : Followed(c)

IndInv == TypeOK /\ CountInv /\ NothingOutlivesStart /\ OneSubscriptionEach /\ FollowInv
=============================================================================
