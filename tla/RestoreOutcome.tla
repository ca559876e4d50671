--------------------------- MODULE RestoreOutcome ---------------------------
(***************************************************************************)
(* What a RedisRestore promises whoever asks for one. A request, that is a *)
(* generation of the spec, is answered once: "completed" or "failed" holds *)
(* until the request changes, and after the request is withdrawn nothing   *)
(* is reported any more. "completed" is said of data that were loaded, and *)
(* nothing is loaded again after it, as long as the cluster is quiet: no   *)
(* failover, and no other RedisRestore at work.                            *)
(***************************************************************************)
EXTENDS Integers

CONSTANT Restores   \* RedisRestore objects

VARIABLES
    asked,     \* the request, by number
    answered,  \* the request of the last report
    wanted,    \* FALSE once it is withdrawn
    outcome,   \* what was reported last
    loaded,    \* the data prepared last were loaded
    quiet

outcomeVars == <<asked, answered, wanted, outcome, loaded, quiet>>

OutcomeInit ==
    /\ asked = [c \in Restores |-> 1]
    /\ answered = [c \in Restores |-> 0]
    /\ wanted = [c \in Restores |-> TRUE]
    /\ outcome = [c \in Restores |-> "none"]
    /\ loaded = [c \in Restores |-> FALSE]
    /\ quiet = TRUE

Ask(c) ==
    /\ wanted[c]
    /\ asked' = [asked EXCEPT ![c] = @ + 1]
    /\ UNCHANGED <<answered, wanted, outcome, loaded, quiet>>

Withdraw(c) ==
    /\ wanted[c]
    /\ wanted' = [wanted EXCEPT ![c] = FALSE]
    /\ UNCHANGED <<asked, answered, outcome, loaded, quiet>>

\* A report is about the request as it is now.
Report(c, o) ==
    /\ wanted[c]
    /\ outcome' = [outcome EXCEPT ![c] = o]
    /\ answered' = [answered EXCEPT ![c] = asked[c]]
    /\ UNCHANGED <<asked, wanted, loaded, quiet>>

\* Only another request is started over.
Start(c) ==
    /\ \/ outcome[c] = "none"
       \/ outcome[c] \in {"completed", "failed"} /\ answered[c] # asked[c]
    /\ Report(c, "running")

Progress(c) == outcome[c] = "running" /\ Report(c, "running")

Complete(c) ==
    /\ outcome[c] = "running"
    /\ quiet => loaded[c]
    /\ Report(c, "completed")

Fail(c) == outcome[c] \in {"none", "running"} /\ Report(c, "failed")

\* Data are put where the next boot finds them.
Prepare(c) ==
    /\ outcome[c] = "running"
    /\ loaded' = [loaded EXCEPT ![c] = FALSE]
    /\ UNCHANGED <<asked, answered, wanted, outcome, quiet>>

\* A boot loads them, perhaps after the run has failed, but not after it completed.
Load(c) ==
    /\ outcome[c] # "none"
    /\ quiet => outcome[c] # "completed"
    /\ loaded' = [loaded EXCEPT ![c] = TRUE]
    /\ UNCHANGED <<asked, answered, wanted, outcome, quiet>>

Disturb ==
    /\ quiet' = FALSE
    /\ UNCHANGED <<asked, answered, wanted, outcome, loaded>>

OutcomeNext ==
    \/ \E c \in Restores : \/ Ask(c) \/ Withdraw(c) \/ Start(c) \/ Progress(c)
                           \/ Complete(c) \/ Fail(c) \/ Prepare(c) \/ Load(c)
    \/ Disturb

OutcomeSpec == OutcomeInit /\ [][OutcomeNext]_outcomeVars
=============================================================================
