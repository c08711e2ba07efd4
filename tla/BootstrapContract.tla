-------------------------- MODULE BootstrapContract --------------------------
(***************************************************************************)
(* What Topic::new and the background task of a topic may rely on when     *)
(* they hold the oneshot receiver that bootstrap() returns: nothing of     *)
(* records, minutes or peers, only when the result may come and when it    *)
(* must.  Bootstrap implements it with its loop; TopicLifecycle takes its  *)
(* actions and its fairness for the bootstrap task of a topic, so that     *)
(* what is shown of a topic there holds with the real loop as well.        *)
(***************************************************************************)

VARIABLES
    started,    \* start_bootstrap() has spawned the task
    joined,     \* the node has, or has had, a neighbor
    cancelled,  \* the topic's cancel token
    outcome     \* what was sent on the oneshot: "none" yet, "ok", "err"

vars == <<started, joined, cancelled, outcome>>

Init ==
    /\ started \in BOOLEAN
    /\ joined = FALSE
    /\ cancelled = FALSE
    /\ outcome = "none"

Start ==
    /\ ~started
    /\ started' = TRUE
    /\ UNCHANGED <<joined, cancelled, outcome>>

Join ==
    /\ ~joined
    /\ joined' = TRUE
    /\ UNCHANGED <<started, cancelled, outcome>>

Cancel ==
    /\ ~cancelled
    /\ cancelled' = TRUE
    /\ UNCHANGED <<started, joined, outcome>>

\* Ok is sent, once, for a node that has met another.
Succeed ==
    /\ started /\ outcome = "none"
    /\ joined
    /\ outcome' = "ok"
    /\ started' = started
    /\ UNCHANGED <<joined, cancelled>>

\* Err is sent, once, on a cancelled topic only.
Fail ==
    /\ started /\ outcome = "none"
    /\ cancelled
    /\ outcome' = "err"
    /\ started' = started
    /\ UNCHANGED <<joined, cancelled>>

Next == Start \/ Join \/ Cancel \/ Succeed \/ Fail

Spec == Init /\ [][Next]_vars

\* Nobody waits for ever for the result of a bootstrap that is cancelled.
FairSpec == Spec /\ WF_vars(cancelled /\ (Succeed \/ Fail))
=============================================================================
