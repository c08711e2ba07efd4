--------------------------- MODULE ReceiverContract ---------------------------
(***************************************************************************)
(* What a topic may rely on of its gossip receiver actor: nothing of       *)
(* events, channels or handles, only whether the node has a neighbor, and  *)
(* that the actor and the topic's cancel token end together.               *)
(* GossipReceiver implements it; TopicLifecycle takes its actions for the  *)
(* receiver of a topic.                                                    *)
(***************************************************************************)

VARIABLES
    up,         \* the actor answers calls
    neighbor,   \* the node has a neighbor
    cancelled   \* the topic's cancel token

vars == <<up, neighbor, cancelled>>

Init == up = TRUE /\ neighbor = FALSE /\ cancelled = FALSE

\* A first neighbor, or the loss of the last one, is known as long as the actor
\* runs, and only then.
NeighborUp ==
    /\ up /\ ~neighbor
    /\ neighbor' = TRUE
    /\ UNCHANGED <<up, cancelled>>

NeighborDown ==
    /\ up /\ neighbor
    /\ neighbor' = FALSE
    /\ UNCHANGED <<up, cancelled>>

\* Someone else cancels the topic.
Cancel ==
    /\ ~cancelled
    /\ cancelled' = TRUE
    /\ UNCHANGED <<up, neighbor>>

\* The actor ends with the token.
Stop ==
    /\ up /\ cancelled
    /\ up' = FALSE
    /\ UNCHANGED <<neighbor, cancelled>>

\* The gossip stream ends: the actor takes the topic with it.
StreamEnds ==
    /\ up /\ ~cancelled
    /\ up' = FALSE
    /\ cancelled' = TRUE
    /\ UNCHANGED neighbor

Next == NeighborUp \/ NeighborDown \/ Cancel \/ Stop \/ StreamEnds

Spec == Init /\ [][Next]_vars

\* A cancelled topic does not keep its receiver actor.
FairSpec == Spec /\ WF_vars(Stop)
=============================================================================
