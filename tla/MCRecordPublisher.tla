-------------------------- MODULE MCRecordPublisher --------------------------
(***************************************************************************)
(* Two nodes of a topic: node a publishes from its bootstrap loop          *)
(* (cached) and from its Publisher (fresh) through one DhtActor, node b    *)
(* from its Publisher.                                                     *)
(***************************************************************************)
EXTENDS RecordPublisher

CONSTANTS a, b, boot, tick, tickB

MCNodes == {a, b}
MCTasks == {boot, tick, tickB}
MCOwner == [t \in MCTasks |-> IF t = tickB THEN b ELSE a]
=============================================================================
