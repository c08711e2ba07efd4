--------------------------- MODULE MCGossipReceiver ---------------------------
(***************************************************************************)
(* Two handles, the second one cloned at any time.  The cfg files give the *)
(* channels fewer places than there are events, so that handles lag.       *)
(***************************************************************************)
EXTENDS GossipReceiver

CONSTANTS orig, dup, p, m1, m2

MCHandles == {orig, dup}
=============================================================================
