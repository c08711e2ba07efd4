----------------------------- MODULE MCBootstrap -----------------------------
(***************************************************************************)
(* Model values for Bootstrap: this node, two peers and one key that is    *)
(* not a valid endpoint id.  One record names several peers, this node     *)
(* among them, and one is this node's own (it comes back from the DHT).    *)
(***************************************************************************)
EXTENDS Bootstrap

CONSTANTS self, a, b, junk

MCKeys == {self, a, b, junk}

MCEndpointIds == {self, a, b}

MCRecords ==
    { [pub |-> a, active |-> {self, b, junk}],
      [pub |-> self, active |-> {a}] }
=============================================================================
