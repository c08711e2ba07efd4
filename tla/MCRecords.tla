------------------------------ MODULE MCRecords ------------------------------
(***************************************************************************)
(* Node a reads.  Node b is of its topic and secret, c of its topic with   *)
(* another secret, d of another topic with the same secret.  The secret    *)
(* rotation gives every minute its own key.  Of the two contents one is    *)
(* just short enough, the other too long.                                  *)
(***************************************************************************)
EXTENDS Records, TLC

CONSTANTS a, b, c, d, chat, news, fits, long

MCTopicOf  == [n \in {a, b, c, d} |-> IF n = d THEN news ELSE chat]
MCSecretOf == [n \in {a, b, c, d} |-> IF n = c THEN "y" ELSE "x"]
MCDerive(secret, topic, minute) == <<secret, topic, minute>>
MCKeys == {"x", "y"} \X {chat, news} \X (1..MaxMinute)
MCSize(content) == IF content = long THEN 4 ELSE 3

\* b's record of minute 1 with a signature of something else.
MCUnsigned ==
    { [topic |-> chat, minute |-> 1, pub |-> b, content |-> fits,
       signature |-> [by |-> b, topic |-> chat, minute |-> 2, pub |-> b,
                      content |-> fits]] }

\* No property names a storage node, and no liveness is checked.
MCSymmetry == Permutations(Storage)
=============================================================================
