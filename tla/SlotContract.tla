----------------------------- MODULE SlotContract -----------------------------
(***************************************************************************)
(* What the callers of publish_record() and publish_record_cached() may    *)
(* rely on for one slot: nothing of lookups, queues, attempts or storage   *)
(* nodes, only what an outcome says of the slot and when a record may      *)
(* enter it.  Lookups and puts take their time: an outcome speaks of       *)
(* moments that have passed.  RecordPublisher implements it.               *)
(***************************************************************************)
EXTENDS Naturals, FiniteSets

CONSTANTS
    Tasks,       \* the publish tasks
    Owner,       \* the node a task publishes for
    MaxRecords   \* max_bootstrap_records

VARIABLES
    slot,      \* the nodes whose record is in the slot
    counted,   \* the other nodes whose record a task has met in the slot
    sent,      \* the tasks whose record may reach the slot
    entered,   \* the tasks whose record has reached it
    outcome    \* what each task returned: "none" yet, "ok", "skipped", "err"

vars == <<slot, counted, sent, entered, outcome>>

Init ==
    /\ slot = {}
    /\ counted = [t \in Tasks |-> {}]
    /\ sent = {}
    /\ entered = {}
    /\ outcome = [t \in Tasks |-> "none"]

Open(t) == outcome[t] = "none" /\ t \notin sent

Returns(t, r) ==
    /\ outcome[t] = "none"
    /\ outcome' = [outcome EXCEPT ![t] = r]

Forgotten(t) == [counted EXCEPT ![t] = {}]

\* Another node is counted while it is in the slot.
Count(t) ==
    /\ Open(t)
    /\ \E k \in slot \ {Owner[t]} :
        counted' = [counted EXCEPT ![t] = @ \cup {k}]
    /\ UNCHANGED <<slot, sent, entered, outcome>>

\* The lookup fails, and a cached publication goes on without it.
Forget(t) ==
    /\ Open(t)
    /\ counted' = Forgotten(t)
    /\ UNCHANGED <<slot, sent, entered, outcome>>

\* A task that has counted enough others sends nothing; another one sends once.
Skip(t) ==
    /\ Open(t) /\ Cardinality(counted[t]) >= MaxRecords
    /\ Returns(t, "skipped")
    /\ UNCHANGED <<slot, counted, sent, entered>>

Submit(t) ==
    /\ Open(t) /\ Cardinality(counted[t]) < MaxRecords
    /\ sent' = sent \cup {t}
    /\ UNCHANGED <<slot, counted, entered, outcome>>

\* The record of a task that has sent it enters the slot, whatever the task has
\* returned meanwhile, and may replace another one.
Arrive(t) ==
    /\ t \in sent
    /\ \E kept \in SUBSET slot : slot' = kept \cup {Owner[t]}
    /\ entered' = entered \cup {t}
    /\ UNCHANGED <<counted, sent, outcome>>

\* Ok: the record has been in the slot.
Succeed(t) ==
    /\ t \in sent \cap entered
    /\ Returns(t, "ok")
    /\ UNCHANGED <<slot, counted, sent, entered>>

\* Err: the record was not sent, never will be, or is still on its way.
Fail(t) ==
    /\ Returns(t, "err")
    /\ counted' \in {counted, Forgotten(t)}
    /\ sent' \in {sent, sent \ {t}}
    /\ UNCHANGED <<slot, entered>>

\* The record of a task that has returned an error is given up.
GiveUp(t) ==
    /\ t \in sent /\ outcome[t] = "err"
    /\ sent' = sent \ {t}
    /\ UNCHANGED <<slot, counted, entered, outcome>>

\* Records vanish at any time.
Vanish ==
    /\ slot' \in SUBSET slot
    /\ UNCHANGED <<counted, sent, entered, outcome>>

Next ==
    \/ \E t \in Tasks : \/ Count(t) \/ Forget(t) \/ Skip(t) \/ Submit(t)
                        \/ Arrive(t) \/ Succeed(t) \/ Fail(t) \/ GiveUp(t)
    \/ Vanish

Spec == Init /\ [][Next]_vars
=============================================================================
