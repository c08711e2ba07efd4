------------------------------ MODULE Bootstrap ------------------------------
(***************************************************************************)
(* The bootstrap task of one node (gossip/topic/bootstrap.rs): the loop    *)
(* that looks up records of the topic, joins the peers they name one by    *)
(* one, and publishes the node's own record while it has no neighbor.      *)
(*                                                                         *)
(* The task is sequential; what makes it hard is everything that moves     *)
(* while it awaits: the wall clock, the neighbor set, the cancel token and *)
(* the receiver actor that answers is_joined().  Each action is the code   *)
(* between two awaits, so `cur', `cachedFrom' and `isJoinedRet' are set in *)
(* one step and used several steps later, as in the code.                  *)
(*                                                                         *)
(* Time is abstract: a sleep may end at any moment.  A wait               *)
(* (tokio::select! over a sleep, joined() and the token) therefore has two *)
(* outcomes: it ends, by the timer or by joined(), which continue at the   *)
(* same statement, or the token is cancelled.  The clock is the wall clock *)
(* and may be set back.                                                    *)
(***************************************************************************)
EXTENDS Naturals, Sequences, FiniteSets

CONSTANTS
    Self,         \* the key of this node
    Keys,         \* the nonzero keys that occur in records
    EndpointIds,  \* the keys EndpointId::from_bytes accepts
    Records,      \* the records the DHT may hold: [pub, active]
    NoCache,      \* cached_records = None
    MaxMinute,    \* bound: the clock stops here
    MaxBacks      \* bound: times the clock is set back

ASSUME BootstrapAssumption ==
    /\ Self \in EndpointIds
    /\ EndpointIds \subseteq Keys
    /\ Records \subseteq [pub : EndpointIds, active : SUBSET Keys]
    /\ NoCache \notin Nat
    /\ MaxMinute \in Nat \ {0}
    /\ MaxBacks \in Nat

VARIABLES
    config,       \* BootstrapConfig: publishOnStartup, checkOlder (never changes)
    minute,       \* crate::unix_minute(0)
    neighbors,    \* neighbors of the gossip receiver; joined iff nonempty
    receiverUp,   \* the GossipReceiverActor still answers calls
    cancelled,    \* the topic's cancel token
    pc,           \* the await the task is at
    cur,          \* current_unix_minute
    offset,       \* unix_minute_offset; use_cached_next = (offset = 0)
    last,         \* last_published_unix_minute, 0 before the first publication
    records,      \* records found in this pass
    cachedFrom,   \* the slot current_records were read from
    todo,         \* bootstrap_nodes the join loop has not tried yet
    isJoinedRet,  \* is_joined_ret
    result,       \* what was sent on the oneshot channel
    jobs,         \* the publish tasks spawned so far, in order
    passes,       \* ghost: passes begun, counted up to 2
    backs,        \* ghost: times the clock was set back
    met,          \* ghost: the node has, or has had, a neighbor
    intrusions    \* ghost: join_peers() calls made since the node is joined

taskVars == <<pc, cur, offset, last, records, cachedFrom, todo, isJoinedRet,
              result, jobs, passes, intrusions>>
envVars  == <<minute, neighbors, receiverUp, cancelled, backs, met>>
vars     == <<config, envVars, taskVars>>

PCs == {"idle", "while", "isJoined", "getOlder", "getCurrent", "noPeers",
        "recheck", "join", "settle", "confirm", "confirmWait", "final", "poll",
        "done"}

\* saturating_sub on the clock.
Minus(m, k) == IF m >= k THEN m - k ELSE 0

\* A spawned publish_record_fire_and_forget: the minute its record is signed
\* for, and the slot the cached records were read from (NoCache for None).
Job == [minute : Nat, cachedFor : Nat \cup {NoCache}]

TypeOK ==
    /\ config \in [publishOnStartup : BOOLEAN, checkOlder : BOOLEAN]
    /\ minute \in Nat
    /\ neighbors \subseteq EndpointIds
    /\ receiverUp \in BOOLEAN
    /\ cancelled \in BOOLEAN
    /\ pc \in PCs
    /\ cur \in Nat
    /\ offset \in {0, 1}
    /\ last \in Nat
    /\ records \subseteq Records
    /\ cachedFrom \in Nat
    /\ todo \subseteq EndpointIds
    /\ isJoinedRet \in BOOLEAN
    /\ result \in {"none", "ok", "err"}
    /\ jobs \in Seq(Job)
    /\ passes \in {0, 1, 2}
    /\ backs \in Nat
    /\ met \in BOOLEAN
    /\ intrusions \in Nat

Init ==
    /\ config \in [publishOnStartup : BOOLEAN, checkOlder : BOOLEAN]
    /\ minute = 1
    /\ neighbors = {}
    /\ receiverUp = TRUE
    /\ cancelled = FALSE
    /\ pc = "idle"
    /\ cur = 0
    /\ offset = 0
    /\ last = 0
    /\ records = {}
    /\ cachedFrom = 0
    /\ todo = {}
    /\ isJoinedRet = FALSE
    /\ result = "none"
    /\ jobs = <<>>
    /\ passes = 0
    /\ backs = 0
    /\ met = FALSE
    /\ intrusions = 0

-----------------------------------------------------------------------------
\* is_joined() as the task sees it: an answer of the receiver actor, or Err
\* once the actor has ended.
SaysJoined   == receiverUp /\ neighbors # {}
SaysUnjoined == receiverUp /\ neighbors = {}
SaysErr      == ~receiverUp

\* Leaving the loop: the oneshot carries Ok iff is_joined_ret.
Exit(joined) ==
    /\ isJoinedRet' = joined
    /\ result' = IF joined THEN "ok" ELSE "err"
    /\ pc' = "done"

\* Mutants of PublishIfDue: the publication is not remembered; only the first
\* minute is ever announced; the record is signed for the minute it is by now.
PublishIfDueForgets(slot) ==
    /\ cur # last
    /\ jobs' = Append(jobs, [minute |-> cur, cachedFor |-> NoCache])
    /\ UNCHANGED last

PublishIfDueOnce(slot) ==
    IF last = 0
    THEN /\ last' = cur
         /\ jobs' = Append(jobs, [minute |-> cur, cachedFor |-> NoCache])
    ELSE UNCHANGED <<last, jobs>>

PublishIfDueNow(slot) ==
    IF minute # last
    THEN /\ last' = minute
         /\ jobs' = Append(jobs, [minute |-> minute,
                                  cachedFor |-> IF offset = 0 THEN slot ELSE NoCache])
    ELSE UNCHANGED <<last, jobs>>

\* The two places that publish when this pass's minute is not yet announced; they
\* pass on the records read from `slot', or none when the pass looks further back.
PublishIfDue(slot) ==
    IF cur # last
    THEN /\ last' = cur
         /\ jobs' = Append(jobs, [minute |-> cur,
                                  cachedFor |-> IF offset = 0 THEN slot ELSE NoCache])
    ELSE UNCHANGED <<last, jobs>>

\* What get_records() hands the task: at most one record per publisher, never
\* the node's own; an error or a cancelled call is the empty set.
Answers ==
    {R \in SUBSET {r \in Records : r.pub # Self} :
        \A r, s \in R : r.pub = s.pub => r = s}

\* Mutants of BootstrapNodes: active peers are not compared with this node;
\* keys that are no endpoint ids are kept.
BootstrapNodesWithSelf(R) ==
    ({r.pub : r \in R} \cup UNION {r.active : r \in R}) \cap EndpointIds

BootstrapNodesUnparsed(R) ==
    {r.pub : r \in R} \cup ((UNION {r.active : r \in R}) \ {Self})

\* The nodes to join: publishers, and active peers other than this node, that
\* are valid endpoint ids.
BootstrapNodes(R) ==
    ({r.pub : r \in R} \cup ((UNION {r.active : r \in R}) \ {Self}))
        \cap EndpointIds

-----------------------------------------------------------------------------
\* Mutant of StartBootstrap: the startup publication counts as the first run.
StartBootstrapCountsAsRun ==
    /\ pc = "idle"
    /\ pc' = "while"
    /\ IF config.publishOnStartup
       THEN /\ last' = minute
            /\ jobs' = Append(jobs, [minute |-> minute, cachedFor |-> NoCache])
       ELSE UNCHANGED <<last, jobs>>
    /\ UNCHANGED <<config, envVars, cur, offset, records, todo, isJoinedRet,
                   result, passes, cachedFrom, intrusions>>

\* start_bootstrap(): the optional startup publication, then the task runs.
StartBootstrap ==
    /\ pc = "idle"
    /\ pc' = "while"
    /\ IF config.publishOnStartup
       THEN /\ last' = IF config.checkOlder THEN 0 ELSE minute
            /\ jobs' = Append(jobs, [minute |-> minute, cachedFor |-> NoCache])
       ELSE UNCHANGED <<last, jobs>>
    /\ UNCHANGED <<config, envVars, cur, offset, records, todo, isJoinedRet,
                   result, passes, cachedFrom, intrusions>>

\* while !cancel_token.is_cancelled()
LoopHead ==
    /\ pc = "while"
    /\ IF cancelled
       THEN Exit(isJoinedRet)
       ELSE pc' = "isJoined" /\ UNCHANGED <<isJoinedRet, result>>
    /\ UNCHANGED <<config, envVars, cur, offset, last, records, todo, jobs,
                   passes, cachedFrom, intrusions>>

\* Mutant of BeginPass: the pass starts although the node is joined.
BeginPassUnchecked ==
    /\ pc = "isJoined"
    /\ \/ SaysErr /\ Exit(isJoinedRet) /\ UNCHANGED <<cur, offset, passes>>
       \/ /\ receiverUp
          /\ cur' = minute
          /\ offset' = IF last = 0 /\ config.checkOlder THEN 1 ELSE 0
          /\ passes' = IF passes = 0 THEN 1 ELSE 2
          /\ pc' = "getOlder"
          /\ UNCHANGED <<isJoinedRet, result>>
    /\ UNCHANGED <<config, envVars, last, records, todo, jobs, cachedFrom, intrusions>>

\* Mutant of BeginPass: a receiver that does not answer counts as joined.
BeginPassTrusting ==
    /\ pc = "isJoined"
    /\ \/ ~SaysUnjoined /\ Exit(TRUE) /\ UNCHANGED <<cur, offset, passes>>
       \/ /\ SaysUnjoined
          /\ cur' = minute
          /\ offset' = IF last = 0 /\ config.checkOlder THEN 1 ELSE 0
          /\ passes' = IF passes = 0 THEN 1 ELSE 2
          /\ pc' = "getOlder"
          /\ UNCHANGED <<isJoinedRet, result>>
    /\ UNCHANGED <<config, envVars, last, records, todo, jobs, cachedFrom, intrusions>>

\* The check at the top of a pass, the minute of the pass and its offset.
BeginPass ==
    /\ pc = "isJoined"
    /\ \/ SaysJoined /\ Exit(TRUE) /\ UNCHANGED <<cur, offset, passes>>
       \/ SaysErr /\ Exit(isJoinedRet) /\ UNCHANGED <<cur, offset, passes>>
       \/ /\ SaysUnjoined
          /\ cur' = minute
          /\ offset' = IF last = 0 /\ config.checkOlder THEN 1 ELSE 0
          /\ passes' = IF passes = 0 THEN 1 ELSE 2
          /\ pc' = "getOlder"
          /\ UNCHANGED <<isJoinedRet, result>>
    /\ UNCHANGED <<config, envVars, last, records, todo, jobs, cachedFrom, intrusions>>

\* get_records(cur - (offset + 1)).
GetOlder ==
    /\ pc = "getOlder"
    /\ records' \in Answers
    /\ pc' = "getCurrent"
    /\ UNCHANGED <<config, envVars, cur, offset, last, todo, isJoinedRet,
                   result, jobs, passes, cachedFrom, intrusions>>

\* get_records(cur - offset); without any record the node publishes its own
\* and waits, otherwise it collects the nodes to join.
GetCurrent ==
    /\ pc = "getCurrent"
    /\ \E R \in Answers : records' = records \cup R
    /\ cachedFrom' = Minus(cur, offset)
    /\ IF records' = {}
       THEN PublishIfDue(cachedFrom') /\ pc' = "noPeers" /\ UNCHANGED todo
       ELSE /\ todo' = BootstrapNodes(records')
            /\ pc' = "recheck"
            /\ UNCHANGED <<last, jobs>>
    /\ UNCHANGED <<config, envVars, cur, offset, isJoinedRet, result, passes,
                   intrusions>>

\* A wait of the loop that ends in the next pass or, cancelled, in the exit.
WaitThenLoop(at) ==
    /\ pc = at
    /\ \/ pc' = "while" /\ UNCHANGED <<isJoinedRet, result>>
       \/ cancelled /\ Exit(isJoinedRet)
    /\ UNCHANGED <<config, envVars, cur, offset, last, records, todo, jobs,
                   passes, cachedFrom, intrusions>>

\* No records: sleep no_peers_retry_interval.
WaitNoPeers == WaitThenLoop("noPeers")

\* The second is_joined(), before any peer is disturbed.
Recheck ==
    /\ pc = "recheck"
    /\ \/ SaysJoined /\ Exit(TRUE)
       \/ SaysErr /\ Exit(isJoinedRet)
       \/ SaysUnjoined /\ pc' = "join" /\ UNCHANGED <<isJoinedRet, result>>
    /\ UNCHANGED <<config, envVars, cur, offset, last, records, todo, jobs,
                   passes, cachedFrom, intrusions>>

\* One iteration of the join loop up to the wait: join_peers([p]) succeeds,
\* or fails and the loop goes on; with no peer left the loop ends.
JoinPeer ==
    /\ pc = "join"
    /\ \/ /\ todo = {}
          /\ pc' = "confirm"
          /\ UNCHANGED <<todo, intrusions>>
       \/ \E p \in todo :
            /\ todo' = todo \ {p}
            /\ \/ /\ pc' = "settle"
                  /\ intrusions' = IF neighbors # {} THEN intrusions + 1 ELSE 0
               \/ UNCHANGED <<pc, intrusions>>
    /\ UNCHANGED <<config, envVars, cur, offset, last, records, isJoinedRet,
                   result, jobs, passes, cachedFrom>>

\* Mutant of Settle: every bootstrap node is tried, joined or not.
SettleUnchecked ==
    /\ pc = "settle"
    /\ \/ cancelled /\ Exit(isJoinedRet)
       \/ pc' = "join" /\ UNCHANGED <<isJoinedRet, result>>
    /\ UNCHANGED <<config, envVars, cur, offset, last, records, todo, jobs,
                   passes, cachedFrom, intrusions>>

\* After per_peer_join_settle_time: joined or Err leaves the join loop,
\* otherwise the next peer is tried; cancelled leaves the task.
Settle ==
    /\ pc = "settle"
    /\ \/ cancelled /\ Exit(isJoinedRet)
       \/ /\ SaysJoined
          /\ isJoinedRet' = TRUE
          /\ pc' = "confirm"
          /\ UNCHANGED result
       \/ SaysErr /\ pc' = "confirm" /\ UNCHANGED <<isJoinedRet, result>>
       \/ SaysUnjoined /\ pc' = "join" /\ UNCHANGED <<isJoinedRet, result>>
    /\ UNCHANGED <<config, envVars, cur, offset, last, records, todo, jobs,
                   passes, cachedFrom, intrusions>>

\* Not joined yet: wait join_confirmation_wait_time before the final check.
Confirm ==
    /\ pc = "confirm"
    /\ \/ SaysJoined /\ pc' = "final" /\ UNCHANGED <<isJoinedRet, result>>
       \/ SaysErr /\ Exit(isJoinedRet)
       \/ SaysUnjoined /\ pc' = "confirmWait" /\ UNCHANGED <<isJoinedRet, result>>
    /\ UNCHANGED <<config, envVars, cur, offset, last, records, todo, jobs,
                   passes, cachedFrom, intrusions>>

ConfirmWait ==
    /\ pc = "confirmWait"
    /\ \/ pc' = "final" /\ UNCHANGED <<isJoinedRet, result>>
       \/ cancelled /\ Exit(isJoinedRet)
    /\ UNCHANGED <<config, envVars, cur, offset, last, records, todo, jobs,
                   passes, cachedFrom, intrusions>>

\* The final check: joined returns; otherwise the fallback publication.
FinalCheck ==
    /\ pc = "final"
    /\ \/ SaysJoined /\ Exit(TRUE) /\ UNCHANGED <<last, jobs>>
       \/ SaysErr /\ Exit(isJoinedRet) /\ UNCHANGED <<last, jobs>>
       \/ /\ SaysUnjoined
          /\ PublishIfDue(cachedFrom)
          /\ pc' = "poll"
          /\ UNCHANGED <<isJoinedRet, result>>
    /\ UNCHANGED <<config, envVars, cur, offset, records, todo, passes, cachedFrom,
                   intrusions>>

\* Sleep discovery_poll_interval before the next pass.
Poll == WaitThenLoop("poll")

Task ==
    \/ LoopHead \/ BeginPass \/ GetOlder \/ GetCurrent \/ WaitNoPeers
    \/ Recheck \/ JoinPeer \/ Settle \/ Confirm \/ ConfirmWait \/ FinalCheck
    \/ Poll

-----------------------------------------------------------------------------
\* The surroundings of the task.

Tick ==
    /\ minute < MaxMinute
    /\ minute' = minute + 1
    /\ UNCHANGED <<config, neighbors, receiverUp, cancelled, backs, met, taskVars>>

\* The wall clock is set back.
SetBack ==
    /\ backs < MaxBacks
    /\ backs' = backs + 1
    /\ \E m \in 1..(minute - 1) : minute' = m
    /\ UNCHANGED <<config, neighbors, receiverUp, cancelled, met, taskVars>>

\* iroh-gossip reports a neighbor up or down; the receiver actor consumes it.
NeighborUp ==
    /\ receiverUp
    /\ \E p \in EndpointIds \ {Self} :
        p \notin neighbors /\ neighbors' = neighbors \cup {p}
    /\ met' = TRUE
    /\ UNCHANGED <<config, minute, receiverUp, cancelled, backs, taskVars>>

NeighborDown ==
    /\ receiverUp
    /\ \E p \in neighbors : neighbors' = neighbors \ {p}
    /\ intrusions' = IF neighbors' = {} THEN 0 ELSE intrusions
    /\ UNCHANGED <<config, minute, receiverUp, cancelled, backs, met, pc, cur,
                   offset, last, records, todo, isJoinedRet, result, jobs,
                   passes, cachedFrom>>

\* The last handle of the topic is dropped, or a worker fails to start.
Cancel ==
    /\ ~cancelled
    /\ cancelled' = TRUE
    /\ UNCHANGED <<config, minute, neighbors, receiverUp, backs, met, taskVars>>

\* The receiver actor ends because the token is cancelled.
ReceiverStop ==
    /\ receiverUp /\ cancelled
    /\ receiverUp' = FALSE
    /\ UNCHANGED <<config, minute, neighbors, cancelled, backs, met, taskVars>>

\* The gossip stream closes or fails: the actor cancels the token and ends.
GossipClosed ==
    /\ receiverUp /\ ~cancelled
    /\ receiverUp' = FALSE
    /\ cancelled' = TRUE
    /\ UNCHANGED <<config, minute, neighbors, backs, met, taskVars>>

Environment ==
    \/ Tick \/ SetBack \/ NeighborUp \/ NeighborDown
    \/ Cancel \/ ReceiverStop \/ GossipClosed

Next == StartBootstrap \/ Task \/ Environment

Spec == Init /\ [][Next]_vars

\* A task the runtime has spawned is scheduled, its sleeps end and its calls
\* return.  Nothing is assumed of the surroundings.
FairSpec == Spec /\ WF_vars(Task)

-----------------------------------------------------------------------------
Started == pc # "idle"

\* The announcements that do not name a later minute than the one before.
Repeats == {i \in 1..(Len(jobs) - 1) : jobs[i + 1].minute <= jobs[i].minute}

\* A node announces itself at most once per unix minute and never for a past
\* one, but for one step back per time the wall clock is set back (the two
\* PublishIfDue sites and the startup publication agree on
\* last_published_unix_minute), and one more when both startup options are on
\* and the first pass does not know of the startup publication.
PublishOncePerMinute ==
    Cardinality(Repeats) <=
        backs + (IF config.publishOnStartup /\ config.checkOlder THEN 1 ELSE 0)

\* "last_published_unix_minute == 0 means first run" (bootstrap.rs:147): the
\* look one minute further back happens in the first pass and in no other,
\* although `last' is a publication time and not a pass counter.
OlderWindowOnlyFirst ==
    passes > 0 => (offset = 1 <=> (config.checkOlder /\ passes = 1))

\* Records cached from one minute's slot never stand in for the occupancy of
\* another minute's slot: the fallback publication hands on what was read before
\* the join loop, and though the clock moves on or is set back meanwhile, and the
\* first pass may read an older slot, its record is signed for the minute read.
CachedForSameMinute ==
    \A i \in DOMAIN jobs :
        jobs[i].cachedFor \in {NoCache, jobs[i].minute}

\* The bootstrap reports failure only when the topic was cancelled: lookups
\* and joins that fail are retried in the next pass.
ErrOnlyWhenCancelled == result = "err" => cancelled

\* "we don't want to disrup the gossip rotations any more then we have to"
\* (bootstrap.rs:248): once the node is joined, and while it stays joined, the
\* join loop gets at most one more peer to join.
AtMostOneIntrusion == intrusions <= 1

\* No pass tries to join the node itself, though its own key comes back from
\* the DHT as publisher and as active peer of others.
NeverJoinsSelf == Self \notin todo

\* The topic around the task may rely on the contract: one result, Ok only
\* once the node has met another, Err only after a cancellation, and one of
\* them for certain after a cancellation.
Contract == INSTANCE BootstrapContract
            WITH started <- Started, joined <- met, outcome <- result

MeetsContract == Contract!FairSpec

\* A node that becomes joined and stays so leaves the bootstrap.
JoinedStops == (Started /\ [](neighbors # {})) ~> pc = "done"

\* A node that is not done announces itself in every minute that lasts long
\* enough: it never settles into waiting without a published record.
KeepsPublishing ==
    \A m \in 1..MaxMinute :
        (Started /\ minute = m) ~>
            \/ minute # m
            \/ pc = "done"
            \/ \E i \in DOMAIN jobs : jobs[i].minute = m

\* "Returns a receiver that signals completion when the node has joined the
\* topic (has at least one neighbor)" (bootstrap.rs:68), as a step property:
\* Ok is sent by a node that has a neighbor.
OkMeansJoined ==
    [][(pc # "done" /\ pc' = "done" /\ result' = "ok") => neighbors # {}]_vars

\* "If no valid records found and haven't published in this unix minute,
\* publish own record" (PROTOCOL.md:126): no minute is announced twice.
NeverTwiceInAMinute ==
    \A i, j \in DOMAIN jobs : i < j => jobs[i].minute # jobs[j].minute
=============================================================================
