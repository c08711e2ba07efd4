---------------------------- MODULE TopicLifecycle ----------------------------
(***************************************************************************)
(* The life of one topic (gossip/topic/topic.rs): Topic::new, the handles  *)
(* of the user, the topic actor, the bootstrap task, the background task   *)
(* that follows it, the three workers and the receiver actor.              *)
(*                                                                         *)
(* A Topic holds an Arc of the topic actor's handle, and so does every     *)
(* sender and receiver split from it (_topic_keep_alive).  Background code *)
(* holds the Arc weakly and upgrades it for the time of one call.  With    *)
(* the last Arc the actor is dropped, and its Drop cancels the token that  *)
(* every task of the topic watches.                                        *)
(*                                                                         *)
(* The bootstrap task appears by its contract (BootstrapContract), which   *)
(* Bootstrap is shown to implement: this module takes the contract's own   *)
(* actions and fairness.  So does the receiver actor (ReceiverContract,    *)
(* which GossipReceiver implements): it ends with the token, or cancels    *)
(* the token when the stream ends.                                         *)
(***************************************************************************)
EXTENDS Naturals

CONSTANT MaxHandles   \* bound: Topic values, and split handles, alive at once

ASSUME TopicLifecycleAssumption == MaxHandles \in Nat \ {0}

Workers == {"publisher", "bubble", "overlap"}

\* The order in which spawn_workers starts them.
WorkerAt == <<"publisher", "bubble", "overlap">>

\* Who runs spawn_workers: Topic::new, or the background task.
Spawners == {"new", "task"}

VARIABLES
    config,     \* async_bootstrap, the enabled workers, and whether a worker
                \* that cannot start fails the topic (never changes)
    new,        \* Topic::new: "joining", "spawning", then its outcome
    task,       \* the background task: "waiting", "spawning", "done"
    step,       \* per spawner: 0 before the token check, then the worker next
    holding,    \* per spawner: it holds an upgraded Arc during a call
    orphan,     \* step of the call that an abandoned Topic::new has left in
                \* the topic actor's queue, 0 for none
    topics,     \* Topic values of the user
    splits,     \* senders and receivers of the user
    actorUp,    \* the TopicActor exists
    cancelled,  \* the cancel token
    boot,       \* the result of the bootstrap task, "none" while it runs
    recvUp,     \* the receiver actor runs
    neighbor,   \* the node has a neighbor
    joined,     \* ghost: it has had one, now or before
    worker,     \* per worker: "off", "running", "failed", "stopped"
    broken      \* ghost: the stream ended or a worker failed the topic

vars == <<config, new, task, step, holding, orphan, topics, splits, actorUp,
          cancelled, boot, recvUp, neighbor, joined, worker, broken>>

\* The bootstrap task as the topic knows it; Topic::new has started it.
Boot == INSTANCE BootstrapContract WITH started <- TRUE, outcome <- boot

\* The receiver actor as the topic knows it.
Recv == INSTANCE ReceiverContract WITH up <- recvUp

TypeOK ==
    /\ config \in [async : BOOLEAN, enabled : SUBSET Workers, fatal : BOOLEAN]
    /\ new \in {"joining", "spawning", "ok", "err", "dropped"}
    /\ task \in {"waiting", "spawning", "done"}
    /\ step \in [Spawners -> 0..4]
    /\ holding \in [Spawners -> BOOLEAN]
    /\ orphan \in 0..3
    /\ topics \in 0..MaxHandles
    /\ splits \in 0..MaxHandles
    /\ actorUp \in BOOLEAN
    /\ cancelled \in BOOLEAN
    /\ boot \in {"none", "ok", "err"}
    /\ recvUp \in BOOLEAN
    /\ neighbor \in BOOLEAN
    /\ joined \in BOOLEAN
    /\ worker \in [Workers -> {"off", "running", "failed", "stopped"}]
    /\ broken \in BOOLEAN

\* Topic::new has spawned the actor, the bootstrap and the background task; an
\* asynchronous one returns at once.
Init ==
    /\ config \in [async : BOOLEAN, enabled : SUBSET Workers, fatal : BOOLEAN]
    /\ new = IF config.async THEN "ok" ELSE "joining"
    /\ task = "waiting"
    /\ step = [p \in Spawners |-> 0]
    /\ holding = [p \in Spawners |-> FALSE]
    /\ orphan = 0
    /\ topics = IF config.async THEN 1 ELSE 0
    /\ splits = 0
    /\ actorUp = TRUE
    /\ cancelled = FALSE
    /\ boot = "none"
    /\ recvUp = TRUE
    /\ neighbor = FALSE
    /\ joined = FALSE
    /\ worker = [w \in Workers |-> "off"]
    /\ broken = FALSE

-----------------------------------------------------------------------------
NewRuns == new \in {"joining", "spawning"}

\* Mutants of Referenced: sender and receiver carry no _topic_keep_alive; the
\* background task owns its Arc from the start.
ReferencedByTopics ==
    topics > 0 \/ NewRuns \/ \E p \in Spawners : holding[p]

ReferencedByTask ==
    topics > 0 \/ splits > 0 \/ NewRuns \/ task # "done"

\* Some Arc of the actor's handle is alive, so that a Weak one upgrades.
Referenced ==
    topics > 0 \/ splits > 0 \/ NewRuns \/ \E p \in Spawners : holding[p]

\* Mutant of NewJoined: the workers are left to the background task.
NewJoinedReturns ==
    /\ new = "joining"
    /\ joined
    /\ new' = "ok"
    /\ topics' = 1
    /\ UNCHANGED <<config, task, step, holding, orphan, splits, actorUp,
                   cancelled, boot, recvUp, neighbor, joined, worker, broken>>

\* Topic::new waits in joined() on a fresh clone of the receiver: it returns
\* while the node has a neighbor, or for an event since the clone was made.
NewJoined ==
    /\ new = "joining"
    /\ joined
    /\ new' = "spawning"
    /\ UNCHANGED <<config, task, step, holding, orphan, topics, splits,
                   actorUp, cancelled, boot, recvUp, neighbor, joined, worker,
                   broken>>

\* joined() fails because the receiver actor is gone, or because more events
\* came than the join channel holds before it was scheduled: Topic::new returns
\* Err and drops the only Arc.
NewJoinFails ==
    /\ new = "joining"
    /\ ~recvUp \/ joined
    /\ new' = "err"
    /\ UNCHANGED <<config, task, step, holding, orphan, topics, splits,
                   actorUp, cancelled, boot, recvUp, neighbor, joined, worker,
                   broken>>

\* The caller drops the future of Topic::new at one of its awaits, and with it
\* the Arc; a call that it has queued at the topic actor stays in the queue.
NewDropped ==
    /\ NewRuns
    /\ new' = "dropped"
    /\ holding' = [holding EXCEPT !["new"] = FALSE]
    /\ orphan' \in IF holding["new"] THEN {0, step["new"]} ELSE {0}
    /\ UNCHANGED <<config, task, step, topics, splits, actorUp, cancelled, boot,
                   recvUp, neighbor, joined, worker, broken>>

\* The topic actor comes to the call: the worker starts or cannot, and nobody is
\* left to hear of it.
OrphanStarts ==
    /\ actorUp /\ orphan # 0
    /\ \E s \in {"running", "failed"} :
           worker' = [worker EXCEPT ![WorkerAt[orphan]] = s]
    /\ orphan' = 0
    /\ UNCHANGED <<config, new, task, step, holding, topics, splits, actorUp,
                   cancelled, boot, recvUp, neighbor, joined, broken>>

\* Mutants of TaskLearns: the result of the bootstrap is not awaited; the two
\* modes are swapped.
TaskLearnsEarly ==
    /\ task = "waiting"
    /\ task' = IF config.async THEN "spawning" ELSE "done"
    /\ UNCHANGED <<config, new, step, holding, orphan, topics, splits, actorUp,
                   cancelled, boot, recvUp, neighbor, joined, worker, broken>>

TaskLearnsSwapped ==
    /\ task = "waiting"
    /\ boot # "none"
    /\ task' = IF boot = "ok" /\ ~config.async THEN "spawning" ELSE "done"
    /\ cancelled' = (cancelled \/ boot = "err")
    /\ UNCHANGED <<config, new, step, holding, orphan, topics, splits, actorUp,
                   boot, recvUp, neighbor, joined, worker, broken>>

\* The background task learns the result of the bootstrap: an error shuts the
\* topic down, a success starts the workers of an asynchronous topic.
TaskLearns ==
    /\ task = "waiting"
    /\ boot # "none"
    /\ task' = IF boot = "ok" /\ config.async THEN "spawning" ELSE "done"
    /\ cancelled' = (cancelled \/ boot = "err")
    /\ UNCHANGED <<config, new, step, holding, orphan, topics, splits, actorUp,
                   boot, recvUp, neighbor, joined, worker, broken>>

-----------------------------------------------------------------------------
\* spawn_workers(), run by Topic::new or by the background task.

Spawns(p) == IF p = "new" THEN new = "spawning" ELSE task = "spawning"

\* Mutant of Finish: an error cancels the token and is not returned.
FinishSilently(p, ok) ==
    /\ cancelled' = (cancelled \/ ~ok)
    /\ IF p = "new"
       THEN /\ new' = IF ok THEN "ok" ELSE new
            /\ topics' = IF ok THEN 1 ELSE 0
            /\ UNCHANGED task
       ELSE task' = "done" /\ UNCHANGED <<new, topics>>

\* The end of spawn_workers: an error cancels the token; Topic::new returns.
Finish(p, ok) ==
    /\ cancelled' = (cancelled \/ ~ok)
    /\ IF p = "new"
       THEN /\ new' = IF ok THEN "ok" ELSE "err"
            /\ topics' = IF ok THEN 1 ELSE 0
            /\ UNCHANGED task
       ELSE task' = "done" /\ UNCHANGED <<new, topics>>

\* if !cancel_token.is_cancelled()
SpawnBegins(p) ==
    /\ Spawns(p) /\ step[p] = 0
    /\ IF cancelled
       THEN Finish(p, FALSE) /\ UNCHANGED step
       ELSE /\ step' = [step EXCEPT ![p] = 1]
            /\ UNCHANGED <<cancelled, new, task, topics>>
    /\ UNCHANGED <<config, holding, orphan, splits, actorUp, boot, recvUp,
                   neighbor, joined, worker, broken>>

\* A worker that is not enabled is passed over.
SpawnSkips(p) ==
    /\ Spawns(p) /\ step[p] \in 1..3 /\ ~holding[p]
    /\ WorkerAt[step[p]] \notin config.enabled
    /\ step' = [step EXCEPT ![p] = @ + 1]
    /\ UNCHANGED <<config, new, task, holding, orphan, topics, splits, actorUp,
                   cancelled, boot, recvUp, neighbor, joined, worker, broken>>

\* Mutant of SpawnUpgrades: the Arc is held from the start, by the task as well.
SpawnUpgradesAlways(p) ==
    /\ Spawns(p) /\ step[p] \in 1..3 /\ ~holding[p]
    /\ WorkerAt[step[p]] \in config.enabled
    /\ holding' = [holding EXCEPT ![p] = TRUE]
    /\ UNCHANGED <<config, new, task, step, orphan, topics, splits, actorUp,
                   cancelled, boot, recvUp, neighbor, joined, worker, broken>>

\* api.upgrade(): the Arc is held until the call returns, or the topic is gone.
SpawnUpgrades(p) ==
    /\ Spawns(p) /\ step[p] \in 1..3 /\ ~holding[p]
    /\ WorkerAt[step[p]] \in config.enabled
    /\ IF Referenced
       THEN /\ holding' = [holding EXCEPT ![p] = TRUE]
            /\ UNCHANGED <<cancelled, new, task, topics>>
       ELSE Finish(p, FALSE) /\ UNCHANGED holding
    /\ UNCHANGED <<config, step, orphan, splits, actorUp, boot, recvUp,
                   neighbor, joined, worker, broken>>

\* The actor starts the worker.  One that cannot start fails the topic, or is
\* left out, as its configuration says.
SpawnStarts(p) ==
    /\ Spawns(p) /\ holding[p]
    /\ holding' = [holding EXCEPT ![p] = FALSE]
    /\ \/ /\ worker' = [worker EXCEPT ![WorkerAt[step[p]]] = "running"]
          /\ step' = [step EXCEPT ![p] = @ + 1]
          /\ UNCHANGED <<cancelled, new, task, topics, broken>>
       \/ /\ worker' = [worker EXCEPT ![WorkerAt[step[p]]] = "failed"]
          /\ IF config.fatal
             THEN Finish(p, FALSE) /\ broken' = TRUE /\ UNCHANGED step
             ELSE /\ step' = [step EXCEPT ![p] = @ + 1]
                  /\ UNCHANGED <<cancelled, new, task, topics, broken>>
    /\ UNCHANGED <<config, orphan, splits, actorUp, boot, recvUp, neighbor,
                   joined>>

SpawnEnds(p) ==
    /\ Spawns(p) /\ step[p] = 4
    /\ Finish(p, TRUE)
    /\ UNCHANGED <<config, step, holding, orphan, splits, actorUp, boot,
                   recvUp, neighbor, joined, worker, broken>>

SpawnWorkers(p) ==
    \/ SpawnBegins(p) \/ SpawnSkips(p) \/ SpawnUpgrades(p) \/ SpawnStarts(p)
    \/ SpawnEnds(p)

-----------------------------------------------------------------------------
\* The user.

CloneTopic ==
    /\ topics \in 1..(MaxHandles - 1)
    /\ topics' = topics + 1
    /\ UNCHANGED <<config, new, task, step, holding, orphan, splits, actorUp,
                   cancelled, boot, recvUp, neighbor, joined, worker, broken>>

\* Mutant of DropTopic: a drop releases the Arc twice.
DropTopicTwice ==
    /\ topics > 0
    /\ topics' = topics - 2
    /\ UNCHANGED <<config, new, task, step, holding, orphan, splits, actorUp,
                   cancelled, boot, recvUp, neighbor, joined, worker, broken>>

DropTopic ==
    /\ topics > 0
    /\ topics' = topics - 1
    /\ UNCHANGED <<config, new, task, step, holding, orphan, splits, actorUp,
                   cancelled, boot, recvUp, neighbor, joined, worker, broken>>

\* gossip_sender(), gossip_receiver() of a Topic, or the clone of a handle: it
\* keeps the topic alive.
Split ==
    /\ topics > 0 \/ splits > 0
    /\ splits < MaxHandles
    /\ splits' = splits + 1
    /\ UNCHANGED <<config, new, task, step, holding, orphan, topics, actorUp,
                   cancelled, boot, recvUp, neighbor, joined, worker, broken>>

DropSplit ==
    /\ splits > 0
    /\ splits' = splits - 1
    /\ UNCHANGED <<config, new, task, step, holding, orphan, topics, actorUp,
                   cancelled, boot, recvUp, neighbor, joined, worker, broken>>

-----------------------------------------------------------------------------
\* The parts of the topic that run by themselves.

\* The topic actor has worked off its queue and ends: impl Drop for TopicActor.
ActorDropped ==
    /\ actorUp /\ ~Referenced /\ orphan = 0
    /\ actorUp' = FALSE
    /\ cancelled' = TRUE
    /\ UNCHANGED <<config, new, task, step, holding, orphan, topics, splits,
                   boot, recvUp, neighbor, joined, worker, broken>>

\* A neighbor appears, by the bootstrap's doing or by a peer's, or the last
\* one disappears.
NeighborUp ==
    /\ Recv!NeighborUp
    /\ joined' = TRUE
    /\ UNCHANGED <<config, new, task, step, holding, orphan, topics, splits,
                   actorUp, boot, worker, broken>>

NeighborDown ==
    /\ Recv!NeighborDown
    /\ UNCHANGED <<config, new, task, step, holding, orphan, topics, splits,
                   actorUp, boot, joined, worker, broken>>

\* The bootstrap task sends its result, as its contract allows.
BootOk ==
    /\ Boot!Succeed
    /\ UNCHANGED <<config, new, task, step, holding, orphan, topics, splits,
                   actorUp, recvUp, neighbor, worker, broken>>

BootErr ==
    /\ Boot!Fail
    /\ UNCHANGED <<config, new, task, step, holding, orphan, topics, splits,
                   actorUp, recvUp, neighbor, worker, broken>>

\* The receiver actor ends with the token.
ReceiverStops ==
    /\ Recv!Stop
    /\ UNCHANGED <<config, new, task, step, holding, orphan, topics, splits,
                   actorUp, boot, joined, worker, broken>>

\* The gossip stream ends: the receiver actor shuts the topic down.
StreamEnds ==
    /\ Recv!StreamEnds
    /\ broken' = TRUE
    /\ UNCHANGED <<config, new, task, step, holding, orphan, topics, splits,
                   actorUp, boot, joined, worker>>

\* Mutant of WorkerStops: the loop does not watch the token.
WorkerStopsWithHandle(w) ==
    /\ worker[w] = "running"
    /\ ~actorUp
    /\ worker' = [worker EXCEPT ![w] = "stopped"]
    /\ UNCHANGED <<config, new, task, step, holding, orphan, topics, splits,
                   actorUp, cancelled, boot, recvUp, neighbor, joined, broken>>

\* A worker ends with the token, or with the last handle of its actor, which
\* the topic actor owns.
WorkerStops(w) ==
    /\ worker[w] = "running"
    /\ cancelled \/ ~actorUp
    /\ worker' = [worker EXCEPT ![w] = "stopped"]
    /\ UNCHANGED <<config, new, task, step, holding, orphan, topics, splits,
                   actorUp, cancelled, boot, recvUp, neighbor, joined, broken>>

-----------------------------------------------------------------------------
Background ==
    \/ NewJoined \/ NewJoinFails \/ TaskLearns \/ OrphanStarts
    \/ ActorDropped \/ BootOk \/ BootErr \/ ReceiverStops
    \/ \E w \in Workers : WorkerStops(w)

User ==
    \/ NewDropped \/ CloneTopic \/ DropTopic \/ Split \/ DropSplit

Next ==
    \/ Background
    \/ \E p \in Spawners : SpawnWorkers(p)
    \/ User
    \/ NeighborUp \/ NeighborDown \/ StreamEnds

Spec == Init /\ [][Next]_vars

\* Every task the runtime has spawned is scheduled; of the bootstrap task and of
\* the receiver actor the fairness of their contracts is assumed, that they end
\* on a cancelled topic.  The user, the network and the success of the bootstrap
\* are free.
FairSpec ==
    /\ Spec
    /\ WF_vars(neighbor /\ NewJoined) /\ WF_vars(~recvUp /\ NewJoinFails)
    /\ WF_vars(TaskLearns) /\ WF_vars(OrphanStarts)
    /\ WF_vars(ActorDropped) /\ WF_vars(ReceiverStops)
    /\ WF_vars(cancelled /\ (BootOk \/ BootErr))
    /\ \A w \in Workers : WF_vars(WorkerStops(w))
    /\ \A p \in Spawners : WF_vars(SpawnWorkers(p))

-----------------------------------------------------------------------------
HasHandle == topics > 0 \/ splits > 0

\* A topic of which any handle is left, be it a single split receiver, stays
\* alive: it is cancelled only because the gossip stream ended or a worker
\* that must start could not.
HandleKeepsAlive == (HasHandle /\ ~broken) => ~cancelled

\* What is released stays released: once no Arc is left none comes back, and no
\* worker is started any more, though spawn_workers may be between two of its
\* calls; all that can still come up is the one worker whose start an abandoned
\* Topic::new had queued, and nothing once the topic actor is gone.  A cancelled
\* topic stays cancelled.
StaysReleased ==
    [][/\ ~Referenced =>
            /\ ~Referenced'
            /\ \A w \in Workers :
                   worker[w] # "running" /\ worker'[w] = "running" =>
                       actorUp /\ orphan # 0 /\ orphan' = 0 /\ w = WorkerAt[orphan]
            /\ orphan = 0 => orphan' = 0
       /\ cancelled => cancelled']_vars

\* No worker runs on a node that never joined.
WorkersAfterJoin == (\E w \in Workers : worker[w] # "off") => joined

\* A synchronous Topic::new that returns Ok has tried to start every enabled
\* worker and no other.
OkMeansWorkers ==
    (~config.async /\ new = "ok") =>
        \A w \in Workers : worker[w] # "off" <=> w \in config.enabled

Quiet ==
    /\ ~actorUp /\ orphan = 0 /\ cancelled /\ ~recvUp
    /\ boot # "none" /\ task = "done"
    /\ \A w \in Workers : worker[w] # "running"

\* Dropping the last handle, a failed and an abandoned Topic::new end every
\* task of the topic, wherever the bootstrap and spawn_workers are.
LastHandleEndsAll == (~NewRuns /\ ~HasHandle) ~> Quiet

\* A cancelled topic ends its tasks though handles are still alive, and though
\* spawn_workers may be starting one more worker just then.
CancelEndsTasks ==
    cancelled ~> /\ ~recvUp /\ boot # "none" /\ task = "done"
                 /\ \A w \in Workers : worker[w] # "running"

\* After the bootstrap of an asynchronous topic every enabled worker comes up.
WorkersComeUp ==
    (config.async /\ boot = "ok") ~>
        (cancelled \/ \A w \in config.enabled : worker[w] # "off")

\* Topic::new returns on a node that stays joined, and on a topic that is
\* shut down meanwhile.
NewReturns == (NewRuns /\ (cancelled \/ [](neighbor))) ~> ~NewRuns
=============================================================================
