------------------------ MODULE TopicLifecycleProofs ------------------------
(***************************************************************************)
(* For any number of handles and in every configuration: a topic with a    *)
(* handle stays alive, no worker runs before the node has joined, and a    *)
(* synchronous Topic::new returns Ok with its workers started.             *)
(*                                                                         *)
(* HandleKeepsAlive follows from a stronger fact: a topic cancelled for    *)
(* another reason than a broken stream or worker has no Arc left at all,   *)
(* and an Arc only comes from an Arc.                                      *)
(***************************************************************************)
EXTENDS TopicLifecycle, TLAPS

\* The token is cancelled on an intact topic only when nothing refers to it.
Unreferenced ==
    /\ (cancelled /\ ~broken) => ~Referenced
    /\ boot = "err" => cancelled

\* Whoever starts workers has seen the node join.
JoinedFirst ==
    /\ boot = "ok" => joined
    /\ new = "spawning" => joined
    /\ task = "spawning" => joined /\ config.async
    /\ holding["new"] => new = "spawning"
    /\ holding["task"] => task = "spawning"
    /\ orphan # 0 => joined /\ new = "dropped"
    /\ WorkersAfterJoin

\* How far the spawn_workers of a synchronous Topic::new has come.
StartedUpTo ==
    ~config.async =>
        /\ new = "joining" =>
            step["new"] = 0 /\ \A w \in Workers : worker[w] = "off"
        /\ new = "spawning" =>
            \A k \in 1..3 :
                IF k < step["new"]
                THEN worker[WorkerAt[k]] # "off" <=> WorkerAt[k] \in config.enabled
                ELSE worker[WorkerAt[k]] = "off"
        /\ holding["new"] =>
            step["new"] \in 1..3 /\ WorkerAt[step["new"]] \in config.enabled

\* The topic actor outlives every Arc and every call in its queue.
ActorLast == (Referenced \/ orphan # 0) => actorUp

\* A call is under way only for one of the workers.
HoldingInRange == \A p \in Spawners : holding[p] => step[p] \in 1..3

IInv ==
    /\ TypeOK /\ Unreferenced /\ JoinedFirst /\ HoldingInRange
    /\ StartedUpTo /\ OkMeansWorkers /\ ActorLast

-----------------------------------------------------------------------------
\* The order of spawn_workers names every worker once.
LEMMA WorkerOrder ==
    /\ \A k \in 1..3 : WorkerAt[k] \in Workers
    /\ \A w \in Workers : \E k \in 1..3 : w = WorkerAt[k]
    /\ \A j, k \in 1..3 : WorkerAt[j] = WorkerAt[k] => j = k
  BY DEF Workers, WorkerAt

\* Most steps change what is true or false only, or who holds an Arc.
LEMMA TypeFrame ==
    ASSUME TypeOK,
           UNCHANGED <<config, new, task, step, orphan, topics, splits, boot, worker>>,
           holding' \in [Spawners -> BOOLEAN],
           actorUp' \in BOOLEAN, cancelled' \in BOOLEAN, recvUp' \in BOOLEAN,
           neighbor' \in BOOLEAN, joined' \in BOOLEAN, broken' \in BOOLEAN
    PROVE  TypeOK'
<1>1. /\ config' = config /\ new' = new /\ task' = task /\ step' = step
      /\ orphan' = orphan /\ topics' = topics /\ splits' = splits
      /\ boot' = boot /\ worker' = worker
    OBVIOUS
<1>2. /\ config \in [async : BOOLEAN, enabled : SUBSET Workers, fatal : BOOLEAN]
      /\ new \in {"joining", "spawning", "ok", "err", "dropped"}
      /\ task \in {"waiting", "spawning", "done"}
      /\ step \in [Spawners -> 0..4] /\ orphan \in 0..3
      /\ topics \in 0..MaxHandles
      /\ splits \in 0..MaxHandles
      /\ boot \in {"none", "ok", "err"}
      /\ worker \in [Workers -> {"off", "running", "failed", "stopped"}]
    BY DEF TypeOK
<1>3. /\ config' \in [async : BOOLEAN, enabled : SUBSET Workers, fatal : BOOLEAN]
      /\ new' \in {"joining", "spawning", "ok", "err", "dropped"}
      /\ task' \in {"waiting", "spawning", "done"}
      /\ step' \in [Spawners -> 0..4] /\ orphan' \in 0..3
      /\ topics' \in 0..MaxHandles
      /\ splits' \in 0..MaxHandles
      /\ boot' \in {"none", "ok", "err"}
      /\ worker' \in [Workers -> {"off", "running", "failed", "stopped"}]
    BY <1>1, <1>2
<1> QED  BY <1>3 DEF TypeOK

\* The end of spawn_workers keeps the types of what it changes.
LEMMA FinishType ==
    ASSUME TypeOK, NEW p \in Spawners, NEW ok \in BOOLEAN, Finish(p, ok)
    PROVE  /\ cancelled' \in BOOLEAN
           /\ new' \in {"joining", "spawning", "ok", "err", "dropped"}
           /\ task' \in {"waiting", "spawning", "done"}
           /\ topics' \in 0..MaxHandles
<1>1. cancelled' \in BOOLEAN
    BY DEF Finish
<1>2. topics' \in 0..MaxHandles
    BY TopicLifecycleAssumption DEF Finish, TypeOK
<1> QED  BY <1>1, <1>2 DEF Finish, TypeOK

\* Initially nothing is cancelled and no worker is started.
LEMMA InitIInv == Init => IInv
<1> SUFFICES ASSUME Init PROVE IInv
    OBVIOUS
<1>1. TypeOK
  <2>1. /\ step \in [Spawners -> 0..4] /\ holding \in [Spawners -> BOOLEAN]
        /\ worker \in [Workers -> {"off", "running", "failed", "stopped"}]
      BY DEF Init
  <2>2. topics \in 0..MaxHandles /\ splits \in 0..MaxHandles
      BY TopicLifecycleAssumption DEF Init
  <2>3. orphan \in 0..3
      BY DEF Init
  <2> QED  BY <2>1, <2>2, <2>3 DEF Init, TypeOK
<1>2. Unreferenced /\ JoinedFirst
    BY DEF Init, Unreferenced, JoinedFirst, WorkersAfterJoin, Spawners
<1>3. StartedUpTo /\ OkMeansWorkers
    BY WorkerOrder DEF Init, StartedUpTo, OkMeansWorkers, Spawners
<1>4. HoldingInRange
    BY DEF Init, HoldingInRange
<1>5. ActorLast
    BY DEF Init, ActorLast
<1> QED  BY <1>1, <1>2, <1>3, <1>4, <1>5 DEF IInv

\* Topic::new goes on to start the workers, none of which is started.
LEMMA NewJoinedKeeps == IInv /\ NewJoined => IInv'
<1> SUFFICES ASSUME IInv, NewJoined PROVE IInv'
    OBVIOUS
<1> USE DEF NewJoined
<1>1. TypeOK'
    BY TopicLifecycleAssumption, WorkerOrder DEF IInv, TypeOK
<1>2. Unreferenced'
    BY DEF IInv, TypeOK, Unreferenced, Referenced, NewRuns, Spawners
<1>3. JoinedFirst'
    BY WorkerOrder DEF IInv, TypeOK, JoinedFirst, WorkersAfterJoin, Spawners, NewRuns
<1>4. StartedUpTo' /\ OkMeansWorkers'
    BY WorkerOrder DEF IInv, TypeOK, JoinedFirst, StartedUpTo, OkMeansWorkers,
           Spawners, NewRuns
<1>5. HoldingInRange'
    BY DEF IInv, TypeOK, HoldingInRange, Spawners
<1>6. ActorLast'
    BY DEF IInv, TypeOK, ActorLast, Referenced, NewRuns, Spawners
<1> QED  BY <1>1, <1>2, <1>3, <1>4, <1>5, <1>6 DEF IInv

\* Topic::new fails in joined().
LEMMA NewJoinFailsKeeps == IInv /\ NewJoinFails => IInv'
<1> SUFFICES ASSUME IInv, NewJoinFails PROVE IInv'
    OBVIOUS
<1> USE DEF NewJoinFails
<1>1. TypeOK'
    BY TopicLifecycleAssumption, WorkerOrder DEF IInv, TypeOK
<1>2. Unreferenced'
    BY DEF IInv, TypeOK, Unreferenced, Referenced, NewRuns, Spawners
<1>3. JoinedFirst'
    BY WorkerOrder DEF IInv, TypeOK, JoinedFirst, WorkersAfterJoin, Spawners, NewRuns
<1>4. StartedUpTo' /\ OkMeansWorkers'
    BY WorkerOrder DEF IInv, TypeOK, JoinedFirst, StartedUpTo, OkMeansWorkers,
           Spawners, NewRuns
<1>5. HoldingInRange'
    BY DEF IInv, TypeOK, HoldingInRange, Spawners
<1>6. ActorLast'
    BY DEF IInv, TypeOK, ActorLast, Referenced, NewRuns, Spawners
<1> QED  BY <1>1, <1>2, <1>3, <1>4, <1>5, <1>6 DEF IInv

\* Topic::new is abandoned, perhaps with a worker start under way.
LEMMA NewDroppedKeeps == IInv /\ NewDropped => IInv'
<1> SUFFICES ASSUME IInv, NewDropped PROVE IInv'
    OBVIOUS
<1> USE DEF NewDropped
<1>1. TypeOK'
  <2>1. orphan' \in 0..3
      BY DEF IInv, HoldingInRange, Spawners
  <2>2. holding' \in [Spawners -> BOOLEAN]
      BY DEF IInv, TypeOK
  <2> QED  BY <2>1, <2>2 DEF IInv, TypeOK
<1>2. Unreferenced'
    BY DEF IInv, TypeOK, Unreferenced, Referenced, NewRuns, Spawners
<1>3. JoinedFirst'
    BY WorkerOrder DEF IInv, TypeOK, JoinedFirst, WorkersAfterJoin, Spawners, NewRuns
<1>4. StartedUpTo' /\ OkMeansWorkers'
    BY WorkerOrder DEF IInv, TypeOK, JoinedFirst, StartedUpTo, OkMeansWorkers,
           Spawners, NewRuns
<1>5. HoldingInRange'
    BY DEF IInv, TypeOK, HoldingInRange, Spawners
<1>6. ActorLast'
    BY DEF IInv, TypeOK, ActorLast, Referenced, NewRuns, Spawners
<1> QED  BY <1>1, <1>2, <1>3, <1>4, <1>5, <1>6 DEF IInv

\* The topic actor comes to the call an abandoned Topic::new has left.
LEMMA OrphanStartsKeeps == IInv /\ OrphanStarts => IInv'
<1> SUFFICES ASSUME IInv, OrphanStarts PROVE IInv'
    OBVIOUS
<1> USE DEF OrphanStarts
<1>1. TypeOK'
  <2>1. worker' \in [Workers -> {"off", "running", "failed", "stopped"}]
      BY DEF IInv, TypeOK
  <2> QED  BY <2>1 DEF IInv, TypeOK
<1>2. Unreferenced'
    BY DEF IInv, Unreferenced, Referenced, NewRuns
<1>3. JoinedFirst'
    BY DEF IInv, JoinedFirst, WorkersAfterJoin
<1>4. StartedUpTo' /\ OkMeansWorkers'
    BY DEF IInv, JoinedFirst, StartedUpTo, OkMeansWorkers
<1>5. HoldingInRange'
    BY DEF IInv, HoldingInRange
<1>6. ActorLast'
    BY DEF IInv, ActorLast
<1> QED  BY <1>1, <1>2, <1>3, <1>4, <1>5, <1>6 DEF IInv

\* The background task learns the bootstrap's result.
LEMMA TaskLearnsKeeps == IInv /\ TaskLearns => IInv'
<1> SUFFICES ASSUME IInv, TaskLearns PROVE IInv'
    OBVIOUS
<1> USE DEF TaskLearns
<1>1. TypeOK'
    BY TopicLifecycleAssumption, WorkerOrder DEF IInv, TypeOK
<1>2. Unreferenced'
    BY DEF IInv, TypeOK, Unreferenced, Referenced, NewRuns, Spawners
<1>3. JoinedFirst'
    BY WorkerOrder DEF IInv, TypeOK, JoinedFirst, WorkersAfterJoin, Spawners, NewRuns
<1>4. StartedUpTo' /\ OkMeansWorkers'
    BY WorkerOrder DEF IInv, TypeOK, JoinedFirst, StartedUpTo, OkMeansWorkers,
           Spawners, NewRuns
<1>5. HoldingInRange'
    BY DEF IInv, TypeOK, HoldingInRange, Spawners
<1>6. ActorLast'
    BY DEF IInv, TypeOK, ActorLast, Referenced, NewRuns, Spawners
<1> QED  BY <1>1, <1>2, <1>3, <1>4, <1>5, <1>6 DEF IInv

\* spawn_workers looks at the token.
LEMMA SpawnBeginsKeeps ==
    ASSUME IInv, NEW p \in Spawners, SpawnBegins(p)
    PROVE  IInv'
<1> USE DEF SpawnBegins, Finish, Spawns
<1>1. TypeOK'
    BY TopicLifecycleAssumption, WorkerOrder DEF IInv, TypeOK
<1>2. Unreferenced'
    BY DEF IInv, TypeOK, Unreferenced, Referenced, NewRuns, Spawners
<1>3. JoinedFirst'
  <2>1. UNCHANGED <<worker, joined, boot, config, holding>>
      OBVIOUS
  <2>2. /\ new' = "spawning" => new = "spawning"
        /\ task' = "spawning" => task = "spawning"
      BY DEF IInv, TypeOK
  <2>3. /\ holding["new"] => new' = "spawning"
        /\ holding["task"] => task' = "spawning"
      BY DEF IInv, TypeOK, JoinedFirst, Spawners, HoldingInRange
  <2> QED  BY <2>1, <2>2, <2>3 DEF IInv, JoinedFirst, WorkersAfterJoin
<1>4. StartedUpTo' /\ OkMeansWorkers'
    BY WorkerOrder DEF IInv, TypeOK, JoinedFirst, StartedUpTo, OkMeansWorkers,
           Spawners, NewRuns
<1>5. HoldingInRange'
    BY DEF IInv, TypeOK, HoldingInRange, Spawners
<1>6. ActorLast'
    BY DEF IInv, TypeOK, ActorLast, Referenced, NewRuns, Spawners
<1> QED  BY <1>1, <1>2, <1>3, <1>4, <1>5, <1>6 DEF IInv

\* spawn_workers passes over a worker.
LEMMA SpawnSkipsKeeps ==
    ASSUME IInv, NEW p \in Spawners, SpawnSkips(p)
    PROVE  IInv'
<1> USE DEF SpawnSkips, Spawns
<1>1. TypeOK'
    BY TopicLifecycleAssumption, WorkerOrder DEF IInv, TypeOK
<1>2. Unreferenced'
    BY DEF IInv, TypeOK, Unreferenced, Referenced, NewRuns, Spawners
<1>3. JoinedFirst'
    BY WorkerOrder DEF IInv, TypeOK, JoinedFirst, WorkersAfterJoin, Spawners, NewRuns
<1>4. StartedUpTo' /\ OkMeansWorkers'
    BY WorkerOrder DEF IInv, TypeOK, JoinedFirst, StartedUpTo, OkMeansWorkers,
           Spawners, NewRuns
<1>5. HoldingInRange'
    BY DEF IInv, TypeOK, HoldingInRange, Spawners
<1>6. ActorLast'
    BY DEF IInv, TypeOK, ActorLast, Referenced, NewRuns, Spawners
<1> QED  BY <1>1, <1>2, <1>3, <1>4, <1>5, <1>6 DEF IInv

\* spawn_workers turns its Weak into an Arc while there is one.
LEMMA SpawnUpgradesKeeps ==
    ASSUME IInv, NEW p \in Spawners, SpawnUpgrades(p)
    PROVE  IInv'
<1> USE DEF SpawnUpgrades, Finish, Spawns
<1>1. TypeOK'
  <2>1. CASE Referenced
    <3>1. /\ holding' = [holding EXCEPT ![p] = TRUE]
          /\ UNCHANGED <<cancelled, new, task, topics, config, step, splits,
                         actorUp, boot, recvUp, neighbor, joined, worker, broken>>
        BY <2>1
    <3>2. holding' \in [Spawners -> BOOLEAN]
        BY <3>1 DEF IInv, TypeOK
    <3>3. TypeOK
        BY DEF IInv
    <3>4. /\ actorUp' \in BOOLEAN /\ cancelled' \in BOOLEAN /\ recvUp' \in BOOLEAN
          /\ neighbor' \in BOOLEAN /\ joined' \in BOOLEAN /\ broken' \in BOOLEAN
        BY <3>1, <3>3 DEF TypeOK
    <3> QED  BY <3>1, <3>2, <3>3, <3>4, TypeFrame
  <2>2. CASE ~Referenced
    <3>1. Finish(p, FALSE) /\ UNCHANGED holding
        BY <2>2
    <3> HIDE DEF Finish
    <3> QED  BY <3>1, FinishType DEF IInv, TypeOK
  <2> QED  BY <2>1, <2>2
<1>2. Unreferenced'
    BY DEF IInv, TypeOK, Unreferenced, Referenced, NewRuns, Spawners
<1>3. JoinedFirst'
    BY WorkerOrder DEF IInv, TypeOK, JoinedFirst, WorkersAfterJoin, Spawners, NewRuns
<1>4. StartedUpTo' /\ OkMeansWorkers'
    BY WorkerOrder DEF IInv, TypeOK, JoinedFirst, StartedUpTo, OkMeansWorkers,
           Spawners, NewRuns
<1>5. HoldingInRange'
    BY DEF IInv, TypeOK, HoldingInRange, Spawners
<1>6. ActorLast'
    BY DEF IInv, TypeOK, ActorLast, Referenced, NewRuns, Spawners
<1> QED  BY <1>1, <1>2, <1>3, <1>4, <1>5, <1>6 DEF IInv

\* The topic actor starts a worker, or the worker fails.
LEMMA SpawnStartsKeeps ==
    ASSUME IInv, NEW p \in Spawners, SpawnStarts(p)
    PROVE  IInv'
<1> USE DEF SpawnStarts, Finish, Spawns
<1>1. TypeOK'
  <2>1. /\ holding' \in [Spawners -> BOOLEAN]
        /\ worker' \in [Workers -> {"off", "running", "failed", "stopped"}]
        /\ broken' \in BOOLEAN
      BY DEF IInv, TypeOK
  <2>2. CASE Finish(p, FALSE) /\ UNCHANGED step
    <3> HIDE DEF Finish
    <3> QED  BY <2>1, <2>2, FinishType DEF IInv, TypeOK
  <2>3. CASE /\ step' = [step EXCEPT ![p] = @ + 1]
             /\ UNCHANGED <<cancelled, new, task, topics>>
    <3>1. step[p] \in 0..4 /\ step[p] # 4
        BY DEF IInv, TypeOK, HoldingInRange
    <3>2. step' \in [Spawners -> 0..4]
        BY <2>3, <3>1 DEF IInv, TypeOK
    <3> QED  BY <2>1, <2>3, <3>2 DEF IInv, TypeOK
  <2> QED  BY <2>2, <2>3
<1>2. Unreferenced'
    BY DEF IInv, TypeOK, Unreferenced, Referenced, NewRuns, Spawners
<1>3. JoinedFirst'
    BY WorkerOrder DEF IInv, TypeOK, JoinedFirst, WorkersAfterJoin, Spawners, NewRuns
<1>4. StartedUpTo' /\ OkMeansWorkers'
    BY WorkerOrder DEF IInv, TypeOK, JoinedFirst, StartedUpTo, OkMeansWorkers,
           Spawners, NewRuns
<1>5. HoldingInRange'
    BY DEF IInv, TypeOK, HoldingInRange, Spawners
<1>6. ActorLast'
    BY DEF IInv, TypeOK, ActorLast, Referenced, NewRuns, Spawners
<1> QED  BY <1>1, <1>2, <1>3, <1>4, <1>5, <1>6 DEF IInv

\* spawn_workers has gone through the workers.
LEMMA SpawnEndsKeeps ==
    ASSUME IInv, NEW p \in Spawners, SpawnEnds(p)
    PROVE  IInv'
<1> USE DEF SpawnEnds, Finish, Spawns
<1>1. TypeOK'
    BY TopicLifecycleAssumption, WorkerOrder DEF IInv, TypeOK
<1>2. Unreferenced'
    BY DEF IInv, TypeOK, Unreferenced, Referenced, NewRuns, Spawners
<1>3. JoinedFirst'
  <2>1. UNCHANGED <<worker, joined, boot, config, holding>>
      OBVIOUS
  <2>2. /\ new' = "spawning" => new = "spawning"
        /\ task' = "spawning" => task = "spawning"
      BY DEF IInv, TypeOK
  <2>3. /\ holding["new"] => new' = "spawning"
        /\ holding["task"] => task' = "spawning"
      BY DEF IInv, TypeOK, JoinedFirst, Spawners, HoldingInRange
  <2> QED  BY <2>1, <2>2, <2>3 DEF IInv, JoinedFirst, WorkersAfterJoin
<1>4. StartedUpTo' /\ OkMeansWorkers'
    BY WorkerOrder DEF IInv, TypeOK, JoinedFirst, StartedUpTo, OkMeansWorkers,
           Spawners, NewRuns
<1>5. HoldingInRange'
    BY DEF IInv, TypeOK, HoldingInRange, Spawners
<1>6. ActorLast'
    BY DEF IInv, TypeOK, ActorLast, Referenced, NewRuns, Spawners
<1> QED  BY <1>1, <1>2, <1>3, <1>4, <1>5, <1>6 DEF IInv

\* A Topic is cloned from a Topic.
LEMMA CloneTopicKeeps == IInv /\ CloneTopic => IInv'
<1> SUFFICES ASSUME IInv, CloneTopic PROVE IInv'
    OBVIOUS
<1> USE DEF CloneTopic
<1>1. TypeOK'
    BY TopicLifecycleAssumption, WorkerOrder DEF IInv, TypeOK
<1>2. Unreferenced'
    BY DEF IInv, TypeOK, Unreferenced, Referenced, NewRuns, Spawners
<1>3. JoinedFirst'
    BY WorkerOrder DEF IInv, TypeOK, JoinedFirst, WorkersAfterJoin, Spawners, NewRuns
<1>4. StartedUpTo' /\ OkMeansWorkers'
    BY WorkerOrder DEF IInv, TypeOK, JoinedFirst, StartedUpTo, OkMeansWorkers,
           Spawners, NewRuns
<1>5. HoldingInRange'
    BY DEF IInv, TypeOK, HoldingInRange, Spawners
<1>6. ActorLast'
    BY DEF IInv, TypeOK, ActorLast, Referenced, NewRuns, Spawners
<1> QED  BY <1>1, <1>2, <1>3, <1>4, <1>5, <1>6 DEF IInv

\* A Topic is dropped.
LEMMA DropTopicKeeps == IInv /\ DropTopic => IInv'
<1> SUFFICES ASSUME IInv, DropTopic PROVE IInv'
    OBVIOUS
<1> USE DEF DropTopic
<1>1. TypeOK'
    BY TopicLifecycleAssumption, WorkerOrder DEF IInv, TypeOK
<1>2. Unreferenced'
    BY DEF IInv, TypeOK, Unreferenced, Referenced, NewRuns, Spawners
<1>3. JoinedFirst'
    BY WorkerOrder DEF IInv, TypeOK, JoinedFirst, WorkersAfterJoin, Spawners, NewRuns
<1>4. StartedUpTo' /\ OkMeansWorkers'
    BY WorkerOrder DEF IInv, TypeOK, JoinedFirst, StartedUpTo, OkMeansWorkers,
           Spawners, NewRuns
<1>5. HoldingInRange'
    BY DEF IInv, TypeOK, HoldingInRange, Spawners
<1>6. ActorLast'
    BY DEF IInv, TypeOK, ActorLast, Referenced, NewRuns, Spawners
<1> QED  BY <1>1, <1>2, <1>3, <1>4, <1>5, <1>6 DEF IInv

\* A sender or receiver comes from a live handle.
LEMMA SplitKeeps == IInv /\ Split => IInv'
<1> SUFFICES ASSUME IInv, Split PROVE IInv'
    OBVIOUS
<1> USE DEF Split
<1>1. TypeOK'
    BY TopicLifecycleAssumption, WorkerOrder DEF IInv, TypeOK
<1>2. Unreferenced'
    BY DEF IInv, TypeOK, Unreferenced, Referenced, NewRuns, Spawners
<1>3. JoinedFirst'
    BY WorkerOrder DEF IInv, TypeOK, JoinedFirst, WorkersAfterJoin, Spawners, NewRuns
<1>4. StartedUpTo' /\ OkMeansWorkers'
    BY WorkerOrder DEF IInv, TypeOK, JoinedFirst, StartedUpTo, OkMeansWorkers,
           Spawners, NewRuns
<1>5. HoldingInRange'
    BY DEF IInv, TypeOK, HoldingInRange, Spawners
<1>6. ActorLast'
    BY DEF IInv, TypeOK, ActorLast, Referenced, NewRuns, Spawners
<1> QED  BY <1>1, <1>2, <1>3, <1>4, <1>5, <1>6 DEF IInv

\* A sender or receiver is dropped.
LEMMA DropSplitKeeps == IInv /\ DropSplit => IInv'
<1> SUFFICES ASSUME IInv, DropSplit PROVE IInv'
    OBVIOUS
<1> USE DEF DropSplit
<1>1. TypeOK'
    BY TopicLifecycleAssumption, WorkerOrder DEF IInv, TypeOK
<1>2. Unreferenced'
    BY DEF IInv, TypeOK, Unreferenced, Referenced, NewRuns, Spawners
<1>3. JoinedFirst'
    BY WorkerOrder DEF IInv, TypeOK, JoinedFirst, WorkersAfterJoin, Spawners, NewRuns
<1>4. StartedUpTo' /\ OkMeansWorkers'
    BY WorkerOrder DEF IInv, TypeOK, JoinedFirst, StartedUpTo, OkMeansWorkers,
           Spawners, NewRuns
<1>5. HoldingInRange'
    BY DEF IInv, TypeOK, HoldingInRange, Spawners
<1>6. ActorLast'
    BY DEF IInv, TypeOK, ActorLast, Referenced, NewRuns, Spawners
<1> QED  BY <1>1, <1>2, <1>3, <1>4, <1>5, <1>6 DEF IInv

\* The actor is dropped without any Arc left.
LEMMA ActorDroppedKeeps == IInv /\ ActorDropped => IInv'
<1> SUFFICES ASSUME IInv, ActorDropped PROVE IInv'
    OBVIOUS
<1> USE DEF ActorDropped
<1>1. TypeOK'
  <2>1. TypeOK
      BY DEF IInv
  <2>2. /\ holding' \in [Spawners -> BOOLEAN]
        /\ actorUp' \in BOOLEAN /\ cancelled' \in BOOLEAN /\ recvUp' \in BOOLEAN
        /\ neighbor' \in BOOLEAN /\ joined' \in BOOLEAN /\ broken' \in BOOLEAN
      BY <2>1 DEF TypeOK
  <2> QED  BY <2>1, <2>2, TypeFrame
<1>2. Unreferenced'
    BY DEF IInv, TypeOK, Unreferenced, Referenced, NewRuns, Spawners
<1>3. JoinedFirst'
    BY WorkerOrder DEF IInv, TypeOK, JoinedFirst, WorkersAfterJoin, Spawners, NewRuns
<1>4. StartedUpTo' /\ OkMeansWorkers'
    BY WorkerOrder DEF IInv, TypeOK, JoinedFirst, StartedUpTo, OkMeansWorkers,
           Spawners, NewRuns
<1>5. HoldingInRange'
    BY DEF IInv, TypeOK, HoldingInRange, Spawners
<1>6. ActorLast'
    BY DEF IInv, TypeOK, ActorLast, Referenced, NewRuns, Spawners
<1> QED  BY <1>1, <1>2, <1>3, <1>4, <1>5, <1>6 DEF IInv

\* The node joins.
LEMMA NeighborUpKeeps == IInv /\ NeighborUp => IInv'
<1> SUFFICES ASSUME IInv, NeighborUp PROVE IInv'
    OBVIOUS
<1> USE DEF NeighborUp, Recv!NeighborUp
<1>1. TypeOK'
  <2>1. TypeOK
      BY DEF IInv
  <2>2. /\ holding' \in [Spawners -> BOOLEAN]
        /\ actorUp' \in BOOLEAN /\ cancelled' \in BOOLEAN /\ recvUp' \in BOOLEAN
        /\ neighbor' \in BOOLEAN /\ joined' \in BOOLEAN /\ broken' \in BOOLEAN
      BY <2>1 DEF TypeOK
  <2> QED  BY <2>1, <2>2, TypeFrame
<1>2. Unreferenced'
    BY DEF IInv, TypeOK, Unreferenced, Referenced, NewRuns, Spawners
<1>3. JoinedFirst'
    BY WorkerOrder DEF IInv, TypeOK, JoinedFirst, WorkersAfterJoin, Spawners, NewRuns
<1>4. StartedUpTo' /\ OkMeansWorkers'
    BY WorkerOrder DEF IInv, TypeOK, JoinedFirst, StartedUpTo, OkMeansWorkers,
           Spawners, NewRuns
<1>5. HoldingInRange'
    BY DEF IInv, TypeOK, HoldingInRange, Spawners
<1>6. ActorLast'
    BY DEF IInv, TypeOK, ActorLast, Referenced, NewRuns, Spawners
<1> QED  BY <1>1, <1>2, <1>3, <1>4, <1>5, <1>6 DEF IInv

\* The node loses its neighbors.
LEMMA NeighborDownKeeps == IInv /\ NeighborDown => IInv'
<1> SUFFICES ASSUME IInv, NeighborDown PROVE IInv'
    OBVIOUS
<1> USE DEF NeighborDown, Recv!NeighborDown
<1>1. TypeOK'
  <2>1. TypeOK
      BY DEF IInv
  <2>2. /\ holding' \in [Spawners -> BOOLEAN]
        /\ actorUp' \in BOOLEAN /\ cancelled' \in BOOLEAN /\ recvUp' \in BOOLEAN
        /\ neighbor' \in BOOLEAN /\ joined' \in BOOLEAN /\ broken' \in BOOLEAN
      BY <2>1 DEF TypeOK
  <2> QED  BY <2>1, <2>2, TypeFrame
<1>2. Unreferenced'
    BY DEF IInv, TypeOK, Unreferenced, Referenced, NewRuns, Spawners
<1>3. JoinedFirst'
    BY WorkerOrder DEF IInv, TypeOK, JoinedFirst, WorkersAfterJoin, Spawners, NewRuns
<1>4. StartedUpTo' /\ OkMeansWorkers'
    BY WorkerOrder DEF IInv, TypeOK, JoinedFirst, StartedUpTo, OkMeansWorkers,
           Spawners, NewRuns
<1>5. HoldingInRange'
    BY DEF IInv, TypeOK, HoldingInRange, Spawners
<1>6. ActorLast'
    BY DEF IInv, TypeOK, ActorLast, Referenced, NewRuns, Spawners
<1> QED  BY <1>1, <1>2, <1>3, <1>4, <1>5, <1>6 DEF IInv

\* The bootstrap ends on a node that joined.
LEMMA BootOkKeeps == IInv /\ BootOk => IInv'
<1> SUFFICES ASSUME IInv, BootOk PROVE IInv'
    OBVIOUS
<1> USE DEF BootOk, Boot!Succeed
<1>1. TypeOK'
    BY TopicLifecycleAssumption, WorkerOrder DEF IInv, TypeOK
<1>2. Unreferenced'
    BY DEF IInv, TypeOK, Unreferenced, Referenced, NewRuns, Spawners
<1>3. JoinedFirst'
    BY WorkerOrder DEF IInv, TypeOK, JoinedFirst, WorkersAfterJoin, Spawners, NewRuns
<1>4. StartedUpTo' /\ OkMeansWorkers'
    BY WorkerOrder DEF IInv, TypeOK, JoinedFirst, StartedUpTo, OkMeansWorkers,
           Spawners, NewRuns
<1>5. HoldingInRange'
    BY DEF IInv, TypeOK, HoldingInRange, Spawners
<1>6. ActorLast'
    BY DEF IInv, TypeOK, ActorLast, Referenced, NewRuns, Spawners
<1> QED  BY <1>1, <1>2, <1>3, <1>4, <1>5, <1>6 DEF IInv

\* The bootstrap ends on a cancelled topic.
LEMMA BootErrKeeps == IInv /\ BootErr => IInv'
<1> SUFFICES ASSUME IInv, BootErr PROVE IInv'
    OBVIOUS
<1> USE DEF BootErr, Boot!Fail
<1>1. TypeOK'
    BY TopicLifecycleAssumption, WorkerOrder DEF IInv, TypeOK
<1>2. Unreferenced'
    BY DEF IInv, TypeOK, Unreferenced, Referenced, NewRuns, Spawners
<1>3. JoinedFirst'
    BY WorkerOrder DEF IInv, TypeOK, JoinedFirst, WorkersAfterJoin, Spawners, NewRuns
<1>4. StartedUpTo' /\ OkMeansWorkers'
    BY WorkerOrder DEF IInv, TypeOK, JoinedFirst, StartedUpTo, OkMeansWorkers,
           Spawners, NewRuns
<1>5. HoldingInRange'
    BY DEF IInv, TypeOK, HoldingInRange, Spawners
<1>6. ActorLast'
    BY DEF IInv, TypeOK, ActorLast, Referenced, NewRuns, Spawners
<1> QED  BY <1>1, <1>2, <1>3, <1>4, <1>5, <1>6 DEF IInv

\* The receiver actor ends with the token.
LEMMA ReceiverStopsKeeps == IInv /\ ReceiverStops => IInv'
<1> SUFFICES ASSUME IInv, ReceiverStops PROVE IInv'
    OBVIOUS
<1> USE DEF ReceiverStops, Recv!Stop
<1>1. TypeOK'
  <2>1. TypeOK
      BY DEF IInv
  <2>2. /\ holding' \in [Spawners -> BOOLEAN]
        /\ actorUp' \in BOOLEAN /\ cancelled' \in BOOLEAN /\ recvUp' \in BOOLEAN
        /\ neighbor' \in BOOLEAN /\ joined' \in BOOLEAN /\ broken' \in BOOLEAN
      BY <2>1 DEF TypeOK
  <2> QED  BY <2>1, <2>2, TypeFrame
<1>2. Unreferenced'
    BY DEF IInv, TypeOK, Unreferenced, Referenced, NewRuns, Spawners
<1>3. JoinedFirst'
    BY WorkerOrder DEF IInv, TypeOK, JoinedFirst, WorkersAfterJoin, Spawners, NewRuns
<1>4. StartedUpTo' /\ OkMeansWorkers'
    BY WorkerOrder DEF IInv, TypeOK, JoinedFirst, StartedUpTo, OkMeansWorkers,
           Spawners, NewRuns
<1>5. HoldingInRange'
    BY DEF IInv, TypeOK, HoldingInRange, Spawners
<1>6. ActorLast'
    BY DEF IInv, TypeOK, ActorLast, Referenced, NewRuns, Spawners
<1> QED  BY <1>1, <1>2, <1>3, <1>4, <1>5, <1>6 DEF IInv

\* The gossip stream breaks the topic.
LEMMA StreamEndsKeeps == IInv /\ StreamEnds => IInv'
<1> SUFFICES ASSUME IInv, StreamEnds PROVE IInv'
    OBVIOUS
<1> USE DEF StreamEnds, Recv!StreamEnds
<1>1. TypeOK'
  <2>1. TypeOK
      BY DEF IInv
  <2>2. /\ holding' \in [Spawners -> BOOLEAN]
        /\ actorUp' \in BOOLEAN /\ cancelled' \in BOOLEAN /\ recvUp' \in BOOLEAN
        /\ neighbor' \in BOOLEAN /\ joined' \in BOOLEAN /\ broken' \in BOOLEAN
      BY <2>1 DEF TypeOK
  <2> QED  BY <2>1, <2>2, TypeFrame
<1>2. Unreferenced'
    BY DEF IInv, TypeOK, Unreferenced, Referenced, NewRuns, Spawners
<1>3. JoinedFirst'
    BY WorkerOrder DEF IInv, TypeOK, JoinedFirst, WorkersAfterJoin, Spawners, NewRuns
<1>4. StartedUpTo' /\ OkMeansWorkers'
    BY WorkerOrder DEF IInv, TypeOK, JoinedFirst, StartedUpTo, OkMeansWorkers,
           Spawners, NewRuns
<1>5. HoldingInRange'
    BY DEF IInv, TypeOK, HoldingInRange, Spawners
<1>6. ActorLast'
    BY DEF IInv, TypeOK, ActorLast, Referenced, NewRuns, Spawners
<1> QED  BY <1>1, <1>2, <1>3, <1>4, <1>5, <1>6 DEF IInv

\* A worker ends; it has been started.
LEMMA WorkerStopsKeeps ==
    ASSUME IInv, NEW w \in Workers, WorkerStops(w)
    PROVE  IInv'
<1> USE DEF WorkerStops
<1>1. TypeOK'
    BY TopicLifecycleAssumption, WorkerOrder DEF IInv, TypeOK
<1>2. Unreferenced'
    BY DEF IInv, TypeOK, Unreferenced, Referenced, NewRuns, Spawners
<1>3. JoinedFirst'
    BY WorkerOrder DEF IInv, TypeOK, JoinedFirst, WorkersAfterJoin, Spawners, NewRuns
<1>4. StartedUpTo' /\ OkMeansWorkers'
    BY WorkerOrder DEF IInv, TypeOK, JoinedFirst, StartedUpTo, OkMeansWorkers,
           Spawners, NewRuns
<1>5. HoldingInRange'
    BY DEF IInv, TypeOK, HoldingInRange, Spawners
<1>6. ActorLast'
    BY DEF IInv, TypeOK, ActorLast, Referenced, NewRuns, Spawners
<1> QED  BY <1>1, <1>2, <1>3, <1>4, <1>5, <1>6 DEF IInv

\* A stuttering step changes nothing.
LEMMA StutterKeeps == IInv /\ UNCHANGED vars => IInv'
  BY DEF IInv, TypeOK, Unreferenced, Referenced, NewRuns, JoinedFirst,
         WorkersAfterJoin, HoldingInRange, StartedUpTo, OkMeansWorkers, ActorLast,
         vars

-----------------------------------------------------------------------------
\* Every step keeps IInv.
LEMMA InductiveStep == IInv /\ [Next]_vars => IInv'
<1> SUFFICES ASSUME IInv, [Next]_vars PROVE IInv'
    OBVIOUS
<1>1. CASE Background
    BY <1>1, NewJoinedKeeps, NewJoinFailsKeeps, TaskLearnsKeeps, OrphanStartsKeeps,
       ActorDroppedKeeps, BootOkKeeps, BootErrKeeps, ReceiverStopsKeeps,
       WorkerStopsKeeps
       DEF Background
<1>2. ASSUME NEW p \in Spawners, SpawnWorkers(p) PROVE IInv'
    BY <1>2, SpawnBeginsKeeps, SpawnSkipsKeeps, SpawnUpgradesKeeps,
       SpawnStartsKeeps, SpawnEndsKeeps DEF SpawnWorkers
<1>3. CASE User
    BY <1>3, NewDroppedKeeps, CloneTopicKeeps, DropTopicKeeps, SplitKeeps,
       DropSplitKeeps DEF User
<1>4. CASE NeighborUp \/ NeighborDown \/ StreamEnds
    BY <1>4, NeighborUpKeeps, NeighborDownKeeps, StreamEndsKeeps
<1>5. CASE UNCHANGED vars
    BY <1>5, StutterKeeps
<1> QED  BY <1>1, <1>2, <1>3, <1>4, <1>5 DEF Next

\* IInv is inductive.
THEOREM Inductive == Spec => []IInv
  BY InitIInv, InductiveStep, PTL DEF Spec

\* The life of a topic keeps its types, for any number of handles.
THEOREM TypeCorrect == Spec => []TypeOK
<1>1. IInv => TypeOK
    BY DEF IInv
<1> QED  BY <1>1, Inductive, PTL

\* Whatever the tasks of the topic do, they do not shut it down under a user
\* who holds any handle of it.
THEOREM KeptAlive == Spec => []HandleKeepsAlive
<1>1. IInv => HandleKeepsAlive
    BY DEF IInv, Unreferenced, Referenced, HandleKeepsAlive, HasHandle
<1> QED  BY <1>1, Inductive, PTL

\* Publisher and merge workers only ever run on a node that has joined.
THEOREM JoinBeforeWork == Spec => []WorkersAfterJoin
<1>1. IInv => WorkersAfterJoin
    BY DEF IInv, JoinedFirst
<1> QED  BY <1>1, Inductive, PTL

\* A synchronous Topic::new returns Ok with every enabled worker started.
THEOREM OkHasWorkers == Spec => []OkMeansWorkers
<1>1. IInv => OkMeansWorkers
    BY DEF IInv
<1> QED  BY <1>1, Inductive, PTL

-----------------------------------------------------------------------------
\* What StaysReleased says of one step.
Releases ==
    /\ ~Referenced =>
           /\ ~Referenced'
           /\ \A w \in Workers :
                  worker[w] # "running" /\ worker'[w] = "running" =>
                      actorUp /\ orphan # 0 /\ orphan' = 0 /\ w = WorkerAt[orphan]
           /\ orphan = 0 => orphan' = 0
    /\ cancelled => cancelled'

\* A call leaves the queue of the topic actor as the start of its own worker.
LEMMA OrphanReleases ==
    ASSUME IInv, OrphanStarts
    PROVE  Releases
<1>1. Referenced' <=> Referenced
    BY DEF OrphanStarts, Referenced, NewRuns
<1>2. ASSUME NEW w \in Workers, w # WorkerAt[orphan]
      PROVE  worker'[w] = worker[w]
    BY <1>2 DEF OrphanStarts, IInv, TypeOK
<1> QED  BY <1>1, <1>2 DEF OrphanStarts, Releases

\* No step brings an Arc back, starts another worker without one, or takes back
\* the cancellation; spawn_workers only goes on with the Arc it holds.
LEMMA ReleasedStep ==
    ASSUME IInv, Next
    PROVE  Releases
<1>1. CASE Background
  <2>1. CASE OrphanStarts
      BY <2>1, OrphanReleases
  <2>2. ASSUME NEW w \in Workers, WorkerStops(w) PROVE Releases
      BY <2>2 DEF WorkerStops, Referenced, NewRuns, IInv, TypeOK, Releases
  <2>3. CASE NewJoined \/ NewJoinFails
      BY <2>3 DEF NewJoined, NewJoinFails, Referenced, NewRuns, Releases
  <2>5. CASE TaskLearns \/ ActorDropped
    <3>1. /\ UNCHANGED <<new, holding, topics, splits, worker, orphan>>
          /\ cancelled => cancelled'
        BY <2>5 DEF TaskLearns, ActorDropped
    <3> QED  BY <3>1 DEF Referenced, NewRuns, Releases
  <2>4. CASE BootOk \/ BootErr \/ ReceiverStops
      BY <2>4 DEF BootOk, BootErr, Boot!Succeed, Boot!Fail, ReceiverStops,
         Recv!Stop, Referenced, NewRuns, Releases
  <2> QED  BY <1>1, <2>1, <2>2, <2>3, <2>4, <2>5 DEF Background
<1>2. ASSUME NEW p \in Spawners, SpawnWorkers(p) PROVE Releases
  <2> USE DEF Releases
  <2>1. CASE SpawnBegins(p)
      BY <2>1 DEF SpawnBegins, Finish, Spawns, Referenced, NewRuns, Spawners
  <2>2. CASE SpawnSkips(p)
      BY <2>2 DEF SpawnSkips, Referenced, NewRuns
  <2>3. CASE SpawnUpgrades(p)
      BY <2>3 DEF SpawnUpgrades, Finish, Spawns, Referenced, NewRuns, Spawners
  <2>4. CASE SpawnStarts(p)
    <3>1. Referenced
        BY <2>4 DEF SpawnStarts, Referenced
    <3>2. cancelled => cancelled'
        BY <2>4 DEF SpawnStarts, Finish
    <3> QED  BY <3>1, <3>2
  <2>5. CASE SpawnEnds(p)
      BY <2>5 DEF SpawnEnds, Finish, Spawns, Referenced, NewRuns, Spawners
  <2> QED  BY <1>2, <2>1, <2>2, <2>3, <2>4, <2>5 DEF SpawnWorkers
<1>3. CASE User
  <2> USE DEF Releases
  <2>1. CASE NewDropped
      BY <2>1 DEF NewDropped, Referenced
  <2>2. CASE CloneTopic \/ DropTopic
      BY <2>2 DEF CloneTopic, DropTopic, Referenced, NewRuns, IInv, TypeOK
  <2>3. CASE Split \/ DropSplit
      BY <2>3 DEF Split, DropSplit, Referenced, NewRuns, IInv, TypeOK
  <2> QED  BY <1>3, <2>1, <2>2, <2>3 DEF User
<1>4. CASE NeighborUp \/ NeighborDown \/ StreamEnds
    BY <1>4 DEF NeighborUp, NeighborDown, StreamEnds, Recv!NeighborUp,
       Recv!NeighborDown, Recv!StreamEnds, Referenced, NewRuns, Releases
<1> QED  BY <1>1, <1>2, <1>3, <1>4 DEF Next

\* What the last handle releases is never taken up again, and no worker comes
\* up behind it but the one an abandoned Topic::new had asked for, once, and
\* only as long as the topic actor works off its queue; for any number of
\* handles and wherever spawn_workers is.
THEOREM ReleasedForGood == Spec => StaysReleased
<1>1. IInv /\ [Next]_vars => [Releases]_vars
    BY ReleasedStep
<1> QED  BY <1>1, Inductive, PTL DEF Spec, StaysReleased, Releases

\* The topic actor ends after its queue and its Arcs, and no worker starts on a
\* topic whose actor has ended.
THEOREM NothingAfterActor ==
    Spec => [][~actorUp => \A w \in Workers :
                   worker'[w] = "running" => worker[w] = "running"]_vars
<1>1. ASSUME IInv, Next, ~actorUp, NEW w \in Workers,
             worker'[w] = "running", worker[w] # "running"
      PROVE  FALSE
    BY <1>1, ReleasedStep DEF IInv, ActorLast, Releases
<1>2. IInv /\ [Next]_vars =>
          [~actorUp => \A w \in Workers :
               worker'[w] = "running" => worker[w] = "running"]_vars
    BY <1>1
<1> QED  BY <1>2, Inductive, PTL DEF Spec

-----------------------------------------------------------------------------
\* The steps of the topic that neither contract knows can do no more than
\* cancel the token; they leave alone what else the contracts speak of.
LEMMA OtherSteps ==
    ASSUME IInv, Next,
           ~NeighborUp, ~NeighborDown, ~StreamEnds, ~ReceiverStops, ~BootOk, ~BootErr
    PROVE  /\ UNCHANGED <<recvUp, neighbor, joined, boot>>
           /\ UNCHANGED cancelled \/ (~cancelled /\ cancelled' = TRUE)
<1>1. UNCHANGED <<recvUp, neighbor, joined, boot>>
    BY DEF Next, Background, SpawnWorkers, User, NewJoined, NewJoinFails,
       TaskLearns, OrphanStarts, ActorDropped, WorkerStops, SpawnBegins, SpawnSkips,
       SpawnUpgrades, SpawnStarts, SpawnEnds, NewDropped, CloneTopic, DropTopic,
       Split, DropSplit
<1>2. cancelled \in BOOLEAN /\ cancelled' \in BOOLEAN
    BY InductiveStep DEF IInv, TypeOK
<1>3. cancelled => cancelled'
    BY ReleasedStep DEF Releases
<1> QED  BY <1>1, <1>2, <1>3

\* A step of the topic is, to the bootstrap task, a step of its contract.
LEMMA BootStep == IInv /\ [Next]_vars => [Boot!Next]_(Boot!vars)
<1> SUFFICES ASSUME IInv, [Next]_vars PROVE Boot!Next \/ UNCHANGED Boot!vars
    OBVIOUS
<1> USE DEF Boot!Next, Boot!vars
<1>0. cancelled \in BOOLEAN /\ joined \in BOOLEAN
    BY DEF IInv, TypeOK
<1>1. CASE NeighborUp
    BY <1>0, <1>1 DEF NeighborUp, Recv!NeighborUp, Boot!Join
<1>2. CASE NeighborDown \/ ReceiverStops
    BY <1>2 DEF NeighborDown, Recv!NeighborDown, ReceiverStops, Recv!Stop
<1>3. CASE StreamEnds
    BY <1>3 DEF StreamEnds, Recv!StreamEnds, Boot!Cancel
<1>4. CASE BootOk \/ BootErr
    BY <1>4 DEF BootOk, BootErr
<1>5. CASE UNCHANGED vars
    BY <1>5 DEF vars
<1>6. CASE /\ Next
           /\ ~NeighborUp /\ ~NeighborDown /\ ~StreamEnds
           /\ ~ReceiverStops /\ ~BootOk /\ ~BootErr
    BY <1>6, OtherSteps DEF Boot!Cancel
<1> QED  BY <1>1, <1>2, <1>3, <1>4, <1>5, <1>6

\* And to the receiver actor a step of the receiver's contract.
LEMMA ReceiverStep == IInv /\ [Next]_vars => [Recv!Next]_(Recv!vars)
<1> SUFFICES ASSUME IInv, [Next]_vars PROVE Recv!Next \/ UNCHANGED Recv!vars
    OBVIOUS
<1> USE DEF Recv!Next, Recv!vars
<1>1. CASE NeighborUp \/ NeighborDown
    BY <1>1 DEF NeighborUp, NeighborDown
<1>2. CASE StreamEnds \/ ReceiverStops
    BY <1>2 DEF StreamEnds, ReceiverStops
<1>3. CASE BootOk \/ BootErr
    BY <1>3 DEF BootOk, BootErr, Boot!Succeed, Boot!Fail
<1>4. CASE UNCHANGED vars
    BY <1>4 DEF vars
<1>5. CASE /\ Next
           /\ ~NeighborUp /\ ~NeighborDown /\ ~StreamEnds
           /\ ~ReceiverStops /\ ~BootOk /\ ~BootErr
    BY <1>5, OtherSteps DEF Recv!Cancel
<1> QED  BY <1>1, <1>2, <1>3, <1>4, <1>5

\* The topic is an environment both contracts allow: whatever its tasks, its
\* user and its workers do, the bootstrap task and the receiver actor see no
\* token taken back, no neighbor forgotten and no second result.  What Bootstrap
\* and GossipReceiver are shown to implement is thus what runs in this topic.
THEOREM KeepsContracts == Spec => Boot!Spec /\ Recv!Spec
<1>1. Init => Boot!Init /\ Recv!Init
    BY DEF Init, Boot!Init, Recv!Init
<1> QED  BY <1>1, Inductive, BootStep, ReceiverStep, PTL DEF Spec, Boot!Spec, Recv!Spec
=============================================================================
