--------------------------- MODULE RecordPublisher ---------------------------
(***************************************************************************)
(* Publishing and reading the records of one slot (a topic and a unix      *)
(* minute): RecordPublisher of crypto/record.rs on top of the DhtActor of  *)
(* dht.rs, for several nodes that share the mainline DHT.                  *)
(*                                                                         *)
(* All nodes of a topic derive the same signing key and salt for a minute, *)
(* and every record is put with the sequence number i64::MAX.  A storage   *)
(* node of the DHT therefore holds one record of the slot at a time, and a *)
(* later put overwrites it.  A lookup gathers what storage nodes answer,   *)
(* one after the other, and a put reaches them one after the other; both   *)
(* are awaited for seconds, in which others write and records expire.  The *)
(* nodes of the model share one secret; a record under another one cannot  *)
(* be read, which is the same as no record.                                *)
(*                                                                         *)
(* Each node has one DhtActor, which serves the get and put requests of    *)
(* all publish tasks of the node one after the other.  A publish task      *)
(* counts the records of the slot and puts its own only below the cap; a   *)
(* "fresh" task (publish_record: the Publisher, the startup publication)   *)
(* looks the slot up itself and fails with the lookup, a "cached" one (the *)
(* bootstrap loop) goes on with unwrap_or_default() of its own lookup.     *)
(***************************************************************************)
EXTENDS Naturals, Sequences, FiniteSets

CONSTANTS
    Nodes,       \* the publishing nodes
    Tasks,       \* the publish tasks
    Owner,       \* the node a task runs on
    Cached,      \* the tasks that publish with cached_records = Some(..)
    Storage,     \* the DHT nodes that store the slot
    Nobody,      \* a storage node holds no readable record of the slot
    MaxRecords,  \* max_bootstrap_records
    Retries,     \* DhtConfig::retries, any usize
    Word         \* the number of usize values

ASSUME RecordPublisherAssumption ==
    /\ Owner \in [Tasks -> Nodes]
    /\ Cached \subseteq Tasks
    /\ Nobody \notin Nodes
    /\ IsFiniteSet(Nodes)
    /\ MaxRecords \in Nat
    /\ Word \in Nat \ {0}
    /\ Retries \in 0..(Word - 1)

\* The bound of the retry loop, `1 + retries' in a release build.
Attempts == (1 + Retries) % Word

VARIABLES
    store,      \* the publisher whose record a storage node holds
    queue,      \* the requests waiting at a node's DhtActor, head in service
    attempt,    \* i in the retry loop of the put at the head
    reached,    \* the nodes of whose current attempt a storage node has the record
    inflight,   \* tasks with messages to storage nodes that no attempt waits for
    connected,  \* DhtActor.dht is Some(..)
    cancelled,  \* the node's cancel token
    state,      \* where a publish task is
    seen,       \* the records a task counts, by publisher
    answered,   \* ghost: that count came from an answer of the DHT
    entered,    \* ghost: tasks whose record a storage node has taken
    misled      \* ghost: tasks that stored over or beside a record they had
                \*        not counted

dht == <<store, entered, misled>>

vars == <<dht, queue, attempt, reached, inflight, connected, cancelled, state,
          seen, answered>>

Final == {"ok", "skipped", "err"}
Request == [task : Tasks, op : {"get", "put"}]

TypeOK ==
    /\ store \in [Storage -> Nodes \cup {Nobody}]
    /\ queue \in [Nodes -> Seq(Request)]
    /\ attempt \in [Nodes -> 0..Retries]
    /\ reached \subseteq Nodes
    /\ inflight \subseteq Tasks
    /\ connected \in [Nodes -> BOOLEAN]
    /\ cancelled \in [Nodes -> BOOLEAN]
    /\ state \in [Tasks -> {"new", "getting", "check", "putting"} \cup Final]
    /\ seen \in [Tasks -> SUBSET Nodes]
    /\ answered \subseteq Tasks
    /\ entered \subseteq Tasks
    /\ misled \subseteq Tasks

Init ==
    /\ store = [s \in Storage |-> Nobody]
    /\ queue = [n \in Nodes |-> <<>>]
    /\ attempt = [n \in Nodes |-> 0]
    /\ reached = {}
    /\ inflight = {}
    /\ connected = [n \in Nodes |-> FALSE]
    /\ cancelled = [n \in Nodes |-> FALSE]
    /\ state = [t \in Tasks |-> "new"]
    /\ seen = [t \in Tasks |-> {}]
    /\ answered = {}
    /\ entered = {}
    /\ misled = {}

-----------------------------------------------------------------------------
Holds(n, op) == queue[n] # <<>> /\ Head(queue[n]).op = op

InService(n) == Head(queue[n]).task

Send(t, op) ==
    queue' = [queue EXCEPT ![Owner[t]] = Append(@, [task |-> t, op |-> op])]

Done(n) == queue' = [queue EXCEPT ![n] = Tail(@)]

\* An answer reaches a task only if it still waits for it.
Answer(t, from, to) ==
    state' = [state EXCEPT ![t] = IF @ = from THEN to ELSE @]

\* The publishers whose record is in the slot.
Published == {store[s] : s \in Storage} \ {Nobody}

\* The record of task t reaches a storage node.
Store(t) ==
    /\ \E s \in Storage : store' = [store EXCEPT ![s] = Owner[t]]
    /\ entered' = entered \cup {t}
    /\ misled' = IF Published \ ({Owner[t]} \cup seen[t]) # {}
                 THEN misled \cup {t}
                 ELSE misled

-----------------------------------------------------------------------------
\* get_records(): the lookup is queued at the node's DhtActor.
BeginLookup(t) ==
    /\ state[t] = "new"
    /\ state' = [state EXCEPT ![t] = "getting"]
    /\ Send(t, "get")
    /\ UNCHANGED <<dht, attempt, reached, inflight, connected, cancelled, seen,
                   answered>>

\* While DhtActor::get() collects, a storage node answers with the record it holds
\* now; a node's own record does not count.
GetHears(n) ==
    /\ Holds(n, "get")
    /\ state[InService(n)] = "getting"
    /\ \E k \in Published \ {n} :
        seen' = [seen EXCEPT ![InService(n)] = @ \cup {k}]
    /\ connected' = [connected EXCEPT ![n] = TRUE]
    /\ UNCHANGED <<dht, queue, attempt, reached, inflight, cancelled, state,
                   answered>>

\* The stream of answers ends in time.
GetAnswered(n) ==
    /\ Holds(n, "get")
    /\ LET t == InService(n)
       IN  /\ Answer(t, "getting", "check")
           /\ answered' = IF state[t] = "getting" THEN answered \cup {t} ELSE answered
    /\ connected' = [connected EXCEPT ![n] = TRUE]
    /\ Done(n)
    /\ UNCHANGED <<dht, attempt, reached, inflight, cancelled, seen>>

\* A lookup that ends without Ok: what was heard is dropped.
Drops(t) == seen' = [seen EXCEPT ![t] = IF state[t] = "getting" THEN {} ELSE @]

\* Mutant of GetFailed: every task goes on with unwrap_or_default().
GetFailedDefaults(n) ==
    /\ Holds(n, "get")
    /\ connected' = [connected EXCEPT ![n] = TRUE]
    /\ Answer(InService(n), "getting", "check")
    /\ Drops(InService(n))
    /\ Done(n)
    /\ UNCHANGED <<dht, attempt, reached, inflight, cancelled, answered>>

\* DhtActor::get() times out, or the DHT client cannot be built.  A fresh task
\* fails with it, a cached one continues with no records.
GetFailed(n) ==
    /\ Holds(n, "get")
    /\ \/ connected' = [connected EXCEPT ![n] = TRUE]
       \/ ~connected[n] /\ UNCHANGED connected
    /\ LET t == InService(n)
       IN  /\ Answer(t, "getting", IF t \in Cached THEN "check" ELSE "err")
           /\ Drops(t)
    /\ Done(n)
    /\ UNCHANGED <<dht, attempt, reached, inflight, cancelled, answered>>

\* Mutant of Decide: > for >=.
DecideOffByOne(t) ==
    /\ state[t] = "check"
    /\ IF Cardinality(seen[t]) > MaxRecords
       THEN /\ state' = [state EXCEPT ![t] = "skipped"]
            /\ UNCHANGED queue
       ELSE /\ state' = [state EXCEPT ![t] = "putting"]
            /\ Send(t, "put")
    /\ UNCHANGED <<dht, attempt, reached, inflight, connected, cancelled, seen,
                   answered>>

\* The slot is full, or the own record is put.
Decide(t) ==
    /\ state[t] = "check"
    /\ IF Cardinality(seen[t]) >= MaxRecords
       THEN /\ state' = [state EXCEPT ![t] = "skipped"]
            /\ UNCHANGED queue
       ELSE /\ state' = [state EXCEPT ![t] = "putting"]
            /\ Send(t, "put")
    /\ UNCHANGED <<dht, attempt, reached, inflight, connected, cancelled, seen,
                   answered>>

\* During an attempt a storage node takes the record; its acknowledgement may
\* come in time or not.
PutStores(n) ==
    /\ Holds(n, "put")
    /\ attempt[n] < Attempts
    /\ Store(InService(n))
    /\ reached' = reached \cup {n}
    /\ connected' = [connected EXCEPT ![n] = TRUE]
    /\ UNCHANGED <<queue, attempt, inflight, cancelled, state, seen, answered>>

\* An attempt is over; messages it has sent may still be under way.
EndsAttempt(n) ==
    /\ reached' = reached \ {n}
    /\ inflight' = IF Attempts = 0 THEN inflight ELSE inflight \cup {InService(n)}
    /\ connected' = [connected EXCEPT ![n] = TRUE]

\* The put is over, with `to' for a task that still waits.
EndsPut(n, to) ==
    /\ Answer(InService(n), "putting", to)
    /\ attempt' = [attempt EXCEPT ![n] = 0]
    /\ Done(n)

\* The loop of DhtActor::put_mutable() is left with Ok: an attempt is
\* acknowledged, or there is none to make.
PutOk(n) ==
    /\ Holds(n, "put")
    /\ Attempts = 0 \/ n \in reached
    /\ EndsAttempt(n)
    /\ EndsPut(n, "ok")
    /\ UNCHANGED <<dht, cancelled, seen, answered>>

\* Mutants of PutRetried: one attempt too many; the loop does not count; the
\* request is queued again instead of being tried again.
PutRetriedOnceMore(n) ==
    /\ Holds(n, "put")
    /\ attempt[n] <= Retries
    /\ EndsAttempt(n)
    /\ attempt' = [attempt EXCEPT ![n] = @ + 1]
    /\ UNCHANGED <<dht, queue, cancelled, state, seen, answered>>

PutRetriedForever(n) ==
    /\ Holds(n, "put")
    /\ EndsAttempt(n)
    /\ UNCHANGED <<dht, queue, attempt, cancelled, state, seen, answered>>

PutRetriedRequeued(n) ==
    /\ Holds(n, "put")
    /\ attempt[n] < Retries
    /\ EndsAttempt(n)
    /\ attempt' = [attempt EXCEPT ![n] = @ + 1]
    /\ queue' = [queue EXCEPT ![n] = Append(@, Head(@))]
    /\ UNCHANGED <<dht, cancelled, state, seen, answered>>

\* An attempt fails or times out, whatever has been stored; after the client is
\* rebuilt it is tried again.
PutRetried(n) ==
    /\ Holds(n, "put")
    /\ attempt[n] < Attempts /\ attempt[n] # Retries
    /\ EndsAttempt(n)
    /\ attempt' = [attempt EXCEPT ![n] = @ + 1]
    /\ UNCHANGED <<dht, queue, cancelled, state, seen, answered>>

\* Mutant of PutFailed: the loop runs out of attempts and falls into Ok(()).
PutFailedOk(n) ==
    /\ Holds(n, "put")
    /\ attempt[n] < Attempts
    /\ EndsAttempt(n)
    /\ EndsPut(n, "ok")
    /\ UNCHANGED <<dht, cancelled, seen, answered>>

\* The last attempt fails, or the client cannot be rebuilt before the next.
PutFailed(n) ==
    /\ Holds(n, "put")
    /\ attempt[n] < Attempts
    /\ EndsAttempt(n)
    /\ EndsPut(n, "err")
    /\ UNCHANGED <<dht, cancelled, seen, answered>>

\* The first client cannot be built: the put fails before any attempt.
PutUnconnected(n) ==
    /\ Holds(n, "put")
    /\ ~connected[n]
    /\ EndsPut(n, "err")
    /\ UNCHANGED <<dht, reached, inflight, connected, cancelled, seen, answered>>

\* A message of an attempt nobody waits for any more reaches a storage node.
Arrives(t) ==
    /\ t \in inflight
    /\ Store(t)
    /\ UNCHANGED <<queue, attempt, reached, inflight, connected, cancelled, state,
                   seen, answered>>

\* tokio::select! on the token: the task returns an error and drops its
\* future; a request it has queued stays with the DhtActor.
Abort(t) ==
    /\ cancelled[Owner[t]]
    /\ state[t] \notin Final
    /\ state' = [state EXCEPT ![t] = "err"]
    /\ Drops(t)
    /\ UNCHANGED <<dht, queue, attempt, reached, inflight, connected, cancelled,
                   answered>>

\* The topic of node n shuts down.
Cancel(n) ==
    /\ ~cancelled[n]
    /\ cancelled' = [cancelled EXCEPT ![n] = TRUE]
    /\ UNCHANGED <<dht, queue, attempt, reached, inflight, connected, state, seen,
                   answered>>

\* A storage node drops its record of the slot, or a record that does not
\* decrypt or verify takes its place, which lookups skip.
Expire ==
    /\ \E s \in Storage :
        /\ store[s] # Nobody
        /\ store' = [store EXCEPT ![s] = Nobody]
    /\ UNCHANGED <<queue, attempt, reached, inflight, connected, cancelled, state,
                   seen, answered, entered, misled>>

Publish(t) == BeginLookup(t) \/ Decide(t)

\* An operation of the DhtActor, or an attempt of one, ends.
Serve(n) ==
    \/ GetAnswered(n) \/ GetFailed(n)
    \/ PutOk(n) \/ PutRetried(n) \/ PutFailed(n) \/ PutUnconnected(n)

Next ==
    \/ \E t \in Tasks : Publish(t) \/ Abort(t) \/ Arrives(t)
    \/ \E n \in Nodes : Serve(n) \/ GetHears(n) \/ PutStores(n) \/ Cancel(n)
    \/ Expire

Spec == Init /\ [][Next]_vars

\* Spawned tasks run, and every operation of a DhtActor ends: get and put are
\* under a timeout and the retry sleep is finite.
FairSpec ==
    /\ Spec
    /\ \A t \in Tasks : WF_vars(Publish(t))
    /\ \A n \in Nodes : WF_vars(Serve(n))

-----------------------------------------------------------------------------
\* The cap is enforced by check-then-put, without any coordination: the nodes
\* that exceed max_bootstrap_records in a slot are nodes that once stored their
\* record in presence of one they had not counted (raced, missed by the lookup,
\* put after a failed lookup, or stored by a message that arrives late).  The
\* others keep the cap: answers and stores of different moments, retries, puts of
\* cancelled tasks and records that vanish add no other way.
CapExceededOnlyByMisled ==
    Cardinality(Published \ {Owner[t] : t \in misled}) <= MaxRecords

\* publish_record() puts nothing when it could not count the slot: a failed
\* lookup fails the fresh task.
FreshPutIsCounted ==
    \A t \in Tasks \ Cached : state[t] \in {"putting", "ok"} => t \in answered

\* "Publish a mutable record to the DHT." (dht.rs:63): Ok of a task that did not
\* skip means that a storage node has taken the record and said so; no path through
\* the retry loop falls out of it with Ok.
OkMeansAcked == \A t \in Tasks : state[t] = "ok" => t \in entered

\* A task that waits has its request at the DhtActor, once: no reply is lost,
\* whatever is retried or cancelled meanwhile.
WaiterIsQueued ==
    \A t \in Tasks :
        state[t] \in {"getting", "putting"} =>
            Cardinality({i \in DOMAIN queue[Owner[t]] :
                queue[Owner[t]][i] =
                    [task |-> t,
                     op |-> IF state[t] = "getting" THEN "get" ELSE "put"]}) = 1

\* Every publish task ends, though the tasks of a node queue up behind each
\* other's retries.
TasksEnd == <>(\A t \in Tasks : state[t] \in Final)

\* The tasks whose put is queued or in service, though they may have returned.
Pending ==
    {t \in Tasks : \E i \in DOMAIN queue[Owner[t]] :
        queue[Owner[t]][i] = [task |-> t, op |-> "put"]}

Returned == [t \in Tasks |-> IF state[t] \in Final THEN state[t] ELSE "none"]

\* The callers may rely on the contract of the slot, though lookups and puts take
\* their time, the records of a node queue up behind each other and a cancelled
\* task leaves its put behind: Ok says that the record has been in the slot, a task
\* that skipped has met max_bootstrap_records other nodes there during its lookup
\* and its record never enters, and no task that has returned sends a record that
\* was not on its way before.
Slot == INSTANCE SlotContract
            WITH slot <- Published, counted <- seen, sent <- Pending \cup inflight,
                 outcome <- Returned

MeetsSlotContract == Slot!Spec

\* "Checks existing record count for this time slot and skips publishing if
\* [the] limit reached" (record.rs:290): whoever puts has counted.
PutIsCounted == \A t \in Tasks : state[t] = "putting" => t \in answered
=============================================================================
