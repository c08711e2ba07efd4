------------------------ MODULE RecordPublisherProofs ------------------------
(***************************************************************************)
(* For any number of nodes, publish tasks and storage nodes, any cap and   *)
(* any number of retries: who may put, what Ok means, and how a slot can   *)
(* come to hold more records than the cap.                                 *)
(*                                                                         *)
(* The cap rests on what is queued: a put that waits at a DhtActor belongs *)
(* to a task that counted fewer records than the cap, and what the task    *)
(* counted does not change any more, though the task itself may be long    *)
(* cancelled when the put is served.                                       *)
(***************************************************************************)
EXTENDS RecordPublisher, FiniteSetTheorems, TLAPS

\* A queued request is at its task's node, and a put comes after a count below
\* the cap.
QueueInv ==
    \A n \in Nodes : \A i \in DOMAIN queue[n] :
        LET r == queue[n][i]
        IN  /\ Owner[r.task] = n
            /\ r.op = "put" =>
                /\ state[r.task] \notin {"new", "getting", "check"}
                /\ Cardinality(seen[r.task]) < MaxRecords

\* What is still under way has been queued before.
FlightInv ==
    \A t \in inflight : /\ state[t] \notin {"new", "getting", "check"}
                        /\ Cardinality(seen[t]) < MaxRecords

\* A storage node that took the record in the current attempt took that of the
\* task in service.
ReachedInv ==
    \A n \in reached :
        Holds(n, "put") /\ connected[n] /\ InService(n) \in entered

\* A fresh task gets past its lookup only with an answer.
FreshInv ==
    \A t \in Tasks \ Cached :
        state[t] \in {"check", "putting", "ok"} => t \in answered

\* Every Ok comes after the record was stored when 1 + retries does not wrap.
OkInv == Attempts # 0 => OkMeansAcked

IInv ==
    /\ TypeOK
    /\ QueueInv
    /\ FlightInv
    /\ ReachedInv
    /\ FreshInv
    /\ OkInv
    /\ CapExceededOnlyByMisled

-----------------------------------------------------------------------------
\* The head of a queue of requests, and the queue without it.
LEMMA Head1 ==
    ASSUME NEW q \in Seq(Request), q # <<>>
    PROVE  /\ Head(q) \in Request /\ Head(q) = q[1] /\ 1 \in DOMAIN q
           /\ Tail(q) \in Seq(Request)
           /\ \A i \in DOMAIN Tail(q) : i + 1 \in DOMAIN q /\ Tail(q)[i] = q[i + 1]
<1>1. Len(q) \in Nat \ {0} /\ DOMAIN q = 1..Len(q)
    OBVIOUS
<1>2. Tail(q) \in Seq(Request) /\ DOMAIN Tail(q) = 1..(Len(q) - 1)
    BY <1>1
<1>3. \A i \in 1..(Len(q) - 1) : i + 1 \in 1..Len(q) /\ Tail(q)[i] = q[i + 1]
    BY <1>1
<1> QED  BY <1>1, <1>2, <1>3

\* What a queue of requests holds.
LEMMA Entry ==
    ASSUME NEW q \in Seq(Request), NEW i \in DOMAIN q
    PROVE  q[i].task \in Tasks /\ q[i].op \in {"get", "put"}
<1>1. q[i] \in Request
    OBVIOUS
<1> QED  BY <1>1 DEF Request

\* A request sent to a queue is its last one.
LEMMA Append1 ==
    ASSUME NEW q \in Seq(Request), NEW r \in Request
    PROVE  /\ Append(q, r) \in Seq(Request)
           /\ \A i \in DOMAIN Append(q, r) :
                \/ i \in DOMAIN q /\ Append(q, r)[i] = q[i]
                \/ Append(q, r)[i] = r
  OBVIOUS

\* The request in service is one of the node's queue.
LEMMA Served ==
    ASSUME TypeOK, NEW n \in Nodes, NEW op, Holds(n, op)
    PROVE  /\ queue[n] \in Seq(Request) /\ queue[n] # <<>>
           /\ InService(n) \in Tasks
           /\ 1 \in DOMAIN queue[n]
           /\ queue[n][1].task = InService(n) /\ queue[n][1].op = op
           /\ Tail(queue[n]) \in Seq(Request)
<1>1. queue[n] \in Seq(Request) /\ queue[n] # <<>> /\ Head(queue[n]).op = op
    BY DEF TypeOK, Holds
<1>2. /\ Head(queue[n]) \in Request /\ Head(queue[n]) = queue[n][1]
      /\ 1 \in DOMAIN queue[n] /\ Tail(queue[n]) \in Seq(Request)
    BY <1>1, Head1
<1> QED  BY <1>1, <1>2 DEF InService, Request

-----------------------------------------------------------------------------
\* The queues of a step are those before it, with the served head gone or the
\* request of a deciding task added.

\* Serving a request keeps the others as they were.
LEMMA DoneKeepsQueue ==
    ASSUME TypeOK, QueueInv, NEW n \in Nodes, NEW op, Holds(n, op), Done(n),
           \A t \in Tasks : state[t] \notin {"new", "getting", "check"} =>
               state'[t] \notin {"new", "getting", "check"} /\ seen'[t] = seen[t]
    PROVE  queue' \in [Nodes -> Seq(Request)] /\ QueueInv'
<1>1. /\ queue \in [Nodes -> Seq(Request)] /\ queue[n] # <<>>
      /\ Tail(queue[n]) \in Seq(Request)
    BY Served DEF TypeOK
<1>2. queue' = [queue EXCEPT ![n] = Tail(queue[n])]
    BY DEF Done
<1>3. ASSUME NEW k \in Nodes, NEW i \in DOMAIN queue'[k]
      PROVE  \E j \in DOMAIN queue[k] : queue'[k][i] = queue[k][j]
  <2>1. CASE k = n
      BY <1>1, <1>2, <1>3, <2>1, Head1
  <2>2. CASE k # n
      BY <1>1, <1>2, <1>3, <2>2
  <2> QED  BY <2>1, <2>2
<1>4. ASSUME NEW k \in Nodes, NEW j \in DOMAIN queue[k]
      PROVE  queue[k][j].task \in Tasks
    BY <1>1, <1>4, Entry
<1>5. QueueInv'
    BY <1>3, <1>4 DEF QueueInv
<1> QED  BY <1>1, <1>2, <1>5

\* Sending a request keeps the others as they were.
LEMMA SendKeepsQueue ==
    ASSUME TypeOK, QueueInv, NEW t \in Tasks, NEW op \in {"get", "put"},
           Send(t, op), UNCHANGED seen,
           \A s \in Tasks : state[s] \notin {"new", "getting", "check"} =>
               state'[s] \notin {"new", "getting", "check"},
           op = "put" => /\ state'[t] \notin {"new", "getting", "check"}
                         /\ Cardinality(seen[t]) < MaxRecords
    PROVE  queue' \in [Nodes -> Seq(Request)] /\ QueueInv'
<1> DEFINE r == [task |-> t, op |-> op]
<1>1. queue \in [Nodes -> Seq(Request)] /\ Owner[t] \in Nodes /\ r \in Request
    BY RecordPublisherAssumption DEF TypeOK, Request
<1>2. queue' = [queue EXCEPT ![Owner[t]] = Append(queue[Owner[t]], r)]
    BY DEF Send
<1>3. r.task = t /\ r.op = op
    OBVIOUS
<1> HIDE DEF r
<1>4. ASSUME NEW k \in Nodes, NEW i \in DOMAIN queue'[k]
      PROVE  \/ \E j \in DOMAIN queue[k] : queue'[k][i] = queue[k][j]
             \/ k = Owner[t] /\ queue'[k][i] = r
  <2>1. CASE k = Owner[t]
      BY <1>1, <1>2, <1>4, <2>1, Append1
  <2>2. CASE k # Owner[t]
      BY <1>1, <1>2, <1>4, <2>2
  <2> QED  BY <2>1, <2>2
<1>5. ASSUME NEW k \in Nodes, NEW j \in DOMAIN queue[k]
      PROVE  queue[k][j].task \in Tasks
    BY <1>1, <1>5, Entry
<1>6. QueueInv'
    BY <1>3, <1>4, <1>5 DEF QueueInv
<1>7. queue' \in [Nodes -> Seq(Request)]
    BY <1>1, <1>2, Append1
<1> QED  BY <1>6, <1>7

-----------------------------------------------------------------------------
\* What a step of a task, or of a DhtActor, does to the control variables.

\* Answer keeps the states of the tasks, and those of all but one task.
LEMMA AnswerKeeps ==
    ASSUME TypeOK, NEW t \in Tasks,
           NEW from \in {"getting", "putting"},
           NEW to \in {"check"} \cup Final, from = "putting" => to # "check",
           Answer(t, from, to)
    PROVE  /\ state' \in [Tasks -> {"new", "getting", "check", "putting"} \cup Final]
           /\ \A s \in Tasks : state[s] \notin {"new", "getting", "check"} =>
                  state'[s] \notin {"new", "getting", "check"}
           /\ \A s \in Tasks : state'[s] # state[s] =>
                  s = t /\ state[t] = from /\ state'[t] = to
  BY DEF TypeOK, Answer, Final

\* Requests in service stay there while others are queued behind them.
LEMMA HeadStays ==
    ASSUME TypeOK, NEW t \in Tasks, NEW op \in {"get", "put"}, Send(t, op),
           NEW n \in Nodes, NEW o, Holds(n, o)
    PROVE  Holds(n, o)' /\ InService(n)' = InService(n)
<1> DEFINE r == [task |-> t, op |-> op]
<1>1. queue \in [Nodes -> Seq(Request)] /\ Owner[t] \in Nodes /\ r \in Request
    BY RecordPublisherAssumption DEF TypeOK, Request
<1>2. queue' = [queue EXCEPT ![Owner[t]] = Append(queue[Owner[t]], r)]
    BY DEF Send
<1> HIDE DEF r
<1>3. \A q \in Seq(Request) : q # <<>> =>
          Append(q, r) # <<>> /\ Head(Append(q, r)) = Head(q)
    BY <1>1
<1>4. queue[n] # <<>> /\ queue[n] \in Seq(Request)
    BY <1>1 DEF Holds
<1>5. queue'[n] # <<>> /\ Head(queue'[n]) = Head(queue[n])
    BY <1>1, <1>2, <1>3, <1>4
<1> QED  BY <1>5 DEF Holds, InService

\* The lookup in service hears of a record.
LEMMA GetHearsKeeps ==
    ASSUME IInv, NEW n \in Nodes, GetHears(n)
    PROVE  IInv'
<1> DEFINE t == InService(n)
<1>1. Holds(n, "get") /\ t \in Tasks /\ state[t] = "getting" /\ TypeOK
    BY Served DEF GetHears, IInv
<1>2. UNCHANGED <<dht, queue, attempt, reached, inflight, cancelled, state, answered>>
    BY DEF GetHears
<1>3. PICK k \in Published \ {n} : seen' = [seen EXCEPT ![t] = seen[t] \cup {k}]
    BY DEF GetHears
<1>4. k \in Nodes
    BY DEF Published, IInv, TypeOK
<1>5. /\ seen' \in [Tasks -> SUBSET Nodes]
      /\ \A s \in Tasks : state[s] # "getting" => seen'[s] = seen[s]
    BY <1>1, <1>3, <1>4 DEF TypeOK
<1>6. connected' = [connected EXCEPT ![n] = TRUE]
    BY DEF GetHears
<1> HIDE DEF t
<1>7. TypeOK'
    BY <1>1, <1>2, <1>5, <1>6 DEF TypeOK, dht
<1>8. ASSUME NEW m \in Nodes, NEW i \in DOMAIN queue[m]
      PROVE  queue[m][i].task \in Tasks
    BY <1>1, <1>8, Entry DEF TypeOK
<1>9. QueueInv'
    BY <1>2, <1>5, <1>8 DEF IInv, QueueInv
<1>10. FlightInv' /\ ReachedInv'
  <2>1. inflight \subseteq Tasks /\ reached \subseteq Nodes
      BY <1>1 DEF TypeOK
  <2>2. \A m \in Nodes : connected[m] => connected'[m]
      BY <1>1, <1>6 DEF TypeOK
  <2> QED  BY <1>2, <1>5, <2>1, <2>2
           DEF IInv, FlightInv, ReachedInv, Holds, InService, dht
<1>11. FreshInv' /\ OkInv' /\ CapExceededOnlyByMisled'
    BY <1>2 DEF IInv, FreshInv, OkInv, OkMeansAcked, CapExceededOnlyByMisled,
                Published, dht
<1> QED  BY <1>7, <1>9, <1>10, <1>11 DEF IInv

\* Serving a request that no storage node has acknowledged leaves what is reached
\* as it was; one that was is over.
LEMMA DoneKeepsReached ==
    ASSUME IInv, NEW n \in Nodes, Done(n), queue[n] # <<>>,
           reached' = reached \ {n} \/ (n \notin reached /\ UNCHANGED reached),
           UNCHANGED entered, \A m \in Nodes : connected[m] => connected'[m]
    PROVE  ReachedInv'
<1>1. ASSUME NEW m \in reached' PROVE m \in reached /\ m # n /\ m \in Nodes
    BY <1>1 DEF IInv, TypeOK
<1>2. \A m \in Nodes : m # n => queue'[m] = queue[m]
    BY DEF Done, IInv, TypeOK
<1> QED  BY <1>1, <1>2 DEF IInv, ReachedInv, Holds, InService

\* A lookup that ends.
LEMMA GetKeeps ==
    ASSUME IInv, NEW n \in Nodes, GetAnswered(n) \/ GetFailed(n)
    PROVE  IInv'
<1> DEFINE t == InService(n)
<1>1. Holds(n, "get") /\ Done(n) /\ t \in Tasks
    BY Served DEF GetAnswered, GetFailed, IInv
<1>2. PICK to \in {"check", "err"} :
        /\ Answer(t, "getting", to)
        /\ to = "check" => t \in Cached \/ state[t] # "getting" \/ t \in answered'
    BY DEF GetAnswered, GetFailed
<1>3. /\ UNCHANGED <<dht, attempt, reached, inflight, cancelled>>
      /\ answered \subseteq answered' /\ answered' \subseteq answered \cup {t}
      /\ connected' \in [Nodes -> BOOLEAN]
      /\ \A m \in Nodes : connected[m] => connected'[m]
    BY DEF GetAnswered, GetFailed, IInv, TypeOK
<1>4. /\ seen' \in [Tasks -> SUBSET Nodes]
      /\ \A s \in Tasks : state[s] # "getting" => seen'[s] = seen[s]
    BY DEF GetFailed, GetAnswered, Drops, IInv, TypeOK
<1> HIDE DEF t
<1>5. /\ state' \in [Tasks -> {"new", "getting", "check", "putting"} \cup Final]
      /\ \A s \in Tasks : state[s] \notin {"new", "getting", "check"} =>
             state'[s] \notin {"new", "getting", "check"}
      /\ \A s \in Tasks : state'[s] # state[s] =>
             s = t /\ state[t] = "getting" /\ state'[t] = to
    BY <1>1, <1>2, AnswerKeeps DEF IInv, Final
<1>6. queue' \in [Nodes -> Seq(Request)] /\ QueueInv'
    BY <1>1, <1>4, <1>5, DoneKeepsQueue DEF IInv
<1>7. TypeOK'
    BY <1>1, <1>3, <1>4, <1>5, <1>6 DEF IInv, TypeOK, dht
<1>8. FreshInv'
    BY <1>2, <1>3, <1>5 DEF IInv, FreshInv
<1>9. OkInv'
    BY <1>3, <1>5 DEF IInv, OkInv, OkMeansAcked, dht
<1>10. CapExceededOnlyByMisled'
    BY <1>3 DEF IInv, CapExceededOnlyByMisled, Published, dht
<1>11. FlightInv'
  <2>1. inflight \subseteq Tasks
      BY DEF IInv, TypeOK
  <2> QED  BY <1>3, <1>4, <1>5, <2>1 DEF IInv, FlightInv
<1>12. ReachedInv'
  <2>1. queue[n] # <<>> /\ n \notin reached
      BY <1>1 DEF IInv, ReachedInv, Holds
  <2> QED  BY <1>1, <1>3, <2>1, DoneKeepsReached DEF dht
<1> QED  BY <1>6, <1>7, <1>8, <1>9, <1>10, <1>11, <1>12 DEF IInv

\* A record that is stored was counted below the cap, and it keeps the cap or
\* makes its node one of the misled.
LEMMA StoreKeepsCap ==
    ASSUME IInv, NEW t \in Tasks, Cardinality(seen[t]) < MaxRecords, Store(t)
    PROVE  /\ CapExceededOnlyByMisled'
           /\ store' \in [Storage -> Nodes \cup {Nobody}]
           /\ misled' \subseteq Tasks /\ entered' = entered \cup {t}
<1> DEFINE n == Owner[t]
           over  == Published \ {Owner[s] : s \in misled}
<1>1. PICK w \in Storage : store' = [store EXCEPT ![w] = n]
    BY DEF Store
<1>2. misled' = IF Published \ ({n} \cup seen[t]) # {} THEN misled \cup {t} ELSE misled
    BY DEF Store
<1>3. /\ store' \in [Storage -> Nodes \cup {Nobody}] /\ misled' \subseteq Tasks
      /\ misled \subseteq misled' /\ n \in Nodes
    BY <1>1, <1>2, RecordPublisherAssumption DEF IInv, TypeOK
<1>4. Published' \subseteq Published \cup {n}
    BY <1>1 DEF Published, IInv, TypeOK
<1>5. /\ IsFiniteSet(Nodes) /\ Published \subseteq Nodes /\ Published' \subseteq Nodes
      /\ seen[t] \subseteq Nodes /\ MaxRecords \in Nat
    BY <1>3, RecordPublisherAssumption DEF Published, IInv, TypeOK
<1>6. Cardinality(Published' \ {Owner[s] : s \in misled'}) <= MaxRecords
  <2>1. CASE Published \ ({n} \cup seen[t]) # {}
    <3>1. Published' \ {Owner[s] : s \in misled'} \subseteq over
        BY <1>2, <1>3, <1>4, <2>1
    <3>2. IsFiniteSet(over)
        BY <1>5, FS_Subset
    <3>3. /\ Cardinality(Published' \ {Owner[s] : s \in misled'}) <= Cardinality(over)
          /\ Cardinality(over) \in Nat
          /\ Cardinality(Published' \ {Owner[s] : s \in misled'}) \in Nat
        BY <3>1, <3>2, FS_Subset, FS_CardinalityType
    <3>4. Cardinality(over) <= MaxRecords
        BY DEF IInv, CapExceededOnlyByMisled
    <3> QED  BY <1>5, <3>3, <3>4
  <2>2. CASE Published \subseteq {n} \cup seen[t]
    <3>1. Published' \ {Owner[s] : s \in misled'} \subseteq seen[t] \cup {n}
        BY <1>4, <2>2
    <3>2. IsFiniteSet(seen[t]) /\ Cardinality(seen[t]) \in Nat
        BY <1>5, FS_Subset, FS_CardinalityType
    <3>3. /\ IsFiniteSet(seen[t] \cup {n})
          /\ Cardinality(seen[t] \cup {n}) \in {Cardinality(seen[t]), Cardinality(seen[t]) + 1}
        BY <3>2, FS_AddElement
    <3>4. /\ Cardinality(Published' \ {Owner[s] : s \in misled'})
                 <= Cardinality(seen[t] \cup {n})
          /\ Cardinality(Published' \ {Owner[s] : s \in misled'}) \in Nat
        BY <3>1, <3>3, FS_Subset, FS_CardinalityType
    <3> QED  BY <1>5, <3>2, <3>3, <3>4
  <2> QED  BY <2>1, <2>2
<1>7. CapExceededOnlyByMisled'
    BY <1>6 DEF CapExceededOnlyByMisled
<1> QED  BY <1>3, <1>7 DEF Store

\* A put in service was counted below the cap.
LEMMA ServedPut ==
    ASSUME IInv, NEW n \in Nodes, Holds(n, "put")
    PROVE  /\ InService(n) \in Tasks /\ Owner[InService(n)] = n /\ queue[n] # <<>>
           /\ state[InService(n)] \notin {"new", "getting", "check"}
           /\ Cardinality(seen[InService(n)]) < MaxRecords
<1>1. /\ 1 \in DOMAIN queue[n] /\ InService(n) \in Tasks /\ queue[n] # <<>>
      /\ queue[n][1].task = InService(n) /\ queue[n][1].op = "put"
    BY Served DEF IInv
<1> QED  BY <1>1 DEF IInv, QueueInv

\* A record is stored, by an attempt in service or by a message that comes late.
LEMMA StoresKeep ==
    ASSUME IInv, NEW t \in Tasks, Cardinality(seen[t]) < MaxRecords, Store(t),
           UNCHANGED <<queue, attempt, inflight, cancelled, state, seen, answered>>,
           reached' \subseteq Nodes, connected' \in [Nodes -> BOOLEAN],
           \A m \in Nodes : connected[m] => connected'[m],
           \A m \in reached' \ reached :
               Holds(m, "put") /\ connected'[m] /\ InService(m) = t
    PROVE  IInv'
<1>1. /\ CapExceededOnlyByMisled' /\ misled' \subseteq Tasks
      /\ store' \in [Storage -> Nodes \cup {Nobody}] /\ entered' = entered \cup {t}
    BY StoreKeepsCap
<1>2. TypeOK'
    BY <1>1 DEF IInv, TypeOK
<1>3. QueueInv' /\ FlightInv' /\ FreshInv' /\ OkInv'
    BY <1>1 DEF IInv, QueueInv, FlightInv, FreshInv, OkInv, OkMeansAcked
<1>4. ReachedInv'
    BY <1>1 DEF IInv, TypeOK, ReachedInv, Holds, InService
<1> QED  BY <1>1, <1>2, <1>3, <1>4 DEF IInv

\* An attempt stores the record.
LEMMA PutStoresKeeps ==
    ASSUME IInv, NEW n \in Nodes, PutStores(n)
    PROVE  IInv'
<1>1. /\ Holds(n, "put") /\ Store(InService(n)) /\ reached' = reached \cup {n}
      /\ connected' = [connected EXCEPT ![n] = TRUE]
      /\ UNCHANGED <<queue, attempt, inflight, cancelled, state, seen, answered>>
    BY DEF PutStores
<1>2. InService(n) \in Tasks /\ Cardinality(seen[InService(n)]) < MaxRecords
    BY <1>1, ServedPut
<1>3. /\ connected' \in [Nodes -> BOOLEAN] /\ reached' \subseteq Nodes /\ connected'[n]
      /\ \A m \in Nodes : connected[m] => connected'[m]
    BY <1>1 DEF IInv, TypeOK
<1>4. \A m \in reached' \ reached : m = n
    BY <1>1
<1> QED  BY <1>1, <1>2, <1>3, <1>4, StoresKeep

\* A late message stores the record.
LEMMA ArrivesKeeps ==
    ASSUME IInv, NEW t \in Tasks, Arrives(t)
    PROVE  IInv'
<1>1. Cardinality(seen[t]) < MaxRecords
    BY DEF Arrives, IInv, FlightInv
<1>2. reached' \subseteq Nodes /\ connected' \in [Nodes -> BOOLEAN]
    BY DEF Arrives, IInv, TypeOK
<1> QED  BY <1>1, <1>2, StoresKeep DEF Arrives

\* What an attempt that ends leaves under way.
LEMMA AttemptKeepsFlight ==
    ASSUME IInv, NEW n \in Nodes, Holds(n, "put"), EndsAttempt(n), UNCHANGED seen,
           \A s \in Tasks : state[s] \notin {"new", "getting", "check"} =>
               state'[s] \notin {"new", "getting", "check"}
    PROVE  /\ FlightInv' /\ inflight' \subseteq Tasks /\ reached' = reached \ {n}
           /\ connected' \in [Nodes -> BOOLEAN]
           /\ \A m \in Nodes : connected[m] => connected'[m]
<1>1. /\ inflight' \subseteq inflight \cup {InService(n)} /\ inflight \subseteq Tasks
      /\ InService(n) \in Tasks
      /\ state[InService(n)] \notin {"new", "getting", "check"}
      /\ Cardinality(seen[InService(n)]) < MaxRecords
    BY ServedPut DEF EndsAttempt, IInv, TypeOK
<1>2. FlightInv' /\ inflight' \subseteq Tasks
    BY <1>1 DEF IInv, FlightInv
<1> QED  BY <1>2 DEF EndsAttempt, IInv, TypeOK

\* An attempt that ends the put.
LEMMA PutEndsKeeps ==
    ASSUME IInv, NEW n \in Nodes, PutOk(n) \/ PutFailed(n)
    PROVE  IInv'
<1> DEFINE t == InService(n)
<1>1. /\ Holds(n, "put") /\ Done(n) /\ EndsAttempt(n) /\ t \in Tasks
      /\ queue[n] # <<>>
    BY ServedPut DEF PutOk, PutFailed, EndsPut
<1>2. PICK to \in {"ok", "err"} :
        Answer(t, "putting", to) /\ (to = "ok" /\ Attempts # 0 => t \in entered)
    BY DEF PutOk, PutFailed, EndsPut, IInv, ReachedInv
<1>3. /\ UNCHANGED <<dht, cancelled, seen, answered>>
      /\ attempt' \in [Nodes -> 0..Retries]
  <2>1. 0 \in 0..Retries
      BY RecordPublisherAssumption
  <2>2. /\ UNCHANGED <<dht, cancelled, seen, answered>>
        /\ attempt' = [attempt EXCEPT ![n] = 0]
      BY DEF PutOk, PutFailed, EndsPut
  <2> QED  BY <2>1, <2>2 DEF IInv, TypeOK
<1> HIDE DEF t
<1>5. /\ state' \in [Tasks -> {"new", "getting", "check", "putting"} \cup Final]
      /\ \A s \in Tasks : state[s] \notin {"new", "getting", "check"} =>
             state'[s] \notin {"new", "getting", "check"}
      /\ \A s \in Tasks : state'[s] # state[s] =>
             s = t /\ state[t] = "putting" /\ state'[t] = to
    BY <1>1, <1>2, AnswerKeeps DEF IInv, Final
<1>6. queue' \in [Nodes -> Seq(Request)] /\ QueueInv'
    BY <1>1, <1>3, <1>5, DoneKeepsQueue DEF IInv
<1>7. /\ FlightInv' /\ inflight' \subseteq Tasks /\ reached' = reached \ {n}
      /\ connected' \in [Nodes -> BOOLEAN]
      /\ \A m \in Nodes : connected[m] => connected'[m]
    BY <1>1, <1>3, <1>5, AttemptKeepsFlight
<1>8. TypeOK'
    BY <1>1, <1>3, <1>5, <1>6, <1>7 DEF IInv, TypeOK, dht
<1>9. FreshInv'
    BY <1>3, <1>5 DEF IInv, FreshInv
<1>10. OkInv'
    BY <1>2, <1>3, <1>5 DEF IInv, OkInv, OkMeansAcked, dht
<1>11. ReachedInv'
  <2>1. UNCHANGED entered
      BY <1>3 DEF dht
  <2> QED  BY <1>1, <1>7, <2>1, DoneKeepsReached
<1>12. CapExceededOnlyByMisled'
    BY <1>3 DEF IInv, CapExceededOnlyByMisled, Published, dht
<1> QED  BY <1>6, <1>7, <1>8, <1>9, <1>10, <1>11, <1>12 DEF IInv

\* An attempt that is repeated.
LEMMA PutRetriedKeeps ==
    ASSUME IInv, NEW n \in Nodes, PutRetried(n)
    PROVE  IInv'
<1>1. /\ Holds(n, "put") /\ EndsAttempt(n)
      /\ UNCHANGED <<dht, queue, cancelled, state, seen, answered>>
    BY DEF PutRetried
<1>2. /\ FlightInv' /\ inflight' \subseteq Tasks /\ reached' = reached \ {n}
      /\ connected' \in [Nodes -> BOOLEAN]
      /\ \A m \in Nodes : connected[m] => connected'[m]
    BY <1>1, AttemptKeepsFlight
<1>3. attempt' \in [Nodes -> 0..Retries]
  <2>1. attempt[n] + 1 \in 0..Retries
      BY RecordPublisherAssumption DEF PutRetried, IInv, TypeOK
  <2> QED  BY <2>1 DEF PutRetried, IInv, TypeOK
<1>4. TypeOK'
    BY <1>1, <1>2, <1>3 DEF IInv, TypeOK, dht
<1>5. QueueInv' /\ FreshInv' /\ OkInv' /\ CapExceededOnlyByMisled'
    BY <1>1 DEF IInv, QueueInv, FreshInv, OkInv, OkMeansAcked, dht,
                CapExceededOnlyByMisled, Published
<1>6. ReachedInv'
    BY <1>1, <1>2 DEF IInv, TypeOK, ReachedInv, Holds, InService, dht
<1> QED  BY <1>2, <1>4, <1>5, <1>6 DEF IInv

\* A put that ends before its first attempt.
LEMMA PutUnconnectedKeeps ==
    ASSUME IInv, NEW n \in Nodes, PutUnconnected(n)
    PROVE  IInv'
<1> DEFINE t == InService(n)
<1>1. /\ Holds(n, "put") /\ Done(n) /\ t \in Tasks /\ Answer(t, "putting", "err")
      /\ queue[n] # <<>> /\ ~connected[n]
    BY ServedPut DEF PutUnconnected, EndsPut
<1>2. /\ UNCHANGED <<dht, reached, inflight, connected, cancelled, seen, answered>>
      /\ attempt' = [attempt EXCEPT ![n] = 0]
    BY DEF PutUnconnected, EndsPut
<1> HIDE DEF t
<1>3. /\ state' \in [Tasks -> {"new", "getting", "check", "putting"} \cup Final]
      /\ \A s \in Tasks : state[s] \notin {"new", "getting", "check"} =>
             state'[s] \notin {"new", "getting", "check"}
      /\ \A s \in Tasks : state'[s] # state[s] => state'[s] = "err"
    BY <1>1, AnswerKeeps DEF IInv, Final
<1>4. queue' \in [Nodes -> Seq(Request)] /\ QueueInv'
    BY <1>1, <1>2, <1>3, DoneKeepsQueue DEF IInv
<1>5. TypeOK'
  <2>1. 0 \in 0..Retries
      BY RecordPublisherAssumption
  <2> QED  BY <1>2, <1>3, <1>4, <2>1 DEF IInv, TypeOK, dht
<1>6. FreshInv' /\ OkInv'
    BY <1>2, <1>3 DEF IInv, FreshInv, OkInv, OkMeansAcked, dht
<1>7. CapExceededOnlyByMisled'
    BY <1>2 DEF IInv, CapExceededOnlyByMisled, Published, dht
<1>8. FlightInv'
    BY <1>2, <1>3 DEF IInv, TypeOK, FlightInv
<1>9. ReachedInv'
  <2>1. n \notin reached
      BY <1>1 DEF IInv, ReachedInv
  <2> QED  BY <1>1, <1>2, <2>1, DoneKeepsReached DEF dht
<1> QED  BY <1>4, <1>5, <1>6, <1>7, <1>8, <1>9 DEF IInv

-----------------------------------------------------------------------------
\* A task sends its lookup, or its put after a count below the cap.
LEMMA PublishKeeps ==
    ASSUME IInv, NEW t \in Tasks, Publish(t)
    PROVE  IInv'
<1>1. UNCHANGED <<dht, attempt, reached, inflight, connected, cancelled, seen,
                  answered>>
    BY DEF Publish, BeginLookup, Decide
<1>2. /\ state' \in [Tasks -> {"new", "getting", "check", "putting"} \cup Final]
      /\ state[t] \in {"new", "check"}
      /\ \A s \in Tasks : s # t => state'[s] = state[s]
      /\ state'[t] \in {"getting", "skipped", "putting"}
      /\ state'[t] = "putting" => state[t] = "check"
    BY DEF Publish, BeginLookup, Decide, IInv, TypeOK, Final
<1>3. queue' \in [Nodes -> Seq(Request)] /\ QueueInv'
  <2>1. CASE BeginLookup(t)
    <3>1. Send(t, "get")
        BY <2>1 DEF BeginLookup
    <3> QED  BY <1>1, <1>2, <3>1, SendKeepsQueue DEF IInv
  <2>2. CASE Decide(t) /\ Cardinality(seen[t]) < MaxRecords
    <3>1. Send(t, "put") /\ state'[t] = "putting"
      <4>1. Cardinality(seen[t]) \in Nat /\ MaxRecords \in Nat
        <5>1. seen[t] \subseteq Nodes /\ IsFiniteSet(Nodes)
            BY RecordPublisherAssumption DEF IInv, TypeOK
        <5> QED  BY <5>1, FS_Subset, FS_CardinalityType, RecordPublisherAssumption
      <4>2. ~(Cardinality(seen[t]) >= MaxRecords)
          BY <2>2, <4>1
      <4> QED  BY <2>2, <4>2 DEF Decide, IInv, TypeOK
    <3> QED  BY <1>1, <1>2, <2>2, <3>1, SendKeepsQueue DEF IInv
  <2>3. CASE Decide(t) /\ ~(Cardinality(seen[t]) < MaxRecords)
    <3>1. UNCHANGED queue
      <4>1. Cardinality(seen[t]) \in Nat /\ MaxRecords \in Nat
        <5>1. seen[t] \subseteq Nodes /\ IsFiniteSet(Nodes)
            BY RecordPublisherAssumption DEF IInv, TypeOK
        <5> QED  BY <5>1, FS_Subset, FS_CardinalityType, RecordPublisherAssumption
      <4>2. Cardinality(seen[t]) >= MaxRecords
          BY <2>3, <4>1
      <4> QED  BY <2>3, <4>2 DEF Decide
    <3>2. ASSUME NEW k \in Nodes, NEW i \in DOMAIN queue[k]
          PROVE  queue[k][i].task \in Tasks
        BY <3>2, Entry DEF IInv, TypeOK
    <3>3. QueueInv'
        BY <1>1, <1>2, <3>1, <3>2 DEF IInv, QueueInv
    <3> QED  BY <3>1, <3>3 DEF IInv, TypeOK
  <2> QED  BY <2>1, <2>2, <2>3 DEF Publish
<1>4. TypeOK'
    BY <1>1, <1>2, <1>3 DEF IInv, TypeOK, dht
<1>5. FreshInv' /\ OkInv'
    BY <1>1, <1>2 DEF IInv, FreshInv, OkInv, OkMeansAcked, dht
<1>6. CapExceededOnlyByMisled'
    BY <1>1 DEF IInv, CapExceededOnlyByMisled, Published, dht
<1>7. FlightInv'
    BY <1>1, <1>2 DEF IInv, TypeOK, FlightInv
<1>8. ReachedInv'
  <2>1. UNCHANGED queue \/ \E op \in {"get", "put"} : Send(t, op)
      BY DEF Publish, BeginLookup, Decide
  <2>2. CASE UNCHANGED queue
      BY <1>1, <2>2 DEF IInv, ReachedInv, Holds, InService, dht
  <2>3. CASE \E op \in {"get", "put"} : Send(t, op)
    <3>1. PICK op \in {"get", "put"} : Send(t, op)
        BY <2>3
    <3>2. ASSUME NEW m \in reached'
          PROVE  /\ m \in Nodes /\ Holds(m, "put") /\ connected'[m]
                 /\ InService(m) \in entered'
        BY <1>1, <3>2 DEF IInv, TypeOK, ReachedInv, dht
    <3>3. ASSUME NEW m \in reached'
          PROVE  Holds(m, "put")' /\ connected'[m] /\ InService(m)' \in entered'
        BY <3>1, <3>2, <3>3, HeadStays DEF IInv
    <3> QED  BY <3>3 DEF ReachedInv
  <2> QED  BY <2>1, <2>2, <2>3
<1> QED  BY <1>3, <1>4, <1>5, <1>6, <1>7, <1>8 DEF IInv

\* A cancelled task ends; its requests stay.
LEMMA AbortKeeps ==
    ASSUME IInv, NEW t \in Tasks, Abort(t)
    PROVE  IInv'
<1>1. /\ UNCHANGED <<dht, queue, attempt, reached, inflight, connected, cancelled,
                     answered>>
      /\ state' = [state EXCEPT ![t] = "err"]
      /\ seen' \in [Tasks -> SUBSET Nodes]
      /\ \A s \in Tasks : state[s] # "getting" => seen'[s] = seen[s]
    BY DEF Abort, Drops, IInv, TypeOK
<1>2. TypeOK'
    BY <1>1 DEF IInv, TypeOK, Final, dht
<1>3. QueueInv'
  <2>1. ASSUME NEW k \in Nodes, NEW i \in DOMAIN queue[k]
        PROVE  queue[k][i].task \in Tasks
      BY <2>1, Entry DEF IInv, TypeOK
  <2> QED  BY <1>1, <2>1 DEF IInv, TypeOK, QueueInv
<1>4. FreshInv' /\ OkInv' /\ FlightInv'
    BY <1>1 DEF IInv, TypeOK, FreshInv, OkInv, OkMeansAcked, FlightInv, dht
<1>5. CapExceededOnlyByMisled' /\ ReachedInv'
    BY <1>1 DEF IInv, CapExceededOnlyByMisled, Published, ReachedInv, Holds,
                InService, dht
<1> QED  BY <1>2, <1>3, <1>4, <1>5 DEF IInv

\* A cancellation changes no record and no request; a record that vanishes
\* makes room.
LEMMA OutsideKeeps ==
    ASSUME IInv, Expire \/ (\E n \in Nodes : Cancel(n)) \/ UNCHANGED vars
    PROVE  IInv'
<1>1. /\ UNCHANGED <<queue, attempt, reached, inflight, connected, state, seen,
                     answered, entered, misled>>
      /\ cancelled' \in [Nodes -> BOOLEAN]
      /\ store' \in [Storage -> Nodes \cup {Nobody}]
      /\ Published' \subseteq Published
  <2>1. TypeOK
      BY DEF IInv
  <2>2. CASE Expire
    <3>1. PICK s \in Storage : store' = [store EXCEPT ![s] = Nobody]
        BY <2>2 DEF Expire
    <3>2. store' \in [Storage -> Nodes \cup {Nobody}] /\ Published' \subseteq Published
        BY <2>1, <3>1 DEF TypeOK, Published
    <3> QED  BY <2>1, <2>2, <3>2 DEF Expire, TypeOK
  <2>3. CASE \E n \in Nodes : Cancel(n)
      BY <2>1, <2>3 DEF Cancel, TypeOK, Published, dht
  <2>4. CASE UNCHANGED vars
      BY <2>1, <2>4 DEF vars, TypeOK, Published, dht
  <2> QED  BY <2>2, <2>3, <2>4
<1>2. TypeOK'
    BY <1>1 DEF IInv, TypeOK
<1>3. QueueInv' /\ FlightInv' /\ ReachedInv' /\ FreshInv' /\ OkInv'
    BY <1>1 DEF IInv, QueueInv, FlightInv, ReachedInv, Holds, InService, FreshInv,
                OkInv, OkMeansAcked
<1>4. CapExceededOnlyByMisled'
  <2> DEFINE O == {Owner[t] : t \in misled}
  <2>1. misled' = misled
      BY <1>1
  <2>2. IsFiniteSet(Published \ O)
    <3>1. Published \ O \subseteq Nodes /\ IsFiniteSet(Nodes)
        BY RecordPublisherAssumption DEF Published, IInv, TypeOK
    <3> QED  BY <3>1, FS_Subset
  <2>3. Published' \ O \subseteq Published \ O
      BY <1>1
  <2>4. /\ Cardinality(Published' \ O) <= Cardinality(Published \ O)
        /\ Cardinality(Published' \ O) \in Nat /\ Cardinality(Published \ O) \in Nat
      BY <2>2, <2>3, FS_Subset, FS_CardinalityType
  <2>5. Cardinality(Published \ O) <= MaxRecords /\ MaxRecords \in Nat
      BY RecordPublisherAssumption DEF IInv, CapExceededOnlyByMisled
  <2>6. Cardinality(Published' \ O) <= MaxRecords
      BY <2>4, <2>5
  <2> QED  BY <2>1, <2>6 DEF CapExceededOnlyByMisled
<1> QED  BY <1>2, <1>3, <1>4 DEF IInv

\* Initially nothing is queued and nothing is stored.
LEMMA InitIInv == Init => IInv
<1> SUFFICES ASSUME Init PROVE IInv
    OBVIOUS
<1>1. <<>> \in Seq(Request) /\ DOMAIN <<>> = {}
    OBVIOUS
<1>2. TypeOK
    BY <1>1, RecordPublisherAssumption DEF Init, TypeOK
<1>3. QueueInv
    BY <1>1 DEF Init, QueueInv
<1>4. FreshInv /\ OkInv /\ FlightInv /\ ReachedInv
    BY DEF Init, FreshInv, OkInv, OkMeansAcked, FlightInv, ReachedInv
<1>5. CapExceededOnlyByMisled
  <2>1. Published \ {Owner[t] : t \in misled} = {}
      BY DEF Init, Published
  <2> QED  BY <2>1, FS_EmptySet, RecordPublisherAssumption
           DEF CapExceededOnlyByMisled
<1> QED  BY <1>2, <1>3, <1>4, <1>5 DEF IInv

\* IInv is inductive.
THEOREM Inductive == Spec => []IInv
<1>1. Init => IInv
    BY InitIInv
<1>2. IInv /\ [Next]_vars => IInv'
  <2> SUFFICES ASSUME IInv, [Next]_vars PROVE IInv'
      OBVIOUS
  <2>1. ASSUME NEW t \in Tasks, Publish(t) \/ Abort(t) \/ Arrives(t) PROVE IInv'
      BY <2>1, PublishKeeps, AbortKeeps, ArrivesKeeps
  <2>2. ASSUME NEW n \in Nodes, Serve(n) \/ GetHears(n) \/ PutStores(n) PROVE IInv'
      BY <2>2, GetKeeps, PutEndsKeeps, PutRetriedKeeps, PutUnconnectedKeeps,
         GetHearsKeeps, PutStoresKeeps DEF Serve
  <2>3. CASE Expire \/ (\E n \in Nodes : Cancel(n)) \/ UNCHANGED vars
      BY <2>3, OutsideKeeps
  <2> QED  BY <2>1, <2>2, <2>3 DEF Next
<1> QED  BY <1>1, <1>2, PTL DEF Spec

-----------------------------------------------------------------------------
\* Tasks, queues and the slot keep their types; a put is tried at most
\* 1 + Retries times.
THEOREM TypeCorrect == Spec => []TypeOK
<1>1. IInv => TypeOK
    BY DEF IInv
<1> QED  BY <1>1, Inductive, PTL

\* publish_record() puts nothing when its lookup failed.
THEOREM FreshCounted == Spec => []FreshPutIsCounted
<1>1. IInv => FreshPutIsCounted
    BY DEF IInv, FreshInv, FreshPutIsCounted
<1> QED  BY <1>1, Inductive, PTL

\* The retry loop makes an attempt if 1 + retries does not wrap.
LEMMA AttemptsIsPositive ==
    ASSUME Retries + 1 < Word PROVE Attempts # 0
<1>1. 1 + Retries \in 1..(Word - 1) /\ Word \in Nat \ {0}
    BY RecordPublisherAssumption
<1>2. \A w \in Nat \ {0} : \A x \in 1..(w - 1) : x % w = x
    BY SMT
<1> QED  BY <1>1, <1>2 DEF Attempts

\* Ok of a publish task that put means that a storage node has taken its record, if
\* one more than the configured retries is still a usize.
THEOREM OkAcked ==
    ASSUME Retries + 1 < Word PROVE Spec => []OkMeansAcked
<1>1. Attempts # 0
    BY AttemptsIsPositive
<1>2. IInv => OkMeansAcked
    BY <1>1 DEF IInv, OkInv
<1> QED  BY <1>2, Inductive, PTL

\* A slot exceeds the cap only by nodes that stored their record beside one
\* they had not counted.
THEOREM CapOverrun == Spec => []CapExceededOnlyByMisled
<1>1. IInv => CapExceededOnlyByMisled
    BY DEF IInv
<1> QED  BY <1>1, Inductive, PTL

-----------------------------------------------------------------------------
\* The places of a task's requests in the queue of its node.
Places(t) == {i \in DOMAIN queue[Owner[t]] : queue[Owner[t]][i].task = t}

Waits == [get |-> "getting", put |-> "putting"]

\* A task that has not asked, or has been answered, has no request in the queue,
\* and one that waits has exactly the one it waits for.
WaitInv ==
    \A t \in Tasks :
        /\ state[t] \in {"new", "check"} => Places(t) = {}
        /\ \A op \in {"get", "put"} : state[t] = Waits[op] =>
               \E i \in Nat : /\ Places(t) = {i}
                              /\ queue[Owner[t]][i].op = op

\* Serving the head of a queue moves the other requests one place forward.
LEMMA PlacesAfterDone ==
    ASSUME TypeOK, NEW n \in Nodes, Done(n), queue[n] # <<>>, NEW t \in Tasks
    PROVE  /\ Owner[t] # n => /\ Places(t)' = Places(t)
                              /\ queue'[Owner[t]] = queue[Owner[t]]
           /\ Owner[t] = n =>
                /\ \A i \in Nat \ {0} : i \in Places(t)' <=> i + 1 \in Places(t)
                /\ Places(t)' \subseteq Nat \ {0} /\ Places(t) \subseteq Nat \ {0}
                /\ \A i \in Places(t)' : queue'[n][i] = queue[n][i + 1]
<1>1. /\ queue[n] \in Seq(Request) /\ queue \in [Nodes -> Seq(Request)]
      /\ queue' = [queue EXCEPT ![n] = Tail(queue[n])] /\ Owner[t] \in Nodes
    BY RecordPublisherAssumption DEF TypeOK, Done
<1>2. CASE Owner[t] # n
    BY <1>1, <1>2 DEF Places
<1>3. CASE Owner[t] = n
  <2>1. /\ Len(queue[n]) \in Nat \ {0} /\ DOMAIN queue[n] = 1..Len(queue[n])
        /\ queue'[n] = Tail(queue[n])
        /\ DOMAIN queue'[n] = 1..(Len(queue[n]) - 1)
        /\ \A i \in 1..(Len(queue[n]) - 1) : queue'[n][i] = queue[n][i + 1]
      BY <1>1
  <2>2. \A i \in Nat \ {0} :
            i \in DOMAIN queue'[n] <=> i + 1 \in DOMAIN queue[n]
      BY <2>1
  <2>3. \A i \in DOMAIN queue'[n] : queue'[n][i] = queue[n][i + 1]
      BY <2>1
  <2>4. DOMAIN queue'[n] \subseteq Nat \ {0} /\ DOMAIN queue[n] \subseteq Nat \ {0}
      BY <2>1
  <2>5. Places(t)' = {i \in DOMAIN queue'[n] : queue'[n][i].task = t}
        /\ Places(t) = {i \in DOMAIN queue[n] : queue[n][i].task = t}
      BY <1>3 DEF Places
  <2> QED  BY <1>3, <2>2, <2>3, <2>4, <2>5
<1> QED  BY <1>2, <1>3

\* An answered task has no request left; the others keep theirs.
LEMMA ServeKeepsWait ==
    ASSUME IInv, WaitInv, NEW n \in Nodes, NEW op \in {"get", "put"},
           Holds(n, op), Done(n), NEW to \in {"check"} \cup Final,
           Answer(InService(n), Waits[op], to)
    PROVE  WaitInv'
<1> DEFINE h == InService(n)
<1>1. /\ h \in Tasks /\ queue[n] # <<>> /\ 1 \in DOMAIN queue[n]
      /\ queue[n][1].task = h /\ queue[n][1].op = op
      /\ Owner[h] = n /\ TypeOK
    BY Served DEF IInv, QueueInv
<1>2. state' = [state EXCEPT ![h] = IF state[h] = Waits[op] THEN to ELSE state[h]]
    BY DEF Answer
<1>3. 1 \in Places(h)
    BY <1>1 DEF Places
<1> HIDE DEF h
<1> SUFFICES ASSUME NEW t \in Tasks
             PROVE  /\ state'[t] \in {"new", "check"} => Places(t)' = {}
                    /\ \A o \in {"get", "put"} : state'[t] = Waits[o] =>
                           \E i \in Nat : /\ Places(t)' = {i}
                                          /\ queue'[Owner[t]][i].op = o
    BY DEF WaitInv
<1>4. /\ state[t] \in {"new", "check"} => Places(t) = {}
      /\ \A o \in {"get", "put"} : state[t] = Waits[o] =>
             \E i \in Nat : Places(t) = {i} /\ queue[Owner[t]][i].op = o
    BY DEF WaitInv
<1>5. /\ Owner[t] # n => /\ Places(t)' = Places(t)
                         /\ queue'[Owner[t]] = queue[Owner[t]]
      /\ Owner[t] = n =>
           /\ \A i \in Nat \ {0} : i \in Places(t)' <=> i + 1 \in Places(t)
           /\ Places(t)' \subseteq Nat \ {0} /\ Places(t) \subseteq Nat \ {0}
           /\ \A i \in Places(t)' : queue'[n][i] = queue[n][i + 1]
    BY <1>1, PlacesAfterDone
<1>6. CASE t = h
  <2>1. state'[t] = IF state[t] = Waits[op] THEN to ELSE state[t]
      BY <1>1, <1>2, <1>6 DEF TypeOK
  <2>2. state[t] \notin {"new", "check"}
      BY <1>3, <1>4, <1>6
  <2>3. CASE state[t] = Waits[op]
    <3>1. Places(t) = {1}
        BY <1>3, <1>4, <1>6, <2>3
    <3>2. Places(t)' = {}
      <4>1. \A i \in Nat \ {0} : i + 1 # 1
          OBVIOUS
      <4> QED  BY <1>1, <1>5, <1>6, <3>1, <4>1
    <3>3. state'[t] = to /\ to \notin {"getting", "putting"}
        BY <2>1, <2>3 DEF Final
    <3> QED  BY <3>2, <3>3 DEF Waits
  <2>4. CASE state[t] # Waits[op]
    <3>1. state'[t] = state[t]
        BY <2>1, <2>4
    <3>2. ASSUME NEW o \in {"get", "put"}, state[t] = Waits[o] PROVE FALSE
      <4>1. queue[n][1].op = o
          BY <1>1, <1>3, <1>4, <1>6, <3>2
      <4> QED  BY <1>1, <2>4, <3>2, <4>1
    <3> QED  BY <2>2, <3>1, <3>2
  <2> QED  BY <2>3, <2>4
<1>7. CASE t # h
  <2>1. state'[t] = state[t]
      BY <1>2, <1>7 DEF TypeOK, IInv
  <2>2. CASE Owner[t] # n
      BY <1>4, <1>5, <2>1, <2>2
  <2>3. CASE Owner[t] = n
    <3>1. 1 \notin Places(t)
        BY <1>1, <1>7, <2>3 DEF Places
    <3>2. ASSUME NEW j \in Nat, Places(t) = {j}
          PROVE  j - 1 \in Nat \ {0} /\ Places(t)' = {j - 1}
                 /\ queue'[n][j - 1] = queue[n][j]
      <4>1. j \in Nat \ {0, 1} /\ j - 1 \in Nat \ {0} /\ (j - 1) + 1 = j
          BY <1>5, <2>3, <3>1, <3>2
      <4>2. \A i \in Nat \ {0} : i + 1 = j <=> i = j - 1
          BY <4>1
      <4>3. Places(t)' = {j - 1}
          BY <1>5, <2>3, <3>2, <4>1, <4>2
      <4> QED  BY <1>5, <2>3, <4>1, <4>3
    <3>3. Places(t) = {} => Places(t)' = {}
        BY <1>5, <2>3
    <3> QED  BY <1>4, <2>1, <2>3, <3>2, <3>3
  <2> QED  BY <2>2, <2>3
<1> QED  BY <1>6, <1>7

\* A request sent by a task without one is its only one; the others keep theirs.
LEMMA PlacesAfterSend ==
    ASSUME TypeOK, NEW t \in Tasks, NEW op \in {"get", "put"}, Send(t, op),
           Places(t) = {}
    PROVE  /\ \E i \in Nat : /\ Places(t)' = {i}
                             /\ queue'[Owner[t]][i].op = op
           /\ \A s \in Tasks : s # t =>
                /\ Places(s)' = Places(s)
                /\ \A i \in Places(s) : queue'[Owner[s]][i] = queue[Owner[s]][i]
<1> DEFINE r == [task |-> t, op |-> op]
           q == queue[Owner[t]]
<1>1. /\ queue \in [Nodes -> Seq(Request)] /\ r \in Request /\ q \in Seq(Request)
      /\ \A s \in Tasks : Owner[s] \in Nodes
    BY RecordPublisherAssumption DEF TypeOK, Request
<1>2. queue' = [queue EXCEPT ![Owner[t]] = Append(q, r)]
    BY DEF Send
<1>3. r.task = t /\ r.op = op
    OBVIOUS
<1>4. Places(t) = {}
    OBVIOUS
<1> HIDE DEF r
<1>5. /\ Len(q) \in Nat /\ DOMAIN q = 1..Len(q)
      /\ DOMAIN Append(q, r) = 1..(Len(q) + 1)
      /\ \A i \in 1..Len(q) : Append(q, r)[i] = q[i]
      /\ Append(q, r)[Len(q) + 1] = r
    BY <1>1
<1>6. queue'[Owner[t]] = Append(q, r)
    BY <1>1, <1>2
<1>7. \A i \in 1..(Len(q) + 1) : i \in 1..Len(q) \/ i = Len(q) + 1
    BY <1>5
<1>8. Len(q) + 1 \in 1..(Len(q) + 1) /\ 1..Len(q) \subseteq 1..(Len(q) + 1)
      /\ Len(q) + 1 \notin 1..Len(q)
    BY <1>5
<1> HIDE DEF q
<1>9. /\ Places(t)' = {Len(q) + 1}
      /\ queue'[Owner[t]][Len(q) + 1].op = op
  <2>1. Places(t)' = {i \in 1..(Len(q) + 1) : Append(q, r)[i].task = t}
      BY <1>5, <1>6 DEF Places
  <2>2. \A i \in 1..Len(q) : q[i].task # t
      BY <1>4, <1>5 DEF Places, q
  <2> QED  BY <1>3, <1>5, <1>6, <1>7, <1>8, <2>1, <2>2
<1>10. ASSUME NEW s \in Tasks, s # t
       PROVE  /\ Places(s)' = Places(s)
              /\ \A i \in Places(s) : queue'[Owner[s]][i] = queue[Owner[s]][i]
  <2>1. CASE Owner[s] # Owner[t]
    <3>1. queue'[Owner[s]] = queue[Owner[s]]
        BY <1>1, <1>2, <2>1
    <3> QED  BY <3>1 DEF Places
  <2>2. CASE Owner[s] = Owner[t]
    <3>1. Places(s)' = {i \in 1..(Len(q) + 1) : Append(q, r)[i].task = s}
        BY <1>5, <1>6, <2>2 DEF Places
    <3>2. Places(s) = {i \in 1..Len(q) : q[i].task = s}
        BY <1>5, <2>2 DEF Places, q
    <3>3. queue[Owner[s]] = q /\ queue'[Owner[s]] = Append(q, r)
        BY <1>6, <2>2 DEF q
    <3> QED  BY <1>3, <1>5, <1>7, <1>8, <1>10, <3>1, <3>2, <3>3
  <2> QED  BY <2>1, <2>2
<1> QED  BY <1>5, <1>9, <1>10

\* A task that asks had no request in the queue.
LEMMA SendKeepsWait ==
    ASSUME IInv, WaitInv, NEW t \in Tasks, NEW op \in {"get", "put"},
           state[t] \in {"new", "check"}, Send(t, op),
           state' = [state EXCEPT ![t] = Waits[op]]
    PROVE  WaitInv'
<1>1. Places(t) = {} /\ TypeOK
    BY DEF IInv, WaitInv
<1>2. /\ \E i \in Nat : Places(t)' = {i} /\ queue'[Owner[t]][i].op = op
      /\ \A s \in Tasks : s # t =>
           /\ Places(s)' = Places(s)
           /\ \A i \in Places(s) : queue'[Owner[s]][i] = queue[Owner[s]][i]
    BY <1>1, PlacesAfterSend
<1>3. /\ state'[t] = Waits[op]
      /\ \A s \in Tasks : s # t => state'[s] = state[s]
    BY <1>1 DEF TypeOK
<1>4. ASSUME NEW s \in Tasks
       PROVE  /\ state'[s] \in {"new", "check"} => Places(s)' = {}
              /\ \A o \in {"get", "put"} : state'[s] = Waits[o] =>
                     \E i \in Nat : Places(s)' = {i} /\ queue'[Owner[s]][i].op = o
  <2>1. CASE s = t
    <3>1. \A o \in {"get", "put"} : Waits[op] = Waits[o] => o = op
        BY DEF Waits
    <3>2. Waits[op] \notin {"new", "check"}
        BY DEF Waits
    <3> QED  BY <1>2, <1>3, <2>1, <3>1, <3>2
  <2>2. CASE s # t
    <3>1. /\ state[s] \in {"new", "check"} => Places(s) = {}
          /\ \A o \in {"get", "put"} : state[s] = Waits[o] =>
                 \E i \in Nat : Places(s) = {i} /\ queue[Owner[s]][i].op = o
        BY DEF WaitInv
    <3> QED  BY <1>2, <1>3, <2>2, <3>1
  <2> QED  BY <2>1, <2>2
<1> QED  BY <1>4 DEF WaitInv

\* Steps that leave the queues alone and let no task wait.
LEMMA QuietKeepsWait ==
    ASSUME IInv, WaitInv, UNCHANGED queue,
           \A t \in Tasks : state'[t] = state[t] \/ state'[t] \in Final
    PROVE  WaitInv'
  BY DEF WaitInv, Places, Waits, Final

\* Initially nobody waits.
LEMMA InitWait == Init => WaitInv
<1>1. Init => \A t \in Tasks : state[t] = "new" /\ queue[Owner[t]] = <<>>
    BY RecordPublisherAssumption DEF Init
<1> QED  BY <1>1 DEF WaitInv, Places, Waits

\* Every step keeps one request per waiting task.
LEMMA WaitStep == IInv /\ WaitInv /\ [Next]_vars => WaitInv'
<1> SUFFICES ASSUME IInv, WaitInv, [Next]_vars PROVE WaitInv'
    OBVIOUS
<1>1. ASSUME NEW t \in Tasks, Publish(t) PROVE WaitInv'
  <2>1. CASE BeginLookup(t)
      BY <2>1, SendKeepsWait DEF BeginLookup, Waits
  <2>2. CASE Decide(t) /\ Cardinality(seen[t]) >= MaxRecords
    <3>1. UNCHANGED queue /\ state' = [state EXCEPT ![t] = "skipped"]
        BY <2>2 DEF Decide
    <3> QED  BY <3>1, QuietKeepsWait DEF Final, IInv, TypeOK
  <2>3. CASE Decide(t) /\ ~(Cardinality(seen[t]) >= MaxRecords)
    <3>1. Send(t, "put") /\ state[t] = "check"
          /\ state' = [state EXCEPT ![t] = "putting"]
        BY <2>3 DEF Decide
    <3> QED  BY <3>1, SendKeepsWait DEF Waits
  <2> QED  BY <1>1, <2>1, <2>2, <2>3 DEF Publish
<1>2. ASSUME NEW t \in Tasks, Abort(t) \/ Arrives(t) PROVE WaitInv'
    BY <1>2, QuietKeepsWait DEF Abort, Arrives, Final, IInv, TypeOK
<1>3. ASSUME NEW n \in Nodes, Serve(n) PROVE WaitInv'
  <2>1. CASE GetAnswered(n) \/ GetFailed(n)
    <3>1. PICK to \in {"check", "err"} :
            Holds(n, "get") /\ Done(n) /\ Answer(InService(n), Waits["get"], to)
        BY <2>1 DEF GetAnswered, GetFailed, Waits
    <3> QED  BY <3>1, ServeKeepsWait DEF Final
  <2>2. CASE PutOk(n) \/ PutFailed(n) \/ PutUnconnected(n)
    <3>1. PICK to \in {"ok", "err"} :
            Holds(n, "put") /\ Done(n) /\ Answer(InService(n), Waits["put"], to)
        BY <2>2 DEF PutOk, PutFailed, PutUnconnected, EndsPut, Waits
    <3> QED  BY <3>1, ServeKeepsWait DEF Final
  <2>3. CASE PutRetried(n)
      BY <2>3, QuietKeepsWait DEF PutRetried
  <2> QED  BY <1>3, <2>1, <2>2, <2>3 DEF Serve
<1>4. CASE Expire \/ (\E n \in Nodes : GetHears(n) \/ PutStores(n) \/ Cancel(n))
          \/ UNCHANGED vars
    BY <1>4, QuietKeepsWait DEF Expire, GetHears, PutStores, Cancel, vars
<1> QED  BY <1>1, <1>2, <1>3, <1>4 DEF Next

\* WaitInv is inductive relative to IInv.
LEMMA Waiting == Spec => []WaitInv
  BY InitWait, WaitStep, Inductive, PTL DEF Spec

\* No reply is lost: a task that waits has its request queued, once.
THEOREM Waiters == Spec => []WaiterIsQueued
<1>1. IInv /\ WaitInv => WaiterIsQueued
  <2> SUFFICES ASSUME IInv, WaitInv, NEW t \in Tasks, NEW op \in {"get", "put"},
                      state[t] = Waits[op]
               PROVE  Cardinality({i \in DOMAIN queue[Owner[t]] :
                          queue[Owner[t]][i] = [task |-> t, op |-> op]}) = 1
      BY DEF WaiterIsQueued, Waits
  <2>1. PICK i \in Nat : Places(t) = {i} /\ queue[Owner[t]][i].op = op
      BY DEF WaitInv
  <2>2. queue[Owner[t]] \in Seq(Request) /\ Owner[t] \in Nodes
      BY RecordPublisherAssumption DEF IInv, TypeOK
  <2>3. \A j \in DOMAIN queue[Owner[t]] :
            queue[Owner[t]][j] \in Request
      BY <2>2
  <2>4. \A j \in DOMAIN queue[Owner[t]] :
            queue[Owner[t]][j] = [task |-> t, op |-> op] <=> j = i
      BY <2>1, <2>3 DEF Places, Request
  <2>5. i \in DOMAIN queue[Owner[t]]
      BY <2>1 DEF Places
  <2>6. {j \in DOMAIN queue[Owner[t]] :
            queue[Owner[t]][j] = [task |-> t, op |-> op]} = {i}
      BY <2>4, <2>5
  <2> QED  BY <2>6, FS_Singleton
<1> QED  BY <1>1, Inductive, Waiting, PTL
=============================================================================
