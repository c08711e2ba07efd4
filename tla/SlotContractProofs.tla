-------------------------- MODULE SlotContractProofs --------------------------
(***************************************************************************)
(* For any number of nodes, publish tasks and storage nodes, any cap and   *)
(* any number of retries short of the wrap: RecordPublisher implements     *)
(* SlotContract.                                                           *)
(*                                                                         *)
(* The refinement needs to know that a task has one request at most in the *)
(* queue of its node, that only a task that waits or has failed has a put  *)
(* there, and that no attempt has ended for a task that still counts: what *)
(* it counts is settled before its record is sent, and a task that         *)
(* returned Ok or skipped sends none.                                      *)
(***************************************************************************)
EXTENDS RecordPublisherProofs

\* A task has one request at most, whatever became of the task.
OneRequest == \A t \in Tasks : \A i, j \in Places(t) : i = j

\* Whose record is queued waits for it, or has failed meanwhile.
PendingOpen == \A t \in Pending : state[t] \in {"putting", "err"}

SlotInv == OneRequest /\ PendingOpen

Sent == Pending \cup inflight

-----------------------------------------------------------------------------
\* The record of a task is pending when the task has a place with a put.
PendingByPlace ==
    \A t \in Tasks :
        t \in Pending <=> \E i \in Places(t) : queue[Owner[t]][i].op = "put"

LEMMA PendingPlace == TypeOK => PendingByPlace
<1> SUFFICES ASSUME TypeOK, NEW t \in Tasks
             PROVE  t \in Pending <=> \E i \in Places(t) : queue[Owner[t]][i].op = "put"
    BY DEF PendingByPlace
<1>1. queue[Owner[t]] \in Seq(Request)
    BY RecordPublisherAssumption DEF TypeOK
<1>2. \A i \in DOMAIN queue[Owner[t]] : queue[Owner[t]][i] \in Request
    BY <1>1
<1>3. \A i \in DOMAIN queue[Owner[t]] :
          queue[Owner[t]][i] = [task |-> t, op |-> "put"] <=>
              queue[Owner[t]][i].task = t /\ queue[Owner[t]][i].op = "put"
    BY <1>2 DEF Request
<1> QED  BY <1>3 DEF Pending, Places

\* Serving a request takes its task from the pending ones, and no other.
LEMMA PendingAfterDone ==
    ASSUME IInv, TypeOK', OneRequest, NEW n \in Nodes, NEW op \in {"get", "put"},
           Holds(n, op), Done(n)
    PROVE  /\ OneRequest'
           /\ Pending' = Pending \ {InService(n)}
           /\ InService(n) \in Pending <=> op = "put"
<1> DEFINE h == InService(n)
<1>1. /\ h \in Tasks /\ queue[n] # <<>> /\ 1 \in DOMAIN queue[n]
      /\ queue[n][1].task = h /\ queue[n][1].op = op
      /\ Owner[h] = n /\ TypeOK
    BY Served DEF IInv, QueueInv
<1>2. Places(h) = {1}
  <2>1. 1 \in Places(h)
      BY <1>1 DEF Places
  <2> QED  BY <1>1, <2>1 DEF OneRequest
<1> HIDE DEF h
<1>3. h \in Pending <=> op = "put"
    BY <1>1, <1>2, PendingPlace DEF PendingByPlace
<1>4. ASSUME NEW t \in Tasks
      PROVE  /\ \A i, j \in Places(t)' : i = j
             /\ t \in Pending' <=> t \in Pending /\ t # h
  <2>1. /\ Owner[t] # n => /\ Places(t)' = Places(t)
                           /\ queue'[Owner[t]] = queue[Owner[t]]
        /\ Owner[t] = n =>
             /\ \A i \in Nat \ {0} : i \in Places(t)' <=> i + 1 \in Places(t)
             /\ Places(t)' \subseteq Nat \ {0} /\ Places(t) \subseteq Nat \ {0}
             /\ \A i \in Places(t)' : queue'[n][i] = queue[n][i + 1]
      BY <1>1, PlacesAfterDone
  <2>2. /\ t \in Pending <=> \E i \in Places(t) : queue[Owner[t]][i].op = "put"
        /\ t \in Pending' <=> \E i \in Places(t)' : queue'[Owner[t]][i].op = "put"
    <3>1. PendingByPlace /\ PendingByPlace'
        BY <1>1, PendingPlace, PTL
    <3> QED  BY <3>1 DEF PendingByPlace
  <2>3. \A i, j \in Places(t) : i = j
      BY DEF OneRequest
  <2>4. CASE Owner[t] # n
      BY <1>1, <2>1, <2>2, <2>3, <2>4
  <2>5. CASE t = h
    <3>1. \A i \in Nat \ {0} : i + 1 # 1
        OBVIOUS
    <3>2. Places(t)' = {}
        BY <1>1, <1>2, <2>1, <2>5, <3>1
    <3> QED  BY <2>2, <2>5, <3>2
  <2>6. CASE Owner[t] = n /\ t # h
    <3>1. 1 \notin Places(t)
        BY <1>1, <2>6 DEF Places
    <3>2. ASSUME NEW j \in Places(t)
          PROVE  j - 1 \in Places(t)' /\ queue'[n][j - 1] = queue[n][j]
      <4>1. j \in Nat \ {0, 1} /\ j - 1 \in Nat \ {0} /\ (j - 1) + 1 = j
          BY <2>1, <2>6, <3>1
      <4> QED  BY <2>1, <2>6, <4>1
    <3>3. \A i \in Places(t)' : i \in Nat /\ i + 1 \in Places(t)
                                /\ queue'[n][i] = queue[n][i + 1]
        BY <2>1, <2>6
    <3>4. \A i, j \in Places(t)' : i = j
      <4> SUFFICES ASSUME NEW i \in Places(t)', NEW j \in Places(t)' PROVE i = j
          OBVIOUS
      <4>1. i + 1 = j + 1 /\ i \in Nat /\ j \in Nat
          BY <2>3, <3>3
      <4> QED  BY <4>1
    <3> QED  BY <2>2, <2>6, <3>2, <3>3, <3>4
  <2> QED  BY <2>4, <2>5, <2>6
<1>5. Pending \subseteq Tasks /\ Pending' \subseteq Tasks
    BY DEF Pending
<1> QED  BY <1>3, <1>4, <1>5 DEF OneRequest, h

\* A task without a request sends one.
LEMMA PendingAfterSend ==
    ASSUME TypeOK, TypeOK', OneRequest, NEW t \in Tasks, NEW op \in {"get", "put"},
           Send(t, op), Places(t) = {}
    PROVE  /\ OneRequest'
           /\ Pending' = IF op = "put" THEN Pending \cup {t} ELSE Pending
           /\ t \notin Pending
<1>1. /\ \E i \in Nat : Places(t)' = {i} /\ queue'[Owner[t]][i].op = op
      /\ \A s \in Tasks : s # t =>
           /\ Places(s)' = Places(s)
           /\ \A i \in Places(s) : queue'[Owner[s]][i] = queue[Owner[s]][i]
    BY PlacesAfterSend
<1>2. ASSUME NEW s \in Tasks
      PROVE  /\ s \in Pending <=> \E i \in Places(s) : queue[Owner[s]][i].op = "put"
             /\ s \in Pending' <=> \E i \in Places(s)' : queue'[Owner[s]][i].op = "put"
  <2>1. PendingByPlace /\ PendingByPlace'
      BY PendingPlace, PTL
  <2> QED  BY <2>1 DEF PendingByPlace
<1>3. OneRequest'
    BY <1>1 DEF OneRequest
<1>4. \A s \in Tasks : s # t => (s \in Pending' <=> s \in Pending)
    BY <1>1, <1>2
<1>5. t \notin Pending /\ (t \in Pending' <=> op = "put")
    BY <1>1, <1>2
<1>6. Pending \subseteq Tasks /\ Pending' \subseteq Tasks
    BY DEF Pending
<1> QED  BY <1>3, <1>4, <1>5, <1>6

-----------------------------------------------------------------------------
\* What the caller of a task sees.

\* A task that reaches an outcome returns it.
LEMMA ReturnsOutcome ==
    ASSUME NEW t \in Tasks, NEW r \in Final, state[t] \notin Final, state'[t] = r,
           \A s \in Tasks : s # t => state'[s] = state[s]
    PROVE  Slot!Returns(t, r)
<1>1. Returned[t] = "none"
    BY DEF Returned
<1>2. Returned' = [Returned EXCEPT ![t] = r]
    BY DEF Returned
<1> QED  BY <1>1, <1>2 DEF Slot!Returns

\* Nothing is returned by a step on the way.
LEMMA ReturnsNothing ==
    ASSUME \A s \in Tasks : \/ state'[s] = state[s]
                            \/ state[s] \notin Final /\ state'[s] \notin Final
    PROVE  UNCHANGED Returned
  BY DEF Returned

\* A record that is stored enters the slot, and may replace another one.
LEMMA StoreArrives ==
    ASSUME TypeOK, NEW t \in Tasks, t \in Sent, Store(t),
           UNCHANGED Sent, UNCHANGED seen, UNCHANGED Returned
    PROVE  Slot!Arrive(t)
<1>1. PICK w \in Storage : store' = [store EXCEPT ![w] = Owner[t]]
    BY DEF Store
<1>2. store \in [Storage -> Nodes \cup {Nobody}] /\ Owner[t] # Nobody
    BY RecordPublisherAssumption DEF TypeOK
<1>3. Published' \subseteq Published \cup {Owner[t]} /\ Owner[t] \in Published'
    BY <1>1, <1>2 DEF Published
<1>4. Published' = (Published \cap Published') \cup {Owner[t]}
    BY <1>3
<1>5. \E kept \in SUBSET Published : Published' = kept \cup {Owner[t]}
    BY <1>4
<1> QED  BY <1>5 DEF Slot!Arrive, Store, Sent

-----------------------------------------------------------------------------
\* Every step keeps SlotInv and is a step of the contract, or none.

\* Who is still to count or to decide has sent nothing.
LEMMA StillOpen ==
    ASSUME IInv, WaitInv, SlotInv, NEW t \in Tasks,
           state[t] \in {"new", "getting", "check"}
    PROVE  t \notin Pending /\ t \notin inflight /\ Slot!Open(t)
<1>1. t \notin inflight
    BY DEF IInv, FlightInv
<1>2. t \notin Pending
    BY DEF SlotInv, PendingOpen
<1>3. Returned[t] = "none"
    BY DEF Returned, Final
<1> QED  BY <1>1, <1>2, <1>3 DEF Slot!Open

\* A lookup is sent, enough others are counted, or the record is sent.
LEMMA PublishSlot ==
    ASSUME IInv, IInv', WaitInv, SlotInv, NEW t \in Tasks, Publish(t)
    PROVE  SlotInv' /\ [Slot!Next]_(Slot!vars)
<1>1. /\ TypeOK /\ TypeOK' /\ Places(t) = {} /\ state[t] \in {"new", "check"}
      /\ OneRequest /\ PendingOpen /\ Slot!Open(t)
      /\ state \in [Tasks -> {"new", "getting", "check", "putting"} \cup Final]
  <2>1. TypeOK /\ TypeOK' /\ state[t] \in {"new", "check"}
      BY DEF IInv, Publish, BeginLookup, Decide
  <2>2. Places(t) = {}
      BY <2>1 DEF WaitInv
  <2> QED  BY <2>1, <2>2, StillOpen DEF SlotInv, TypeOK
<1>2. UNCHANGED <<store, seen, inflight, entered>> /\ UNCHANGED Published
    BY DEF Publish, BeginLookup, Decide, Published, dht
<1>3. CASE BeginLookup(t)
  <2>1. /\ state[t] = "new" /\ Send(t, "get")
        /\ state' = [state EXCEPT ![t] = "getting"]
      BY <1>3 DEF BeginLookup
  <2>2. OneRequest' /\ Pending' = Pending /\ t \notin Pending
      BY <1>1, <2>1, PendingAfterSend
  <2>3. PendingOpen'
      BY <1>1, <2>1, <2>2 DEF PendingOpen
  <2>4. UNCHANGED Returned
      BY <1>1, <2>1, ReturnsNothing DEF Final
  <2> QED  BY <1>2, <2>2, <2>3, <2>4 DEF SlotInv, Slot!vars
<1>4. CASE Decide(t) /\ Cardinality(seen[t]) >= MaxRecords
  <2>1. UNCHANGED queue /\ state' = [state EXCEPT ![t] = "skipped"]
      BY <1>4 DEF Decide
  <2>2. UNCHANGED Pending /\ OneRequest'
      BY <1>1, <2>1 DEF Pending, OneRequest, Places
  <2>3. PendingOpen'
    <3>1. t \notin Pending
        BY <1>1, StillOpen
    <3> QED  BY <1>1, <2>1, <2>2, <3>1 DEF PendingOpen
  <2>4. Slot!Returns(t, "skipped")
      BY <1>1, <2>1, ReturnsOutcome DEF Final
  <2>5. Slot!Cardinality(seen[t]) >= MaxRecords
      BY <1>4 DEF Slot!Cardinality, Cardinality
  <2>6. Slot!Skip(t)
      BY <1>1, <1>2, <2>2, <2>4, <2>5 DEF Slot!Skip
  <2> QED  BY <2>2, <2>3, <2>6 DEF SlotInv, Slot!Next
<1>5. CASE Decide(t) /\ ~(Cardinality(seen[t]) >= MaxRecords)
  <2>1. /\ state[t] = "check" /\ Send(t, "put")
        /\ state' = [state EXCEPT ![t] = "putting"]
      BY <1>5 DEF Decide
  <2>2. OneRequest' /\ Pending' = Pending \cup {t}
      BY <1>1, <2>1, PendingAfterSend
  <2>3. PendingOpen'
      BY <1>1, <2>1, <2>2 DEF PendingOpen, Pending
  <2>4. UNCHANGED Returned
      BY <1>1, <2>1, ReturnsNothing DEF Final
  <2>5. Slot!Cardinality(seen[t]) < MaxRecords
    <3>1. Cardinality(seen[t]) \in Nat /\ MaxRecords \in Nat
      <4>1. seen[t] \subseteq Nodes /\ IsFiniteSet(Nodes)
          BY <1>1, RecordPublisherAssumption DEF TypeOK
      <4> QED  BY <4>1, FS_Subset, FS_CardinalityType, RecordPublisherAssumption
    <3>2. Cardinality(seen[t]) < MaxRecords
        BY <1>5, <3>1
    <3> QED  BY <3>2 DEF Slot!Cardinality, Cardinality
  <2>6. Slot!Submit(t)
      BY <1>1, <1>2, <2>2, <2>4, <2>5 DEF Slot!Submit
  <2> QED  BY <2>2, <2>3, <2>6 DEF SlotInv, Slot!Next
<1> QED  BY <1>3, <1>4, <1>5 DEF Publish

\* A cancelled task fails, and drops what it has heard; its record may still be on
\* its way.
LEMMA AbortSlot ==
    ASSUME IInv, SlotInv, NEW t \in Tasks, Abort(t)
    PROVE  SlotInv' /\ [Slot!Next]_(Slot!vars)
<1>1. /\ UNCHANGED <<store, entered, queue, inflight>> /\ state[t] \notin Final
      /\ state' = [state EXCEPT ![t] = "err"]
      /\ state \in [Tasks -> {"new", "getting", "check", "putting"} \cup Final]
      /\ seen' \in {seen, Slot!Forgotten(t)}
    BY DEF Abort, Drops, IInv, TypeOK, dht, Slot!Forgotten
<1>2. UNCHANGED Published /\ UNCHANGED Pending /\ OneRequest'
    BY <1>1 DEF Published, Pending, SlotInv, OneRequest, Places
<1>3. PendingOpen'
    BY <1>1, <1>2 DEF SlotInv, PendingOpen
<1>4. Slot!Returns(t, "err")
    BY <1>1, ReturnsOutcome DEF Final
<1>5. Slot!Fail(t)
    BY <1>1, <1>2, <1>4 DEF Slot!Fail
<1> QED  BY <1>2, <1>3, <1>5 DEF SlotInv, Slot!Next

\* What a lookup hears of is counted while it is in the slot.
LEMMA HearsSlot ==
    ASSUME IInv, WaitInv, SlotInv, NEW n \in Nodes, GetHears(n)
    PROVE  SlotInv' /\ [Slot!Next]_(Slot!vars)
<1> DEFINE t == InService(n)
<1>1. /\ Holds(n, "get") /\ t \in Tasks /\ Owner[t] = n /\ state[t] = "getting"
      /\ UNCHANGED <<store, entered, queue, inflight, state>>
  <2>1. /\ Holds(n, "get") /\ state[t] = "getting"
        /\ UNCHANGED <<store, entered, queue, inflight, state>>
      BY DEF GetHears, dht
  <2> QED  BY <2>1, Served DEF IInv, QueueInv
<1>2. PICK k \in Published \ {n} : seen' = [seen EXCEPT ![t] = seen[t] \cup {k}]
    BY DEF GetHears
<1> HIDE DEF t
<1>3. UNCHANGED Published /\ UNCHANGED Pending /\ UNCHANGED Returned /\ SlotInv'
    BY <1>1 DEF Published, Pending, Returned, SlotInv, OneRequest, Places, PendingOpen
<1>4. Slot!Open(t)
    BY <1>1, StillOpen
<1>5. Slot!Count(t)
    BY <1>1, <1>2, <1>3, <1>4 DEF Slot!Count
<1> QED  BY <1>1, <1>3, <1>5 DEF Slot!Next

\* A lookup ends.
LEMMA GetSlot ==
    ASSUME IInv, IInv', WaitInv, SlotInv, NEW n \in Nodes, GetAnswered(n) \/ GetFailed(n)
    PROVE  SlotInv' /\ [Slot!Next]_(Slot!vars)
<1> DEFINE t == InService(n)
<1>1. /\ Holds(n, "get") /\ Done(n) /\ TypeOK /\ TypeOK' /\ t \in Tasks
      /\ Owner[t] = n /\ UNCHANGED <<store, entered, inflight>>
      /\ OneRequest /\ PendingOpen
      /\ state \in [Tasks -> {"new", "getting", "check", "putting"} \cup Final]
      /\ seen \in [Tasks -> SUBSET Nodes]
  <2>1. /\ Holds(n, "get") /\ Done(n) /\ TypeOK /\ TypeOK'
        /\ UNCHANGED <<store, entered, inflight>>
      BY DEF GetAnswered, GetFailed, IInv, dht
  <2>2. t \in Tasks /\ Owner[t] = n
      BY <2>1, Served DEF IInv, QueueInv
  <2> QED  BY <2>1, <2>2 DEF SlotInv, TypeOK
<1>2. OneRequest' /\ Pending' = Pending /\ t \notin Pending /\ UNCHANGED Published
  <2>1. OneRequest' /\ Pending' = Pending \ {t} /\ t \notin Pending
      BY <1>1, PendingAfterDone
  <2> QED  BY <1>1, <2>1 DEF Published
<1>3. CASE GetAnswered(n) /\ state[t] = "getting"
  <2>1. state' = [state EXCEPT ![t] = "check"] /\ UNCHANGED seen
      BY <1>1, <1>3 DEF GetAnswered, Answer
  <2> HIDE DEF t
  <2>2. PendingOpen'
      BY <1>1, <1>2, <2>1 DEF PendingOpen, Pending
  <2>3. UNCHANGED Returned
      BY <1>1, <1>3, <2>1, ReturnsNothing DEF Final
  <2> QED  BY <1>1, <1>2, <2>1, <2>2, <2>3 DEF SlotInv, Slot!vars
<1>4. CASE state[t] # "getting"
  <2>1. UNCHANGED <<state, seen>>
      BY <1>1, <1>4 DEF GetAnswered, GetFailed, Answer, Drops
  <2>2. PendingOpen'
      BY <1>1, <1>2, <2>1 DEF PendingOpen
  <2> QED  BY <1>1, <1>2, <2>1, <2>2 DEF SlotInv, Slot!vars, Returned
<1>5. CASE GetFailed(n) /\ state[t] = "getting"
  <2>1. PICK to \in {"check", "err"} : state' = [state EXCEPT ![t] = to]
      BY <1>1, <1>5 DEF GetFailed, Answer
  <2>2. seen' = Slot!Forgotten(t)
      BY <1>1, <1>5 DEF GetFailed, Drops, Slot!Forgotten
  <2>3. Slot!Open(t)
      BY <1>1, <1>5, StillOpen
  <2> HIDE DEF t
  <2>4. PendingOpen'
      BY <1>1, <1>2, <2>1 DEF PendingOpen, Pending
  <2>5. CASE to = "check"
    <3>1. UNCHANGED Returned
        BY <1>1, <1>5, <2>1, <2>5, ReturnsNothing DEF Final
    <3>2. Slot!Forget(t)
        BY <1>1, <1>2, <2>2, <2>3, <3>1 DEF Slot!Forget
    <3> QED  BY <1>1, <1>2, <2>4, <3>2 DEF SlotInv, Slot!Next
  <2>6. CASE to = "err"
    <3>1. Slot!Returns(t, "err")
        BY <1>1, <1>5, <2>1, <2>6, ReturnsOutcome DEF Final
    <3>2. Slot!Fail(t)
        BY <1>1, <1>2, <2>2, <3>1 DEF Slot!Fail
    <3> QED  BY <1>1, <1>2, <2>4, <3>2 DEF SlotInv, Slot!Next
  <2> QED  BY <2>5, <2>6
<1> QED  BY <1>3, <1>4, <1>5

\* A put ends: for a task that waits with its outcome, for one that has failed
\* before without a word.  After an attempt its messages may still arrive.
LEMMA PutEndsSlot ==
    ASSUME Attempts # 0, IInv, IInv', SlotInv, NEW n \in Nodes,
           PutOk(n) \/ PutFailed(n) \/ PutUnconnected(n)
    PROVE  SlotInv' /\ [Slot!Next]_(Slot!vars)
<1> DEFINE t == InService(n)
<1>1. /\ Holds(n, "put") /\ Done(n) /\ TypeOK /\ TypeOK' /\ t \in Tasks
      /\ Owner[t] = n /\ UNCHANGED <<store, entered, seen>>
      /\ OneRequest /\ PendingOpen
      /\ state \in [Tasks -> {"new", "getting", "check", "putting"} \cup Final]
  <2>1. /\ Holds(n, "put") /\ Done(n) /\ TypeOK /\ TypeOK'
        /\ UNCHANGED <<store, entered, seen>>
      BY DEF PutOk, PutFailed, PutUnconnected, EndsPut, IInv, dht
  <2>2. t \in Tasks /\ Owner[t] = n
      BY <2>1, ServedPut
  <2> QED  BY <2>1, <2>2 DEF SlotInv, TypeOK
<1>2. /\ OneRequest' /\ Pending' = Pending \ {t} /\ t \in Pending
      /\ UNCHANGED Published
  <2>1. OneRequest' /\ Pending' = Pending \ {t} /\ t \in Pending
      BY <1>1, PendingAfterDone
  <2> QED  BY <1>1, <2>1 DEF Published
<1>3. PICK to \in {"ok", "err"} :
        /\ Answer(t, "putting", to)
        /\ inflight' \in {inflight, inflight \cup {t}}
        /\ to = "ok" => t \in entered /\ inflight' = inflight \cup {t}
  <2>1. CASE PutOk(n)
    <3>1. t \in entered /\ EndsAttempt(n) /\ Answer(t, "putting", "ok")
        BY <2>1 DEF PutOk, EndsPut, IInv, ReachedInv
    <3> QED  BY <3>1 DEF EndsAttempt
  <2>2. CASE PutFailed(n)
      BY <2>2 DEF PutFailed, EndsPut, EndsAttempt
  <2>3. CASE PutUnconnected(n)
      BY <2>3 DEF PutUnconnected, EndsPut
  <2> QED  BY <2>1, <2>2, <2>3
<1>4. /\ Sent' \in {Sent, Sent \ {t}} /\ t \in Sent
      /\ to = "ok" => Sent' = Sent
    BY <1>2, <1>3 DEF Sent
<1> HIDE DEF t
<1>5. state[t] \in {"putting", "err"}
    BY <1>1, <1>2 DEF PendingOpen
<1>6. CASE state[t] = "putting"
  <2>1. state' = [state EXCEPT ![t] = to]
      BY <1>1, <1>3, <1>6 DEF Answer
  <2>2. PendingOpen'
      BY <1>1, <1>2, <2>1 DEF PendingOpen, Pending
  <2>3. Slot!Returns(t, to)
      BY <1>1, <1>6, <2>1, ReturnsOutcome DEF Final
  <2>4. CASE to = "ok"
    <3>1. Slot!Succeed(t)
        BY <1>1, <1>2, <1>3, <1>4, <2>3, <2>4 DEF Slot!Succeed, Sent
    <3> QED  BY <1>1, <1>2, <2>2, <3>1 DEF SlotInv, Slot!Next
  <2>5. CASE to = "err"
    <3>1. Slot!Fail(t)
        BY <1>1, <1>2, <1>4, <2>3, <2>5 DEF Slot!Fail, Sent
    <3> QED  BY <1>1, <1>2, <2>2, <3>1 DEF SlotInv, Slot!Next
  <2> QED  BY <2>4, <2>5
<1>7. CASE state[t] = "err"
  <2>1. UNCHANGED state
      BY <1>1, <1>3, <1>7 DEF Answer
  <2>2. PendingOpen'
      BY <1>1, <1>2, <2>1 DEF PendingOpen, Pending
  <2>3. Returned[t] = "err" /\ UNCHANGED Returned
      BY <1>1, <1>7, <2>1 DEF Returned, Final
  <2>4. CASE Sent' = Sent
      BY <1>1, <1>2, <2>2, <2>3, <2>4 DEF SlotInv, Slot!vars, Sent
  <2>5. CASE Sent' = Sent \ {t}
    <3>1. Slot!GiveUp(t)
        BY <1>1, <1>2, <1>4, <2>3, <2>5 DEF Slot!GiveUp, Sent
    <3> QED  BY <1>1, <1>2, <2>2, <3>1 DEF SlotInv, Slot!Next
  <2> QED  BY <1>4, <2>4, <2>5
<1> QED  BY <1>5, <1>6, <1>7

\* The put in service is pending.
LEMMA ServedPending ==
    ASSUME IInv, NEW n \in Nodes, Holds(n, "put")
    PROVE  InService(n) \in Pending
<1>1. /\ InService(n) \in Tasks /\ 1 \in DOMAIN queue[n] /\ TypeOK
      /\ queue[n][1].task = InService(n) /\ queue[n][1].op = "put"
    BY Served DEF IInv
<1>2. Owner[InService(n)] = n
    BY ServedPut
<1>3. 1 \in Places(InService(n))
    BY <1>1, <1>2 DEF Places
<1> QED  BY <1>1, <1>2, <1>3, PendingPlace DEF PendingByPlace

\* An attempt that is repeated changes nothing of what is on its way.
LEMMA PutRetriedSlot ==
    ASSUME IInv, SlotInv, NEW n \in Nodes, PutRetried(n)
    PROVE  SlotInv' /\ [Slot!Next]_(Slot!vars)
<1>1. /\ Holds(n, "put") /\ UNCHANGED <<store, entered, queue, state, seen>>
      /\ inflight' \in {inflight, inflight \cup {InService(n)}}
    BY DEF PutRetried, EndsAttempt, dht
<1>2. InService(n) \in Pending
    BY <1>1, ServedPending
<1>3. /\ UNCHANGED Pending /\ UNCHANGED Published /\ UNCHANGED Returned
      /\ SlotInv'
    BY <1>1 DEF Pending, Published, Returned, SlotInv, OneRequest, Places, PendingOpen
<1>4. UNCHANGED Sent
    BY <1>1, <1>2, <1>3 DEF Sent
<1> QED  BY <1>1, <1>3, <1>4 DEF Slot!vars, Sent

\* A storage node takes a record, in time or late.
LEMMA StoreSlot ==
    ASSUME IInv, SlotInv, NEW t \in Tasks, t \in Sent, Store(t),
           UNCHANGED <<queue, inflight, state, seen>>
    PROVE  SlotInv' /\ [Slot!Next]_(Slot!vars)
<1>1. UNCHANGED Pending /\ UNCHANGED Returned /\ SlotInv'
    BY DEF Pending, Returned, SlotInv, OneRequest, Places, PendingOpen
<1>2. UNCHANGED Sent
    BY <1>1 DEF Sent
<1>3. Slot!Arrive(t)
    BY <1>1, <1>2, StoreArrives DEF IInv
<1> QED  BY <1>1, <1>3 DEF Slot!Next

LEMMA PutStoresSlot ==
    ASSUME IInv, SlotInv, NEW n \in Nodes, PutStores(n)
    PROVE  SlotInv' /\ [Slot!Next]_(Slot!vars)
<1>1. /\ Holds(n, "put") /\ Store(InService(n))
      /\ UNCHANGED <<queue, inflight, state, seen>>
    BY DEF PutStores
<1>2. InService(n) \in Tasks /\ InService(n) \in Sent
    BY <1>1, ServedPut, ServedPending DEF Sent
<1> QED  BY <1>1, <1>2, StoreSlot

LEMMA ArrivesSlot ==
    ASSUME IInv, SlotInv, NEW t \in Tasks, Arrives(t)
    PROVE  SlotInv' /\ [Slot!Next]_(Slot!vars)
  BY StoreSlot DEF Arrives, Sent

\* Records vanish; a cancellation changes nothing the contract speaks of.
LEMMA OutsideSlot ==
    ASSUME IInv, SlotInv, Expire \/ (\E n \in Nodes : Cancel(n)) \/ UNCHANGED vars
    PROVE  SlotInv' /\ [Slot!Next]_(Slot!vars)
<1>1. UNCHANGED <<entered, queue, inflight, state, seen>>
    BY DEF Expire, Cancel, vars, dht
<1>2. UNCHANGED Pending /\ UNCHANGED Returned /\ SlotInv'
    BY <1>1 DEF Pending, Returned, SlotInv, OneRequest, Places, PendingOpen
<1>3. Published' \subseteq Published
  <2>1. CASE Expire
    <3>1. PICK s \in Storage : store' = [store EXCEPT ![s] = Nobody]
        BY <2>1 DEF Expire
    <3>2. store \in [Storage -> Nodes \cup {Nobody}]
        BY DEF IInv, TypeOK
    <3> QED  BY <3>1, <3>2 DEF Published
  <2>2. CASE UNCHANGED store
      BY <2>2 DEF Published
  <2> QED  BY <2>1, <2>2 DEF Cancel, vars, dht
<1>4. Slot!Vanish
    BY <1>1, <1>2, <1>3 DEF Slot!Vanish
<1> QED  BY <1>2, <1>4 DEF Slot!Next

\* Initially the slot is empty and nobody has asked.
LEMMA InitSlot == Init => SlotInv /\ Slot!Init
<1> SUFFICES ASSUME Init PROVE SlotInv /\ Slot!Init
    OBVIOUS
<1>1. \A t \in Tasks : state[t] = "new" /\ queue[Owner[t]] = <<>>
    BY RecordPublisherAssumption DEF Init
<1>2. Pending = {} /\ \A t \in Tasks : Places(t) = {}
    BY <1>1 DEF Pending, Places
<1>3. SlotInv
    BY <1>1, <1>2 DEF SlotInv, OneRequest, PendingOpen
<1>4. Published = {} /\ inflight = {} /\ entered = {} /\ seen = [t \in Tasks |-> {}]
    BY DEF Init, Published
<1>5. Returned = [t \in Tasks |-> "none"]
    BY <1>1 DEF Returned, Final
<1> QED  BY <1>2, <1>3, <1>4, <1>5 DEF Slot!Init

\* A publisher, with lookups and puts that take their time, queues, retries, late
\* messages and cancellations, keeps what its callers rely on, as long as one more
\* than the configured retries is still a usize (otherwise Ok may come without any
\* attempt).
THEOREM ImplementsSlotContract ==
    ASSUME Retries + 1 < Word PROVE Spec => MeetsSlotContract
<1>1. Attempts # 0
    BY AttemptsIsPositive
<1>2. IInv /\ IInv' /\ WaitInv /\ SlotInv /\ [Next]_vars =>
          SlotInv' /\ [Slot!Next]_(Slot!vars)
  <2> SUFFICES ASSUME IInv, IInv', WaitInv, SlotInv, [Next]_vars
               PROVE  SlotInv' /\ [Slot!Next]_(Slot!vars)
      OBVIOUS
  <2>1. ASSUME NEW t \in Tasks, Publish(t) \/ Abort(t) \/ Arrives(t)
        PROVE  SlotInv' /\ [Slot!Next]_(Slot!vars)
      BY <2>1, PublishSlot, AbortSlot, ArrivesSlot
  <2>2. ASSUME NEW n \in Nodes, Serve(n) \/ GetHears(n) \/ PutStores(n)
        PROVE  SlotInv' /\ [Slot!Next]_(Slot!vars)
      BY <1>1, <2>2, GetSlot, HearsSlot, PutEndsSlot, PutRetriedSlot, PutStoresSlot
         DEF Serve
  <2>3. CASE Expire \/ (\E n \in Nodes : Cancel(n)) \/ UNCHANGED vars
      BY <2>3, OutsideSlot
  <2> QED  BY <2>1, <2>2, <2>3 DEF Next
<1> QED  BY <1>2, InitSlot, Inductive, Waiting, PTL
         DEF Spec, MeetsSlotContract, Slot!Spec
=============================================================================
