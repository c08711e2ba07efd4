------------------------- MODULE GossipReceiverProofs -------------------------
(***************************************************************************)
(* For any number of handles, peers and messages and any capacity of the   *)
(* channels: joined() loses no wakeup, and the hash window holds exactly   *)
(* the last messages.                                                      *)
(*                                                                         *)
(* NoLostWakeup needs to know that no cursor is ahead of its channel: then *)
(* the join event sent with a new neighbor is ahead of every cursor.  The  *)
(* hash window is inductive by itself.                                     *)
(***************************************************************************)
EXTENDS GossipReceiver, TLAPS

\* No handle has taken more from a channel than was sent on it.
CursorsBehind ==
    \A h \in Handles : \A c \in Channels : cursor[h][c] <= tail[c]

IInv == TypeOK /\ CursorsBehind /\ NoLostWakeup

-----------------------------------------------------------------------------
\* Sending moves the tails of the given channels, and only forward.
LEMMA SendMoves ==
    ASSUME TypeOK, NEW C, Send(C)
    PROVE  /\ tail' \in [Channels -> Nat]
           /\ \A c \in Channels : tail[c] <= tail'[c]
           /\ \A c \in Channels : c \in C => tail[c] < tail'[c]
  BY DEF TypeOK, Send

\* A step that sends and leaves the handles where they are keeps the cursors
\* behind, and wakes every waiting handle if the join channel is sent on.
LEMMA SendKeeps ==
    ASSUME IInv, NEW C, Send(C), cursor' = cursor, call' = call,
           neighbors' \subseteq neighbors \/ "join" \in C
    PROVE  CursorsBehind' /\ NoLostWakeup'
<1>1. /\ tail' \in [Channels -> Nat] /\ tail \in [Channels -> Nat]
      /\ cursor \in [Handles -> [Channels -> Nat]]
      /\ \A c \in Channels : tail[c] <= tail'[c]
      /\ \A c \in Channels : c \in C => tail[c] < tail'[c]
    BY SendMoves DEF IInv, TypeOK
<1>2. CursorsBehind'
    BY <1>1 DEF IInv, CursorsBehind
<1>3. NoLostWakeup'
  <2> SUFFICES ASSUME NEW h \in Handles, call[h] = "joining", neighbors' # {}
               PROVE  tail'["join"] - cursor[h]["join"] > 0
      BY DEF NoLostWakeup, Behind
  <2>1. /\ cursor[h]["join"] \in Nat /\ tail["join"] \in Nat /\ tail'["join"] \in Nat
        /\ tail["join"] <= tail'["join"] /\ cursor[h]["join"] <= tail["join"]
      BY <1>1 DEF IInv, CursorsBehind, Channels
  <2>2. CASE "join" \in C
    <3>1. tail["join"] < tail'["join"]
        BY <1>1, <2>2 DEF Channels
    <3> QED  BY <2>1, <3>1
  <2>3. CASE neighbors' \subseteq neighbors
    <3>1. tail["join"] - cursor[h]["join"] > 0
        BY <2>3 DEF IInv, NoLostWakeup, Behind
    <3> QED  BY <2>1, <3>1
  <2> QED  BY <2>2, <2>3
<1> QED  BY <1>2, <1>3

\* recv() moves one cursor, up to the tail at most.
LEMMA RecvKeeps ==
    ASSUME IInv, NEW h \in Handles, NEW c \in Channels, Recv(h, c)
    PROVE  IInv'
<1>1. /\ tail \in [Channels -> Nat]
      /\ cursor \in [Handles -> [Channels -> Nat]]
      /\ call \in [Handles -> Calls] /\ result \in [Handles -> Results]
      /\ \A g \in Handles : \A d \in Channels : cursor[g][d] <= tail[d]
      /\ ChannelCap \in Nat
    BY GossipReceiverAssumption DEF IInv, TypeOK, CursorsBehind
<1> DEFINE k == IF Behind(h, c) > ChannelCap THEN tail[c] - ChannelCap
                ELSE IF Behind(h, c) = 0 THEN cursor[h][c] ELSE cursor[h][c] + 1
<1>2. k \in Nat /\ k <= tail[c]
  <2>1. tail[c] \in Nat /\ cursor[h][c] \in Nat /\ cursor[h][c] <= tail[c]
      BY <1>1
  <2>2. Behind(h, c) = tail[c] - cursor[h][c]
      BY DEF Behind
  <2>3. CASE Behind(h, c) > ChannelCap
      BY <1>1, <2>1, <2>2, <2>3
  <2>4. CASE ~(Behind(h, c) > ChannelCap)
      BY <2>1, <2>2, <2>4
  <2> QED  BY <2>3, <2>4
<1>3. cursor' = [cursor EXCEPT ![h][c] = k]
    BY DEF Recv
<1>4. tail' = tail /\ neighbors' = neighbors
    BY DEF Recv, actorVars
<1> HIDE DEF k
<1>5. cursor' \in [Handles -> [Channels -> Nat]]
    BY <1>1, <1>2, <1>3
<1>6. CursorsBehind'
    BY <1>1, <1>2, <1>3, <1>4 DEF CursorsBehind
<1>7. call' = [call EXCEPT ![h] = "idle"]
    BY DEF Recv
<1>8. result' \in [Handles -> Results]
    BY <1>1 DEF Recv, Outcome, Results
<1>9. TypeOK'
    BY <1>1, <1>4, <1>5, <1>7, <1>8 DEF IInv, TypeOK, Recv, actorVars, Calls
<1>10. NoLostWakeup'
  <2> SUFFICES ASSUME NEW g \in Handles, call'[g] = "joining", neighbors' # {}
               PROVE  (tail["join"] - cursor[g]["join"] > 0) /\ cursor'[g] = cursor[g]
      BY <1>4 DEF NoLostWakeup, Behind
  <2>1. g # h /\ call[g] = "joining"
      BY <1>1, <1>7
  <2> QED  BY <1>1, <1>3, <1>4, <2>1 DEF IInv, NoLostWakeup, Behind
<1> QED  BY <1>6, <1>9, <1>10 DEF IInv

-----------------------------------------------------------------------------
\* Initially nothing was sent and nobody waits.
LEMMA InitIInv == Init => IInv
<1> SUFFICES ASSUME Init PROVE IInv
    OBVIOUS
<1>1. <<>> \in Seq(Messages)
    OBVIOUS
<1>2. TypeOK
    BY <1>1, GossipReceiverAssumption DEF Init, TypeOK, Calls, Results
<1>3. CursorsBehind /\ NoLostWakeup
    BY GossipReceiverAssumption DEF Init, CursorsBehind, NoLostWakeup, Channels
<1> QED  BY <1>2, <1>3 DEF IInv

\* The window of a message sequence is a message sequence.
LEMMA WindowType ==
    ASSUME NEW q \in Seq(Messages), NEW m \in Messages
    PROVE  Append(IF Len(q) = MaxMessageHashes THEN Tail(q) ELSE q, m)
               \in Seq(Messages)
<1>1. CASE q # <<>>
  <2>1. Tail(q) \in Seq(Messages)
      BY <1>1
  <2> QED  BY <2>1
<1>2. CASE q = <<>>
  <2>1. Len(q) # MaxMessageHashes
      BY <1>2, GossipReceiverAssumption
  <2> QED  BY <2>1
<1> QED  BY <1>1, <1>2

\* The actor's steps.
LEMMA ActorKeeps == IInv /\ Actor => IInv'
<1> SUFFICES ASSUME IInv, Actor PROVE IInv'
    OBVIOUS
<1> USE DEF IInv
<1>1. CASE ReceiveNeighborUp
  <2>1. Send({"join", "next"}) /\ cursor' = cursor /\ call' = call
      BY <1>1 DEF ReceiveNeighborUp
  <2>2. TypeOK'
      BY <1>1, <2>1, SendMoves DEF TypeOK, ReceiveNeighborUp, Meet
  <2> QED  BY <2>1, <2>2, SendKeeps
<1>2. CASE ReceiveNeighborDown
  <2>1. /\ Send({"next"}) /\ cursor' = cursor /\ call' = call
        /\ neighbors' \subseteq neighbors
      BY <1>2 DEF ReceiveNeighborDown
  <2>2. TypeOK'
      BY <1>2, <2>1, SendMoves DEF TypeOK, ReceiveNeighborDown
  <2> QED  BY <2>1, <2>2, SendKeeps
<1>3. CASE ReceiveMessage
  <2>1. Send({"join", "next"}) /\ cursor' = cursor /\ call' = call
      BY <1>3 DEF ReceiveMessage
  <2>2. hashes' \in Seq(Messages) /\ received' \in Seq(Messages)
    <3>1. PICK m \in Messages :
            /\ received' = Append(received, m)
            /\ hashes' = Append(IF Len(hashes) = MaxMessageHashes
                                THEN Tail(hashes) ELSE hashes, m)
        BY <1>3 DEF ReceiveMessage
    <3> QED  BY <3>1, WindowType DEF TypeOK
  <2>3. TypeOK'
      BY <1>3, <2>1, <2>2, SendMoves DEF TypeOK, ReceiveMessage, Meet
  <2> QED  BY <2>1, <2>3, SendKeeps
<1>4. CASE ReceiveLagged
  <2>1. /\ Send({"next"}) /\ cursor' = cursor /\ call' = call
        /\ neighbors' \subseteq neighbors
      BY <1>4 DEF ReceiveLagged
  <2>2. TypeOK'
      BY <1>4, <2>1, SendMoves DEF TypeOK, ReceiveLagged
  <2> QED  BY <2>1, <2>2, SendKeeps
<1>5. CASE StreamEnds \/ StopOnCancel
  <2>1. /\ Send(Channels) /\ cursor' = cursor /\ call' = call
        /\ neighbors' \subseteq neighbors
      BY <1>5 DEF StreamEnds, StopOnCancel, Stop
  <2>2. TypeOK'
      BY <1>5, <2>1, SendMoves DEF TypeOK, StreamEnds, StopOnCancel, Stop
  <2> QED  BY <2>1, <2>2, SendKeeps
<1> QED  BY <1>1, <1>2, <1>3, <1>4, <1>5 DEF Actor

\* The handles' steps that take nothing from a channel.
LEMMA HandleKeeps ==
    ASSUME IInv, NEW h \in Handles, Use(h) \/ AnswerJoined(h)
    PROVE  IInv'
<1> USE DEF IInv
<1>1. CASE Clone(h)
  <2>1. cursor' = [cursor EXCEPT ![h] = tail] /\ UNCHANGED actorVars
        /\ call' = [call EXCEPT ![h] = "idle"] /\ met' \in {met, met \cup {h}} /\ UNCHANGED result
      BY <1>1 DEF Clone
  <2>2. TypeOK'
      BY <2>1 DEF TypeOK, actorVars, Calls
  <2>3. CursorsBehind'
      BY <2>1 DEF TypeOK, CursorsBehind, actorVars
  <2>4. NoLostWakeup'
    <3> SUFFICES ASSUME NEW g \in Handles, call'[g] = "joining", neighbors' # {}
                 PROVE  Behind(g, "join")' > 0
        BY DEF NoLostWakeup
    <3>1. g # h /\ call[g] = "joining" /\ cursor'[g] = cursor[g]
        BY <2>1 DEF TypeOK
    <3> QED  BY <2>1, <3>1 DEF NoLostWakeup, Behind, actorVars
  <2> QED  BY <2>2, <2>3, <2>4
<1>2. CASE CallNext(h) \/ CallJoined(h) \/ Abandon(h)
  <2>1. TypeOK'
      BY <1>2 DEF TypeOK, CallNext, CallJoined, Abandon, actorVars, Calls, Results
  <2>2. CursorsBehind'
      BY <1>2 DEF CursorsBehind, CallNext, CallJoined, Abandon, actorVars
  <2>3. NoLostWakeup'
      BY <1>2 DEF TypeOK, NoLostWakeup, Behind, CallNext, CallJoined, Abandon,
                  actorVars
  <2> QED  BY <2>1, <2>2, <2>3
<1>3. CASE AnswerJoined(h)
  <2>1. TypeOK'
      BY <1>3 DEF TypeOK, AnswerJoined, actorVars, Calls, Results
  <2>2. CursorsBehind'
      BY <1>3 DEF CursorsBehind, AnswerJoined, actorVars
  <2>3. NoLostWakeup'
      BY <1>3 DEF TypeOK, NoLostWakeup, Behind, AnswerJoined, actorVars
  <2> QED  BY <2>1, <2>2, <2>3
<1> QED  BY <1>1, <1>2, <1>3 DEF Use

\* IInv is inductive.
THEOREM Inductive == Spec => []IInv
<1>1. Init => IInv
    BY InitIInv
<1>2. IInv /\ [Next]_vars => IInv'
  <2> SUFFICES ASSUME IInv, [Next]_vars PROVE IInv'
      OBVIOUS
  <2>1. CASE Actor
      BY <2>1, ActorKeeps
  <2>2. CASE Cancel \/ UNCHANGED vars
    <3>1. TypeOK'
        BY <2>2 DEF IInv, TypeOK, Cancel, vars, actorVars
    <3>2. CursorsBehind' /\ NoLostWakeup'
        BY <2>2 DEF IInv, CursorsBehind, NoLostWakeup, Behind, Cancel, vars, actorVars
    <3> QED  BY <3>1, <3>2 DEF IInv
  <2>3. ASSUME NEW h \in Handles, Progress(h) \/ Use(h) PROVE IInv'
    <3>1. CASE NextReturns(h) \/ JoinedReturns(h)
        BY <3>1, RecvKeeps DEF NextReturns, JoinedReturns, Channels
    <3>2. CASE Use(h) \/ AnswerJoined(h)
        BY <3>2, HandleKeeps
    <3> QED  BY <2>3, <3>1, <3>2 DEF Progress
  <2> QED  BY <2>1, <2>2, <2>3 DEF Next
<1> QED  BY <1>1, <1>2, PTL DEF Spec

\* The actor and its handles keep their types.
THEOREM TypeCorrect == Spec => []TypeOK
<1>1. IInv => TypeOK
    BY DEF IInv
<1> QED  BY <1>1, Inductive, PTL

\* No interleaving of NeighborUp with the two halves of joined() leaves a
\* handle asleep on a node that has a neighbor.
THEOREM NoWakeupIsLost == Spec => []NoLostWakeup
<1>1. IInv => NoLostWakeup
    BY DEF IInv
<1> QED  BY <1>1, Inductive, PTL

-----------------------------------------------------------------------------
\* A message enters the window as the last of its at most MaxMessageHashes.
LEMMA MessageKeepsWindow ==
    ASSUME TypeOK, HashWindow, ReceiveMessage
    PROVE  HashWindow'
<1>1. /\ MaxMessageHashes \in Nat \ {0}
      /\ hashes \in Seq(Messages) /\ received \in Seq(Messages)
    BY GossipReceiverAssumption DEF TypeOK
<1>2. PICK m \in Messages :
        /\ received' = Append(received, m)
        /\ hashes' = Append(IF Len(hashes) = MaxMessageHashes
                            THEN Tail(hashes) ELSE hashes, m)
    BY DEF ReceiveMessage
<1>3. /\ Len(received') = Len(received) + 1
      /\ \A i \in 1..Len(received) : received'[i] = received[i]
      /\ received'[Len(received) + 1] = m
      /\ Len(hashes) \in Nat /\ Len(received) \in Nat
    BY <1>1, <1>2
<1>4. CASE Len(hashes) = MaxMessageHashes
  <2>1. hashes # <<>> /\ hashes' = Append(Tail(hashes), m)
      BY <1>1, <1>2, <1>4
  <2>2. /\ Tail(hashes) \in Seq(Messages)
        /\ Len(Tail(hashes)) = Len(hashes) - 1
        /\ \A i \in 1..(Len(hashes) - 1) : Tail(hashes)[i] = hashes[i + 1]
      BY <1>1, <2>1
  <2>3. /\ Len(hashes') = Len(hashes)
        /\ \A i \in 1..(Len(hashes) - 1) : hashes'[i] = hashes[i + 1]
        /\ hashes'[Len(hashes)] = m
      BY <1>1, <1>3, <2>1, <2>2
  <2>4. Len(received) >= MaxMessageHashes
      BY <1>3, <1>4 DEF HashWindow
  <2>5. ASSUME NEW i \in 1..Len(hashes')
        PROVE  hashes'[i] = received'[Len(received') - Len(hashes') + i]
    <3>1. CASE i = Len(hashes)
        BY <1>3, <2>3, <3>1
    <3>2. CASE i # Len(hashes)
      <4>1. i + 1 \in 1..Len(hashes) /\ i \in 1..(Len(hashes) - 1)
          BY <1>3, <2>3, <3>2
      <4>2. hashes[i + 1] = received[Len(received) - Len(hashes) + (i + 1)]
          BY <4>1 DEF HashWindow
      <4>3. Len(received) - Len(hashes) + (i + 1) \in 1..Len(received)
          BY <1>1, <1>3, <1>4, <2>4, <4>1
      <4>4. Len(received') - Len(hashes') + i = Len(received) - Len(hashes) + (i + 1)
          BY <1>3, <2>3
      <4> QED  BY <1>3, <2>3, <4>1, <4>2, <4>3, <4>4
    <3> QED  BY <3>1, <3>2
  <2> QED  BY <1>1, <1>3, <1>4, <2>3, <2>4, <2>5 DEF HashWindow
<1>5. CASE Len(hashes) # MaxMessageHashes
  <2>1. hashes' = Append(hashes, m) /\ Len(hashes) = Len(received)
      BY <1>1, <1>2, <1>3, <1>5 DEF HashWindow
  <2>2. /\ Len(hashes') = Len(hashes) + 1
        /\ \A i \in 1..Len(hashes) : hashes'[i] = hashes[i]
        /\ hashes'[Len(hashes) + 1] = m
      BY <1>1, <2>1
  <2>3. Len(hashes) < MaxMessageHashes
      BY <1>1, <1>3, <1>5, <2>1 DEF HashWindow
  <2>4. ASSUME NEW i \in 1..Len(hashes')
        PROVE  hashes'[i] = received'[Len(received') - Len(hashes') + i]
    <3>1. Len(received') - Len(hashes') + i = i
        BY <1>3, <2>1, <2>2
    <3>2. CASE i = Len(hashes) + 1
        BY <1>3, <2>1, <2>2, <3>1, <3>2
    <3>3. CASE i # Len(hashes) + 1
      <4>1. i \in 1..Len(hashes)
          BY <1>3, <2>2, <3>3
      <4>2. hashes[i] = received[i]
          BY <1>3, <2>1, <4>1 DEF HashWindow
      <4> QED  BY <1>3, <2>1, <2>2, <3>1, <4>1, <4>2
    <3> QED  BY <3>2, <3>3
  <2> QED  BY <1>1, <1>3, <2>1, <2>2, <2>3, <2>4 DEF HashWindow
<1> QED  BY <1>4, <1>5

\* After any number of messages the published hashes are those of the last
\* MAX_MESSAGE_HASHES of them, oldest first.
THEOREM WindowCorrect == Spec => []HashWindow
<1>1. Init => HashWindow
    BY GossipReceiverAssumption DEF Init, HashWindow
<1>2. TypeOK /\ HashWindow /\ [Next]_vars => HashWindow'
  <2> SUFFICES ASSUME TypeOK, HashWindow, [Next]_vars PROVE HashWindow'
      OBVIOUS
  <2>1. CASE ReceiveMessage
      BY <2>1, MessageKeepsWindow
  <2>2. ASSUME ~ReceiveMessage PROVE UNCHANGED <<hashes, received>>
      BY <2>2 DEF Next, Actor, ReceiveNeighborUp, ReceiveNeighborDown,
             ReceiveLagged, StreamEnds, StopOnCancel, Stop, Cancel, Progress,
             Use, NextReturns, AnswerJoined, JoinedReturns, Recv, Clone,
             CallNext, CallJoined, Abandon, vars, actorVars
  <2> QED  BY <2>1, <2>2 DEF HashWindow
<1> QED  BY <1>1, <1>2, TypeCorrect, PTL DEF Spec
-----------------------------------------------------------------------------
\* What joined() takes for a join on the channel of handle h: every value the
\* handle has not taken, but for the None of an actor that has ended.
Pending(h) == tail["join"] - cursor[h]["join"] > IF up THEN 0 ELSE 1

\* A handle with a join to report, or on a node with a neighbor, has met one.
MetInv ==
    \A h \in Handles :
        (call[h] # "absent" /\ (neighbors # {} \/ Pending(h))) => h \in met

\* Events: a join event is met by every handle there is, another one adds
\* nothing to the join channel.
LEMMA EventKeepsMet ==
    ASSUME IInv, MetInv,
           ReceiveNeighborUp \/ ReceiveNeighborDown \/ ReceiveMessage \/ ReceiveLagged
    PROVE  MetInv'
<1>1. CASE ReceiveNeighborUp \/ ReceiveMessage
    BY <1>1 DEF MetInv, ReceiveNeighborUp, ReceiveMessage, Meet
<1>2. CASE ReceiveNeighborDown \/ ReceiveLagged
  <2>1. /\ UNCHANGED <<up, cursor, call, met>>
        /\ neighbors' \subseteq neighbors
        /\ tail'["join"] = tail["join"]
      BY <1>2 DEF ReceiveNeighborDown, ReceiveLagged, Send, Channels
  <2> QED  BY <2>1 DEF MetInv, Pending
<1> QED  BY <1>1, <1>2

\* The end of the actor adds None, which is not pending.
LEMMA StopKeepsMet ==
    ASSUME IInv, MetInv, StreamEnds \/ StopOnCancel
    PROVE  MetInv'
<1>1. /\ up /\ ~up' /\ UNCHANGED <<neighbors, cursor, call, met>>
      /\ tail'["join"] = tail["join"] + 1
    BY DEF StreamEnds, StopOnCancel, Stop, Send, Channels
<1>2. ASSUME NEW h \in Handles, Pending(h)'
      PROVE  Pending(h)
  <2>1. tail["join"] \in Nat /\ cursor[h]["join"] \in Nat
      BY DEF IInv, TypeOK, Channels
  <2> QED  BY <1>1, <1>2, <2>1 DEF Pending
<1> QED  BY <1>1, <1>2 DEF MetInv

\* recv() and Clone only bring a cursor closer to its channel's tail.
LEMMA CursorKeepsMet ==
    ASSUME IInv, MetInv, NEW h \in Handles,
           NextReturns(h) \/ JoinedReturns(h) \/ Clone(h)
    PROVE  MetInv'
<1>1. /\ tail \in [Channels -> Nat] /\ cursor \in [Handles -> [Channels -> Nat]]
      /\ call \in [Handles -> Calls] /\ ChannelCap \in Nat \ {0}
    BY GossipReceiverAssumption DEF IInv, TypeOK
<1>2. CASE NextReturns(h) \/ JoinedReturns(h)
  <2>1. PICK c \in Channels : Recv(h, c) /\ call[h] # "absent"
      BY <1>2 DEF NextReturns, JoinedReturns, Channels
  <2>2. UNCHANGED <<up, neighbors, tail, met>>
      BY <2>1 DEF Recv, actorVars
  <2>3. ASSUME NEW g \in Handles, call'[g] # "absent", Pending(g)'
        PROVE  call[g] # "absent" /\ Pending(g)
    <3>1. call[g] # "absent"
        BY <1>1, <2>1, <2>3 DEF Recv
    <3>2. CASE g # h \/ c # "join"
      <4>1. cursor'[g]["join"] = cursor[g]["join"]
          BY <1>1, <2>1, <3>2 DEF Recv, Channels
      <4> QED  BY <2>2, <2>3, <3>1, <4>1 DEF Pending
    <3>3. CASE g = h /\ c = "join"
      <4>1. /\ tail["join"] \in Nat /\ cursor[h]["join"] \in Nat
            /\ cursor[h]["join"] <= tail["join"]
          BY <1>1 DEF IInv, CursorsBehind, Channels
      <4>2. cursor'[h]["join"] =
                IF Behind(h, "join") > ChannelCap THEN tail["join"] - ChannelCap
                ELSE IF Behind(h, "join") = 0 THEN cursor[h]["join"]
                ELSE cursor[h]["join"] + 1
          BY <1>1, <2>1, <3>3 DEF Recv, Channels
      <4>3. cursor'[h]["join"] >= cursor[h]["join"]
          BY <1>1, <4>1, <4>2 DEF Behind
      <4>4. cursor'[h]["join"] \in Int
          BY <1>1, <4>1, <4>2 DEF Behind
      <4> QED  BY <2>2, <2>3, <3>1, <3>3, <4>1, <4>3, <4>4 DEF Pending
    <3> QED  BY <3>2, <3>3
  <2>4. \A g \in Handles : call'[g] # "absent" => call[g] # "absent"
      BY <1>1, <2>1 DEF Recv
  <2> QED  BY <2>2, <2>3, <2>4 DEF MetInv
<1>3. CASE Clone(h)
  <2>1. /\ UNCHANGED <<up, neighbors, tail>> /\ met \subseteq met'
        /\ neighbors # {} => h \in met'
        /\ cursor' = [cursor EXCEPT ![h] = tail]
        /\ call' = [call EXCEPT ![h] = "idle"]
      BY <1>3 DEF Clone, actorVars
  <2>2. ~Pending(h)'
    <3>1. tail["join"] \in Nat /\ cursor'[h]["join"] = tail["join"]
        BY <1>1, <2>1 DEF Channels
    <3> QED  BY <2>1, <3>1 DEF Pending
  <2>3. ASSUME NEW g \in Handles, g # h
        PROVE  call'[g] = call[g] /\ (Pending(g)' <=> Pending(g))
      BY <1>1, <2>1, <2>3 DEF Pending
  <2> QED  BY <2>1, <2>2, <2>3 DEF MetInv
<1> QED  BY <1>2, <1>3

\* Every step keeps MetInv.
LEMMA MetStep == IInv /\ MetInv /\ [Next]_vars => MetInv'
<1> SUFFICES ASSUME IInv, MetInv, [Next]_vars PROVE MetInv'
    OBVIOUS
<1>1. CASE Actor
    BY <1>1, EventKeepsMet, StopKeepsMet DEF Actor
<1>2. CASE Cancel \/ UNCHANGED vars
    BY <1>2 DEF MetInv, Pending, Cancel, vars, actorVars
<1>3. ASSUME NEW h \in Handles, Progress(h) \/ Use(h) PROVE MetInv'
  <2>1. CASE NextReturns(h) \/ JoinedReturns(h) \/ Clone(h)
      BY <2>1, CursorKeepsMet
  <2>2. CASE AnswerJoined(h) \/ CallNext(h) \/ CallJoined(h) \/ Abandon(h)
    <3>1. UNCHANGED <<up, neighbors, tail, cursor, met>>
        BY <2>2 DEF AnswerJoined, CallNext, CallJoined, Abandon, actorVars
    <3>2. \A g \in Handles : call'[g] # "absent" => call[g] # "absent"
        BY <2>2 DEF AnswerJoined, CallNext, CallJoined, Abandon, IInv, TypeOK
    <3> QED  BY <3>1, <3>2 DEF MetInv, Pending
  <2> QED  BY <1>3, <2>1, <2>2 DEF Progress, Use
<1> QED  BY <1>1, <1>2, <1>3 DEF Next

\* An Ok of joined() comes from a neighbor or from a pending join event.
LEMMA OkFromMet ==
    ASSUME IInv, MetInv, Next, NEW h \in Handles,
           call[h] \in {"asking", "joining"}, result'[h] = "ok", result[h] # "ok"
    PROVE  h \in met
<1>1. call[h] # "absent" /\ result \in [Handles -> Results]
    BY DEF IInv, TypeOK
<1>2. AnswerJoined(h) \/ JoinedReturns(h)
  <2>1. result' # result
      OBVIOUS
  <2>2. ~Actor /\ ~Cancel
      BY <2>1 DEF Actor, Cancel, ReceiveNeighborUp, ReceiveNeighborDown,
                  ReceiveMessage, ReceiveLagged, StreamEnds, StopOnCancel, Stop
  <2>3. PICK g \in Handles : Progress(g) \/ Use(g)
      BY <2>2 DEF Next
  <2>4. g = h
      BY <1>1, <2>1, <2>3 DEF Progress, Use, NextReturns, AnswerJoined, JoinedReturns,
                         Recv, Clone, CallNext, CallJoined, Abandon
  <2> QED  BY <2>1, <2>3, <2>4 DEF Progress, Use, NextReturns, Clone, CallNext,
                                   CallJoined, Abandon
<1>3. CASE AnswerJoined(h)
  <2>1. neighbors # {}
      BY <1>1, <1>3 DEF AnswerJoined
  <2> QED  BY <1>1, <2>1 DEF MetInv
<1>4. CASE JoinedReturns(h)
  <2>1. Outcome(h, "join") = "ok"
      BY <1>1, <1>4 DEF JoinedReturns, Recv
  <2>2. tail["join"] \in Nat /\ cursor[h]["join"] \in Nat
        /\ cursor[h]["join"] <= tail["join"]
      BY DEF IInv, TypeOK, CursorsBehind, Channels
  <2>3. Behind(h, "join") # 0 /\ ~(Behind(h, "join") = 1 /\ ~up)
      BY <2>1, <2>2, GossipReceiverAssumption DEF Outcome, Disconnected, Behind
  <2>4. Pending(h)
      BY <2>2, <2>3 DEF Behind, Pending
  <2> QED  BY <1>1, <2>4 DEF MetInv
<1> QED  BY <1>2, <1>3, <1>4

\* joined() returns Ok only for a neighbor or a message the node has had since
\* the handle subscribed: neither the None of a topic that ended nor a lag
\* passes for a join.
THEOREM JoinedOk == Spec => JoinedOkIsEarned
<1>1. Init => MetInv
    BY GossipReceiverAssumption DEF Init, MetInv, Pending, Channels
<1>2. IInv /\ MetInv /\ [Next]_vars => MetInv'
    BY MetStep
<1>3. IInv /\ MetInv /\ [Next]_vars =>
          [\A h \in Handles :
              (call[h] \in {"asking", "joining"} /\ result'[h] = "ok"
                  /\ result[h] # "ok") => h \in met]_vars
    BY OkFromMet
<1> QED  BY <1>1, <1>2, <1>3, Inductive, PTL DEF Spec, JoinedOkIsEarned

-----------------------------------------------------------------------------
\* What an event of the stream does to the neighbors is, to the topic, a first
\* neighbor, the loss of the last one, or nothing.
LEMMA EventStep ==
    ASSUME TypeOK,
           ReceiveNeighborUp \/ ReceiveNeighborDown \/ ReceiveMessage \/ ReceiveLagged
    PROVE  [Contract!Next]_(Contract!vars)
<1>1. up = TRUE /\ UNCHANGED <<up, cancelled>>
    BY DEF ReceiveNeighborUp, ReceiveNeighborDown, ReceiveMessage, ReceiveLagged,
           MayDeliver, TypeOK
<1>2. CASE (neighbors' # {}) = (neighbors # {})
    BY <1>1, <1>2 DEF Contract!vars
<1>3. CASE neighbors = {} /\ neighbors' # {}
    BY <1>1, <1>3 DEF Contract!Next, Contract!NeighborUp
<1>4. CASE neighbors # {} /\ neighbors' = {}
    BY <1>1, <1>4 DEF Contract!Next, Contract!NeighborDown
<1> QED  BY <1>2, <1>3, <1>4

\* The actor never ends without the token.
LEMMA EndStep ==
    ASSUME TypeOK, StreamEnds \/ StopOnCancel
    PROVE  [Contract!Next]_(Contract!vars)
<1>1. /\ up = TRUE /\ up' = FALSE /\ cancelled' = TRUE
      /\ neighbors' = neighbors /\ cancelled \in BOOLEAN
    BY DEF StreamEnds, StopOnCancel, Stop, TypeOK
<1>2. CASE cancelled
    BY <1>1, <1>2 DEF Contract!Next, Contract!Stop
<1>3. CASE ~cancelled
    BY <1>1, <1>3 DEF Contract!Next, Contract!StreamEnds
<1> QED  BY <1>2, <1>3

\* A step of the receiver and its handles is a step of the contract, or none.
LEMMA ContractStep == IInv /\ [Next]_vars => [Contract!Next]_(Contract!vars)
<1> SUFFICES ASSUME IInv, [Next]_vars PROVE [Contract!Next]_(Contract!vars)
    OBVIOUS
<1>1. CASE Actor
    BY <1>1, EventStep, EndStep DEF Actor, IInv
<1>2. CASE Cancel
    BY <1>2 DEF Cancel, Contract!Next, Contract!Cancel
<1>3. ASSUME NEW h \in Handles, Progress(h) \/ Use(h)
      PROVE  [Contract!Next]_(Contract!vars)
  <2>1. UNCHANGED <<up, cancelled, neighbors>>
      BY <1>3 DEF Progress, Use, NextReturns, AnswerJoined, JoinedReturns, Recv,
                  Clone, CallNext, CallJoined, Abandon, actorVars
  <2> QED  BY <2>1 DEF Contract!vars
<1>4. CASE UNCHANGED vars
    BY <1>4 DEF vars, actorVars, Contract!vars
<1> QED  BY <1>1, <1>2, <1>3, <1>4 DEF Next

\* The receiver actor, with its channels, its events and any number of handles,
\* keeps what the topic relies on: the safety half of MeetsContract.
THEOREM ImplementsContract == Spec => Contract!Spec
<1>1. Init => Contract!Init
    BY DEF Init, Contract!Init
<1> QED  BY <1>1, ContractStep, Inductive, PTL DEF Spec, Contract!Spec
=============================================================================
