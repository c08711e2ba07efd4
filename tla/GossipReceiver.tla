---------------------------- MODULE GossipReceiver ----------------------------
(***************************************************************************)
(* The receiving side of a topic (gossip/receiver.rs): one actor consumes  *)
(* the gossip stream, keeps the neighbor set and the recent message        *)
(* hashes, and forwards every event over two tokio broadcast channels,     *)
(* "next" (all events) and "join" (NeighborUp and Received).  Any number   *)
(* of GossipReceiver handles wait on them with next() and joined().        *)
(*                                                                         *)
(* A broadcast channel (external) numbers what is sent; a handle has a     *)
(* cursor per channel.  It keeps the last ChannelCap values: a handle that *)
(* is further behind gets Lagged once and continues with the oldest value  *)
(* kept.  The senders belong to the actor; when it ends, it has sent None  *)
(* and the channels are closed behind it.                                  *)
(***************************************************************************)
EXTENDS Integers, Sequences

CONSTANTS
    Handles,            \* GossipReceiver values, the clones included
    First,              \* the handle GossipReceiver::new returns
    Peers,              \* possible neighbors
    Messages,           \* message contents, told apart by their hash
    ChannelCap,         \* capacity of the broadcast channels (64)
    MaxMessageHashes,   \* MAX_MESSAGE_HASHES (5)
    MaxEvents           \* bound: events the gossip stream delivers

ASSUME GossipReceiverAssumption ==
    /\ First \in Handles
    /\ ChannelCap \in Nat \ {0}
    /\ MaxMessageHashes \in Nat \ {0}
    /\ MaxEvents \in Nat

Channels == {"next", "join"}

VARIABLES
    up,         \* the actor runs
    cancelled,  \* the topic's cancel token
    neighbors,  \* neighbors of the consumed gossip stream
    hashes,     \* last_message_hashes
    received,   \* ghost: every message received, in order
    tail,       \* values sent on each channel so far, None included
    cursor,     \* values each handle has taken or skipped, by channel
    call,       \* what each handle is doing
    result,     \* what its last call returned, none once the next one begins
    met         \* ghost: the handles since whose subscription the node had a
                \*        neighbor or received a message

actorVars == <<up, cancelled, neighbors, hashes, received, tail>>
vars == <<actorVars, cursor, call, result, met>>

Calls   == {"absent", "idle", "next", "asking", "joining"}
Results == {"none", "ok", "closed", "lagged"}

TypeOK ==
    /\ up \in BOOLEAN
    /\ cancelled \in BOOLEAN
    /\ neighbors \subseteq Peers
    /\ hashes \in Seq(Messages)
    /\ received \in Seq(Messages)
    /\ tail \in [Channels -> Nat]
    /\ cursor \in [Handles -> [Channels -> Nat]]
    /\ call \in [Handles -> Calls]
    /\ result \in [Handles -> Results]
    /\ met \subseteq Handles

Init ==
    /\ up = TRUE
    /\ cancelled = FALSE
    /\ neighbors = {}
    /\ hashes = <<>>
    /\ received = <<>>
    /\ tail = [c \in Channels |-> 0]
    /\ cursor = [h \in Handles |-> [c \in Channels |-> 0]]
    /\ call = [h \in Handles |-> IF h = First THEN "idle" ELSE "absent"]
    /\ result = [h \in Handles |-> "none"]
    /\ met = {}

-----------------------------------------------------------------------------
\* The actor (GossipReceiverActor::run).

\* A value is sent on the channels C; handles without a subscription miss it.
Send(C) == tail' = [c \in Channels |-> IF c \in C THEN tail[c] + 1 ELSE tail[c]]

\* Every handle there is has seen the node joined.
Meet == met' = {h \in Handles : call[h] # "absent"}

MayDeliver == up /\ tail["next"] < MaxEvents

\* Mutant of ReceiveNeighborUp: only messages count as join events.
ReceiveNeighborUpSilent ==
    /\ MayDeliver
    /\ \E p \in Peers \ neighbors : neighbors' = neighbors \cup {p}
    /\ Send({"next"})
    /\ Meet
    /\ UNCHANGED <<up, cancelled, hashes, received, cursor, call, result>>

ReceiveNeighborUp ==
    /\ MayDeliver
    /\ \E p \in Peers \ neighbors : neighbors' = neighbors \cup {p}
    /\ Send({"join", "next"})
    /\ Meet
    /\ UNCHANGED <<up, cancelled, hashes, received, cursor, call, result>>

ReceiveNeighborDown ==
    /\ MayDeliver
    /\ \E p \in neighbors : neighbors' = neighbors \ {p}
    /\ Send({"next"})
    /\ UNCHANGED <<up, cancelled, hashes, received, cursor, call, result, met>>

\* Mutant of ReceiveMessage: the window drops its newest hash.
ReceiveMessagePopBack ==
    /\ MayDeliver
    /\ \E m \in Messages :
        /\ received' = Append(received, m)
        /\ hashes' = Append(IF Len(hashes) = MaxMessageHashes
                            THEN SubSeq(hashes, 1, Len(hashes) - 1) ELSE hashes, m)
    /\ Send({"join", "next"})
    /\ Meet
    /\ UNCHANGED <<up, cancelled, neighbors, cursor, call, result>>

\* A message: its hash enters the window, the oldest leaves a full one.
ReceiveMessage ==
    /\ MayDeliver
    /\ \E m \in Messages :
        /\ received' = Append(received, m)
        /\ hashes' = Append(IF Len(hashes) = MaxMessageHashes
                            THEN Tail(hashes) ELSE hashes, m)
    /\ Send({"join", "next"})
    /\ Meet
    /\ UNCHANGED <<up, cancelled, neighbors, cursor, call, result>>

\* The stream reports that it lost events; the report is forwarded.
ReceiveLagged ==
    /\ MayDeliver
    /\ Send({"next"})
    /\ UNCHANGED <<up, cancelled, neighbors, hashes, received, cursor, call,
                   result, met>>

\* The actor ends: None on both channels, whose senders go with the actor.
Stop ==
    /\ up' = FALSE
    /\ Send(Channels)
    /\ UNCHANGED <<neighbors, hashes, received, cursor, call, result, met>>

\* Mutant of StreamEnds: the end of the stream does not end the topic.
StreamEndsAlone == up /\ Stop /\ UNCHANGED cancelled

\* The stream ends or fails.
StreamEnds == up /\ cancelled' = TRUE /\ Stop

\* The branch of select! for the token.
StopOnCancel == up /\ cancelled /\ Stop /\ UNCHANGED cancelled

\* Someone else cancels the topic.
Cancel ==
    /\ ~cancelled
    /\ cancelled' = TRUE
    /\ UNCHANGED <<up, neighbors, hashes, received, tail, cursor, call, result,
                   met>>

-----------------------------------------------------------------------------
\* The handles.

\* Mutant of Disconnected: the handles own senders too, so that the channels
\* outlive the actor.
DisconnectedNever == FALSE

\* The senders are only owned by the actor: handles hold weak ones.
Disconnected == ~up

Behind(h, c) == tail[c] - cursor[h][c]

\* Mutant of Outcome: None counts as an event.
OutcomeNoneIsEvent(h, c) ==
    CASE Behind(h, c) = 0          -> "closed"
      [] Behind(h, c) > ChannelCap -> "lagged"
      [] OTHER                     -> "ok"

\* What recv() of a channel returns when it does not block.
Outcome(h, c) ==
    CASE Behind(h, c) = 0                      -> "closed"
      [] Behind(h, c) > ChannelCap             -> "lagged"
      [] Behind(h, c) = 1 /\ Disconnected      -> "closed"   \* None
      [] OTHER                                 -> "ok"

\* Mutant of Recv: the skipped distance is subtracted the wrong way round.
RecvSwapped(h, c) ==
    /\ Behind(h, c) > 0 \/ Disconnected
    /\ cursor' = [cursor EXCEPT ![h][c] =
                    IF Behind(h, c) > ChannelCap THEN ChannelCap - tail[c]
                    ELSE IF Behind(h, c) = 0 THEN @ ELSE @ + 1]
    /\ result' = [result EXCEPT ![h] = Outcome(h, c)]
    /\ call' = [call EXCEPT ![h] = "idle"]
    /\ UNCHANGED <<actorVars, met>>

\* The recv() at the end of next() and of joined().
Recv(h, c) ==
    /\ Behind(h, c) > 0 \/ Disconnected
    /\ cursor' = [cursor EXCEPT ![h][c] =
                    IF Behind(h, c) > ChannelCap THEN tail[c] - ChannelCap
                    ELSE IF Behind(h, c) = 0 THEN @ ELSE @ + 1]
    /\ result' = [result EXCEPT ![h] = Outcome(h, c)]
    /\ call' = [call EXCEPT ![h] = "idle"]
    /\ UNCHANGED <<actorVars, met>>

\* Clone: the new handle subscribes behind what has been sent, or, without
\* an actor, gets a closed channel, which behaves the same.
Clone(h) ==
    /\ call[h] = "absent"
    /\ cursor' = [cursor EXCEPT ![h] = tail]
    /\ call' = [call EXCEPT ![h] = "idle"]
    /\ met' = IF neighbors # {} THEN met \cup {h} ELSE met
    /\ UNCHANGED <<actorVars, result>>

CallNext(h) ==
    /\ call[h] = "idle"
    /\ call' = [call EXCEPT ![h] = "next"]
    /\ result' = [result EXCEPT ![h] = "none"]
    /\ UNCHANGED <<actorVars, cursor, met>>

NextReturns(h) == call[h] = "next" /\ Recv(h, "next")

\* joined() first asks the actor is_joined().
CallJoined(h) ==
    /\ call[h] = "idle"
    /\ call' = [call EXCEPT ![h] = "asking"]
    /\ result' = [result EXCEPT ![h] = "none"]
    /\ UNCHANGED <<actorVars, cursor, met>>

\* The actor answers: joined returns at once, otherwise the handle goes on to
\* the join channel; without an actor the call fails.
AnswerJoined(h) ==
    /\ call[h] = "asking"
    /\ \/ /\ up /\ neighbors # {}
          /\ result' = [result EXCEPT ![h] = "ok"]
          /\ call' = [call EXCEPT ![h] = "idle"]
       \/ /\ up /\ neighbors = {}
          /\ call' = [call EXCEPT ![h] = "joining"]
          /\ UNCHANGED result
       \/ /\ ~up
          /\ result' = [result EXCEPT ![h] = "closed"]
          /\ call' = [call EXCEPT ![h] = "idle"]
    /\ UNCHANGED <<actorVars, cursor, met>>

JoinedReturns(h) == call[h] = "joining" /\ Recv(h, "join")

\* A select! around next() or joined() takes another branch and drops the
\* future; the cursors stay where they are.
Abandon(h) ==
    /\ call[h] \in {"next", "asking", "joining"}
    /\ call' = [call EXCEPT ![h] = "idle"]
    /\ UNCHANGED <<actorVars, cursor, result, met>>

-----------------------------------------------------------------------------
Actor ==
    \/ ReceiveNeighborUp \/ ReceiveNeighborDown \/ ReceiveMessage
    \/ ReceiveLagged \/ StreamEnds \/ StopOnCancel

Progress(h) == NextReturns(h) \/ AnswerJoined(h) \/ JoinedReturns(h)

Use(h) == Clone(h) \/ CallNext(h) \/ CallJoined(h) \/ Abandon(h)

Next ==
    \/ Actor
    \/ Cancel
    \/ \E h \in Handles : Progress(h) \/ Use(h)

Spec == Init /\ [][Next]_vars

\* The actor takes the token's branch of its select! in the end (the branches
\* are polled in random order), and a call that can return does.
FairSpec ==
    /\ Spec
    /\ WF_vars(StopOnCancel)
    /\ \A h \in Handles : WF_vars(Progress(h))

-----------------------------------------------------------------------------
\* No lost wakeup between is_joined() and the recv() of joined(): a handle
\* that was told "not joined" and waits has a value to take as soon as the
\* node has a neighbor.
NoLostWakeup ==
    \A h \in Handles :
        (call[h] = "joining" /\ neighbors # {}) => Behind(h, "join") > 0

\* The hashes the node publishes are those of its last MAX_MESSAGE_HASHES
\* messages, oldest first.
HashWindow ==
    /\ Len(hashes) = IF Len(received) < MaxMessageHashes
                     THEN Len(received) ELSE MaxMessageHashes
    /\ \A i \in 1..Len(hashes) :
        hashes[i] = received[Len(received) - Len(hashes) + i]

\* A topic that is shut down leaves no handle waiting: late calls, late clones
\* and handles that lag behind end as well.
NobodyHangs ==
    \A h \in Handles :
        (cancelled /\ call[h] \in {"next", "asking", "joining"}) ~> call[h] = "idle"

\* The topic around the receiver may rely on the contract: what the node knows of
\* its neighbors while the actor runs, that the actor never ends without the
\* token, and that it ends for certain after a cancellation.
Contract == INSTANCE ReceiverContract WITH neighbor <- neighbors # {}

MeetsContract == Contract!FairSpec

\* "Waits for a NeighborUp or a message Received event then returns `Ok(())`."
\* (receiver.rs:156): joined() never takes the end of the topic, or the skipping
\* of a lag, for a join: it returns Ok only if the node had a neighbor or
\* received a message since the handle subscribed.
JoinedOkIsEarned ==
    [][\A h \in Handles :
        (call[h] \in {"asking", "joining"} /\ result'[h] = "ok"
            /\ result[h] # "ok") => h \in met]_vars
=============================================================================
