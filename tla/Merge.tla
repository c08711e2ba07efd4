-------------------------------- MODULE Merge --------------------------------
(***************************************************************************)
(* The background workers that keep a swarm together: on every node the    *)
(* Publisher (topic/publisher.rs) advertises neighbors and message hashes  *)
(* in DHT records, and BubbleMerge (merge/bubble.rs) and                   *)
(* MessageOverlapMerge (merge/message_overlap.rs) read the records of the  *)
(* last two minutes and ask gossip to join the peers they name.            *)
(*                                                                         *)
(* The DHT keeps records by minute; ages count minutes back from now.      *)
(* Counting and storing a record is the subject of RecordPublisher, and    *)
(* how workers start and stop of TopicLifecycle; here a put stores the     *)
(* record, which may displace others of its minute, or stores nothing.     *)
(*                                                                         *)
(* Whatever the environment does wrong (a link lost, a lookup that fails   *)
(* or misses records, a put or a join that comes to nothing) counts as one *)
(* of at most MaxFaults faults.                                            *)
(***************************************************************************)
EXTENDS Integers, FiniteSets, Sequences

CONSTANTS
    Nodes,             \* the members of the topic
    Mortal,            \* the nodes that may leave it
    Publishers,        \* the nodes whose Publisher is enabled
    BubbleMergers,     \* the nodes whose BubbleMerge is enabled
    OverlapMergers,    \* the nodes whose MessageOverlapMerge is enabled
    Messages,          \* message hashes
    ZeroPeer,          \* [0; 32], an empty slot of active_peers
    ZeroHash,          \* [0; 32], an empty slot of last_message_hashes
    FirstLinks,        \* the connections at the start
    MinNeighbors,      \* min_neighbors
    MaxJoinPeers,      \* max_join_peers
    MaxRecords,        \* max_bootstrap_records; 0 starts no Publisher
    MaxRecordPeers,    \* MAX_RECORD_PEERS (5)
    MaxMessageHashes,  \* MAX_MESSAGE_HASHES (5)
    MaxLag,            \* bound: minutes that pass during one worker's tick
    MaxTicks,          \* bound: ticks of a Publisher in a minute
    MaxFaults          \* bound: faults of the environment

ASSUME MergeAssumption ==
    /\ IsFiniteSet(Nodes)
    /\ Mortal \subseteq Nodes
    /\ Publishers \subseteq Nodes
    /\ BubbleMergers \subseteq Nodes
    /\ OverlapMergers \subseteq Nodes
    /\ ZeroPeer \notin Nodes
    /\ ZeroHash \notin Messages
    /\ FirstLinks \subseteq {e \in SUBSET Nodes : Cardinality(e) = 2}
    /\ MinNeighbors \in Nat
    /\ MaxJoinPeers \in Nat \ {0}
    /\ MaxRecords \in Nat \ {0}
    /\ MaxRecordPeers \in Nat \ {0}
    /\ MaxMessageHashes \in Nat \ {0}
    /\ MaxLag \in Nat
    /\ MaxTicks \in Nat \ {0}
    /\ MaxFaults \in Nat

Links == {{a, b} : a, b \in Nodes}

\* GossipRecordContent and its publisher; the fixed arrays as sets.
Record == [pub    : Nodes,
           peers  : SUBSET (Nodes \cup {ZeroPeer}),
           hashes : SUBSET (Messages \cup {ZeroHash})]

\* The merge workers: <<n, "bubble">> and <<n, "overlap">>.
Mergers == (BubbleMergers \X {"bubble"}) \cup (OverlapMergers \X {"overlap"})

\* unix_minute - 1 of a worker that is MaxLag minutes late is MaxLag + 1 old.
Ages == 0 .. MaxLag + 1

VARIABLES
    gone,       \* nodes that left; their workers have ended
    links,      \* gossip connections, each the set of its two ends
    unsent,     \* messages nobody has broadcast yet
    window,     \* last_message_hashes of every node
    stored,     \* the records on the DHT by age of their minute
    ticked,     \* how many ticks a Publisher began in this minute
    pub,        \* what the Publisher of a node is doing
    job,        \* what a merge worker is doing
    faults      \* faults so far

vars == <<gone, links, unsent, window, stored, ticked, pub, job, faults>>

PubIdle == [pc |-> "idle", age |-> 0, peers |-> {}, hashes |-> {}]

JobIdle == [pc |-> "idle", age |-> 0, records |-> {}, local |-> {},
            targets |-> {}]

PubJob == [pc     : {"idle", "neighbors", "hashes", "put"},
           age    : 0 .. MaxLag,
           peers  : SUBSET (Nodes \cup {ZeroPeer}),
           hashes : SUBSET (Messages \cup {ZeroHash})]

MergeJob == [pc      : {"idle", "older", "newer", "compare", "neighbors",
                        "joining"},
             age     : 0 .. MaxLag,
             records : SUBSET Record,
             local   : SUBSET Messages,
             targets : SUBSET (Nodes \cup {ZeroPeer})]

TypeOK ==
    /\ gone \subseteq Mortal
    /\ links \subseteq Links
    /\ unsent \subseteq Messages
    /\ window \in [Nodes -> Seq(Messages)]
    /\ stored \in [Ages -> SUBSET Record]
    /\ ticked \in [Publishers -> 0 .. MaxTicks]
    /\ pub \in [Publishers -> PubJob]
    /\ job \in [Mergers -> MergeJob]
    /\ faults \in 0 .. MaxFaults

Init ==
    /\ gone = {}
    /\ links = FirstLinks
    /\ unsent = Messages
    /\ window = [n \in Nodes |-> <<>>]
    /\ stored = [k \in Ages |-> {}]
    /\ ticked = [n \in Publishers |-> 0]
    /\ pub = [n \in Publishers |-> PubIdle]
    /\ job = [w \in Mergers |-> JobIdle]
    /\ faults = 0

-----------------------------------------------------------------------------
Neighbors(n) == {k \in Nodes \ {n} : {n, k} \in links}

Hashes(n) == {window[n][i] : i \in DOMAIN window[n]}

\* The nodes a message of n can reach: n's side of the swarm.  Sides are small
\* and a path has at most Cardinality(Nodes) - 1 links.
Side(n) ==
    LET within[k \in Nat] ==
            IF k = 0 THEN {n}
            ELSE within[k - 1] \cup UNION {Neighbors(a) : a \in within[k - 1]}
    IN  within[Cardinality(Nodes) - 1]

MayFail == faults < MaxFaults
Fault   == MayFail /\ faults' = faults + 1
NoFault == UNCHANGED faults

\* Put pads a set to the fixed size of its array.
Padded(S, size, zero) == IF Cardinality(S) < size THEN S \cup {zero} ELSE S

\* Any size elements of S, all of them if there are fewer.
Some(S, size) ==
    {T \in SUBSET S : Cardinality(T) = size}
        \cup (IF Cardinality(S) <= size THEN {S} ELSE {})

-----------------------------------------------------------------------------
\* The environment: gossip, the clock, and nodes that leave.

\* Gossip delivers a new message to some of the nodes it can reach; each
\* keeps the last MaxMessageHashes (GossipReceiver).
Broadcast(n) ==
    /\ n \notin gone
    /\ \E m \in unsent :
        \E R \in SUBSET (Side(n) \ (gone \cup {n})) :
            /\ unsent' = unsent \ {m}
            /\ window' = [k \in Nodes |->
                   IF k \notin R THEN window[k]
                   ELSE IF Len(window[k]) = MaxMessageHashes
                        THEN Append(Tail(window[k]), m)
                        ELSE Append(window[k], m)]
    /\ UNCHANGED <<gone, links, stored, ticked, pub, job, faults>>

\* A connection between two live nodes breaks.
LinkLost ==
    /\ Fault
    /\ \E e \in links : e \cap gone = {} /\ links' = links \ {e}
    /\ UNCHANGED <<gone, unsent, window, stored, ticked, pub, job>>

\* NeighborDown for a node that has left.
LinkDown ==
    /\ \E e \in links : e \cap gone # {} /\ links' = links \ {e}
    /\ UNCHANGED <<gone, unsent, window, stored, ticked, pub, job, faults>>

\* A node leaves: its workers end, its records stay on the DHT.
Leave(n) ==
    /\ n \in Mortal \ gone
    /\ gone' = gone \cup {n}
    /\ pub' = [k \in Publishers |-> IF k = n THEN PubIdle ELSE pub[k]]
    /\ job' = [w \in Mergers |-> IF w[1] = n THEN JobIdle ELSE job[w]]
    /\ UNCHANGED <<links, unsent, window, stored, ticked, faults>>

\* Mutant of Aged: an idle worker keeps the minute of its last tick.
AgedAlways(j) == [j EXCEPT !.age = @ + 1]

\* A worker that is at work gets a minute older.
Aged(j) == IF j.pc = "idle" THEN j ELSE [j EXCEPT !.age = @ + 1]

\* The clock enters the next minute.
NextMinute ==
    /\ \A n \in Publishers : pub[n].pc # "idle" => pub[n].age < MaxLag
    /\ \A w \in Mergers : job[w].pc # "idle" => job[w].age < MaxLag
    /\ stored' = [k \in Ages |-> IF k = 0 THEN {} ELSE stored[k - 1]]
    /\ ticked' = [n \in Publishers |-> 0]
    /\ pub' = [n \in Publishers |-> Aged(pub[n])]
    /\ job' = [w \in Mergers |-> Aged(job[w])]
    /\ UNCHANGED <<gone, links, unsent, window, faults>>

-----------------------------------------------------------------------------
\* Publisher.

\* The ticker fires: publish() reads the clock.
PublishTick(n) ==
    /\ n \notin gone
    /\ pub[n].pc = "idle"
    /\ ticked[n] < MaxTicks
    /\ pub' = [pub EXCEPT ![n] = [PubIdle EXCEPT !.pc = "neighbors"]]
    /\ ticked' = [ticked EXCEPT ![n] = @ + 1]
    /\ UNCHANGED <<gone, links, unsent, window, stored, job, faults>>

\* The receiver answers with its neighbors; at most five are advertised.
ReadNeighbors(n) ==
    /\ pub[n].pc = "neighbors"
    /\ \E P \in Some(Neighbors(n), MaxRecordPeers) :
        pub' = [pub EXCEPT ![n].pc = "hashes",
                           ![n].peers = Padded(P, MaxRecordPeers, ZeroPeer)]
    /\ UNCHANGED <<gone, links, unsent, window, stored, ticked, job, faults>>

\* ... and then with its message hashes.
ReadHashes(n) ==
    /\ pub[n].pc = "hashes"
    /\ pub' = [pub EXCEPT ![n].pc = "put",
                          ![n].hashes =
                              Padded(Hashes(n), MaxMessageHashes, ZeroHash)]
    /\ UNCHANGED <<gone, links, unsent, window, stored, ticked, job, faults>>

\* The live nodes that the records R are from.
Named(R) == {r.pub : r \in R} \ gone

OwnRecord(n) == [pub |-> n, peers |-> pub[n].peers, hashes |-> pub[n].hashes]

\* publish_record() stores the record, in place of whatever the storage nodes
\* drop for it; an older record of the node may stay beside it.
PutStored(n) ==
    /\ pub[n].pc = "put"
    /\ LET before == stored[pub[n].age]
       IN  \E kept \in SUBSET before :
               /\ stored' = [stored EXCEPT ![pub[n].age] =
                                 kept \cup {OwnRecord(n)}]
               /\ IF Named(before) \subseteq Named(kept) \cup {n}
                  THEN NoFault ELSE Fault
    /\ pub' = [pub EXCEPT ![n] = PubIdle]
    /\ UNCHANGED <<gone, links, unsent, window, ticked, job>>

\* It skips the put: the slot is full of others' records, dead or alive.
PutSkipped(n) ==
    /\ pub[n].pc = "put"
    /\ Cardinality({r.pub : r \in stored[pub[n].age]} \ {n}) >= MaxRecords
    /\ pub' = [pub EXCEPT ![n] = PubIdle]
    /\ UNCHANGED <<gone, links, unsent, window, stored, ticked, job, faults>>

\* It fails, or counts records that are not there any more; publish() returns
\* all the same.
PutFailed(n) ==
    /\ pub[n].pc = "put"
    /\ Fault
    /\ pub' = [pub EXCEPT ![n] = PubIdle]
    /\ UNCHANGED <<gone, links, unsent, window, stored, ticked, job>>

-----------------------------------------------------------------------------
\* BubbleMerge and MessageOverlapMerge.

\* The ticker fires: merge() reads the clock.
MergeTick(w) ==
    /\ w[1] \notin gone
    /\ job[w].pc = "idle"
    /\ job' = [job EXCEPT ![w] = [JobIdle EXCEPT !.pc = "older"]]
    /\ UNCHANGED <<gone, links, unsent, window, stored, ticked, pub, faults>>

\* The slot a worker looks up: unix_minute - 1 first, then unix_minute.
LookedUp(w) == IF job[w].pc = "older" THEN job[w].age + 1 ELSE job[w].age

\* get_records() filters the node's own records.
Others(w) == {r \in stored[LookedUp(w)] : r.pub # w[1]}

\* A lookup is answered; one record of each publisher is kept.
Fetch(w) ==
    /\ job[w].pc \in {"older", "newer"}
    /\ \E R \in SUBSET Others(w) :
        /\ \A r, s \in R : r.pub = s.pub => r = s
        /\ job' = [job EXCEPT
               ![w].pc = IF @ = "older" THEN "newer" ELSE "compare",
               ![w].records = @ \cup R]
        /\ IF Named(Others(w)) \subseteq Named(R) THEN NoFault ELSE Fault
    /\ UNCHANGED <<gone, links, unsent, window, stored, ticked, pub>>

\* A lookup fails: merge() returns.
FetchFailed(w) ==
    /\ job[w].pc \in {"older", "newer"}
    /\ Fault
    /\ job' = [job EXCEPT ![w] = JobIdle]
    /\ UNCHANGED <<gone, links, unsent, window, stored, ticked, pub>>

\* Mutants of Candidates: empty slots are not filtered; only active_peers are
\* candidates, not the publishers.
CandidatesPadded(n, R) ==
    (UNION {r.peers \cup {r.pub} : r \in R}) \ (Neighbors(n) \cup {n})


\* The peers named by the records R that node n is not connected to.
Candidates(n, R) ==
    (UNION {r.peers \cup {r.pub} : r \in R}) \ (Neighbors(n) \cup {n, ZeroPeer})

\* join_peers(): a random choice of at most max_peers is sent to gossip.
JoinPeers(w, candidates) ==
    IF candidates = {}
    THEN job' = [job EXCEPT ![w] = JobIdle]
    ELSE \E T \in Some(candidates, MaxJoinPeers) :
             job' = [job EXCEPT ![w].pc = "joining", ![w].targets = T]

\* BubbleMerge: a node with few neighbors joins the peers of all records.
BubbleCompare(w) ==
    /\ job[w].pc = "compare"
    /\ w[2] = "bubble"
    /\ LET n == w[1]
       IN  IF Cardinality(Neighbors(n)) < MinNeighbors /\ job[w].records # {}
           THEN JoinPeers(w, Candidates(n, job[w].records))
           ELSE job' = [job EXCEPT ![w] = JobIdle]
    /\ UNCHANGED <<gone, links, unsent, window, stored, ticked, pub, faults>>

\* Mutants of Disjoint: empty slots count as hashes; the test is inverted.
DisjointPadded(r, local) ==
    LET remote == r.hashes
    IN  remote # {} /\ remote \cap local = {}

DisjointInverted(r, local) ==
    LET remote == r.hashes \ {ZeroHash}
    IN  remote # {} /\ remote \cap local # {}

\* The record has message hashes, and none of them is a local one.
Disjoint(r, local) ==
    LET remote == r.hashes \ {ZeroHash}
    IN  remote # {} /\ remote \cap local = {}

\* MessageOverlapMerge: the records of nodes that relay other messages.
OverlapCompare(w) ==
    /\ job[w].pc = "compare"
    /\ w[2] = "overlap"
    /\ LET local    == Hashes(w[1])
           disjoint == {r \in job[w].records : Disjoint(r, local)}
       IN  job' = [job EXCEPT ![w] =
                IF local = {} \/ disjoint = {} THEN JobIdle
                ELSE [@ EXCEPT !.pc = "neighbors", !.local = local,
                               !.records = disjoint]]
    /\ UNCHANGED <<gone, links, unsent, window, stored, ticked, pub, faults>>

OverlapNeighbors(w) ==
    /\ job[w].pc = "neighbors"
    /\ JoinPeers(w, Candidates(w[1], job[w].records))
    /\ UNCHANGED <<gone, links, unsent, window, stored, ticked, pub, faults>>

\* Gossip connects to some of the peers it was asked to join, or the request
\* times out.
Joined(w) ==
    /\ job[w].pc = "joining"
    /\ \E T \in SUBSET (job[w].targets \ gone) :
        /\ links' = links \cup {{w[1], k} : k \in T}
        /\ IF T = job[w].targets \ gone THEN NoFault ELSE Fault
    /\ job' = [job EXCEPT ![w] = JobIdle]
    /\ UNCHANGED <<gone, unsent, window, stored, ticked, pub>>

-----------------------------------------------------------------------------
Publish(n) ==
    PublishTick(n) \/ ReadNeighbors(n) \/ ReadHashes(n) \/ PutStored(n)
        \/ PutSkipped(n) \/ PutFailed(n)

MergeStep(w) ==
    \/ MergeTick(w) \/ Fetch(w) \/ FetchFailed(w)
    \/ BubbleCompare(w) \/ OverlapCompare(w) \/ OverlapNeighbors(w)
    \/ Joined(w)

Next ==
    \/ \E n \in Nodes : Broadcast(n) \/ Leave(n)
    \/ LinkLost \/ LinkDown \/ NextMinute
    \/ \E n \in Publishers : Publish(n)
    \/ \E w \in Mergers : MergeStep(w)

Spec == Init /\ [][Next]_vars

\* w asks gossip to join k, among others.
Chooses(w, k) ==
    /\ BubbleCompare(w) \/ OverlapNeighbors(w)
    /\ k \in job'[w].targets

\* n's Publisher finishes a put in the minute in which its tick began.
PutInTime(n) ==
    /\ pub[n].age = 0
    /\ PutStored(n) \/ PutSkipped(n) \/ PutFailed(n)

\* A record of p is where a merge that begins now looks.
AtHand(p) == \E r \in stored[0] \cup stored[1] : r.pub = p

\* NeighborDown arrives, and the calls of a merge worker end (each is under a
\* timeout).  The intervals of the workers are random (base and jitter) and no
\* multiple of a minute: a Publisher may skip minutes and be late in others,
\* yet some put falls into its own minute again and again; a merge worker may
\* miss the record of a publisher, yet not every time there is one.  The
\* shuffle in join_peers() picks every candidate some time.
FairSpec ==
    /\ Spec
    /\ WF_vars(LinkDown)
    /\ []<><<NextMinute>>_vars
    /\ \A n \in Publishers : []<><<n \in gone \/ PutInTime(n)>>_vars
    /\ \A w \in Mergers :
        /\ WF_vars(MergeStep(w))
        /\ \A p \in Publishers \ {w[1]} : SF_vars(MergeTick(w) /\ AtHand(p))
        /\ \A k \in Nodes \ {w[1]} : SF_vars(Chooses(w, k))

-----------------------------------------------------------------------------
\* A merge worker asks gossip for at most max_join_peers peers, and never for
\* its own node or an empty array slot: the padding of a record does not reach
\* gossip, however records and neighbors change between the lookups and the
\* join.  The bound is the option of the worker, which topic.rs:297 passes on;
\* PROTOCOL.md:262 and ARCHITECTURE.md:179 name max_join_peer_count instead,
\* an option that nothing reads.
TargetsAreOtherNodes ==
    \A w \in Mergers :
        /\ job[w].targets \subseteq Nodes \ {w[1]}
        /\ Cardinality(job[w].targets) <= MaxJoinPeers

\* MessageOverlapMerge bridges on evidence only: whoever it joins is named by
\* a record whose publisher had received a message that was in no hash of this
\* node's window, and this node had received one itself.
OverlapHasEvidence ==
    \A w \in Mergers : w[2] = "overlap" /\ job[w].pc = "joining" =>
        /\ job[w].local # {}
        /\ \A k \in job[w].targets : \E r \in job[w].records :
            /\ k \in r.peers \cup {r.pub}
            /\ r.hashes \cap (Messages \ job[w].local) # {}

\* A node without enough neighbors that is cut off from a live publisher, on a
\* side whose own publishers do not fill a slot.
Stranded(n, p) ==
    /\ n \notin gone /\ p \notin gone
    /\ Cardinality(Neighbors(n)) < MinNeighbors
    /\ p \notin Side(n)
    /\ Cardinality(Side(n) \cap Publishers) < MaxRecords


\* Two live nodes on different sides that have received different messages, and
\* n's side leaves room in the slots.
Diverged(n, p) ==
    /\ n \notin gone /\ p \notin gone
    /\ p \notin Side(n)
    /\ Cardinality(Side(n) \cap Publishers) < MaxRecords
    /\ Hashes(n) # {} /\ Hashes(p) # {}
    /\ Hashes(n) \cap Hashes(p) = {}

\* A split swarm heals once both sides relay messages of their own, however
\* many neighbors their nodes have, though records are put in a later minute
\* than their own, and old ones without hashes lie beside them.
SplitHeals ==
    \A n \in OverlapMergers : \A p \in Publishers \ {n} :
        Diverged(n, p) ~> ~Diverged(n, p)

\* "[...] and by joining peers in DHT records with overlapping message hashes"
\* (config.rs:667).
OverlapJoinsOverlapping ==
    \A w \in Mergers : w[2] = "overlap" /\ job[w].pc = "joining" =>
        \E r \in job[w].records : r.hashes \cap job[w].local # {}
=============================================================================
