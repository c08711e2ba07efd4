----------------------------- MODULE MergeProofs -----------------------------
(***************************************************************************)
(* For any swarm, any bounds and any faults: whom the merge workers ask    *)
(* gossip to join.  That swarms heal depends on fairness and is left to    *)
(* the model checker.                                                      *)
(*                                                                         *)
(* The records a worker holds while it asks for its neighbors were chosen  *)
(* against the local hashes it read before; the window moves on meanwhile, *)
(* so the invariant speaks of the hashes that were read.                   *)
(***************************************************************************)
EXTENDS Merge, FiniteSetTheorems, TLAPS

\* The records that are left after the comparison are all evidence.
EvidenceInv ==
    \A w \in Mergers :
        (w[2] = "overlap" /\ job[w].pc \in {"neighbors", "joining"}) =>
            /\ job[w].local # {}
            /\ \A r \in job[w].records : Disjoint(r, job[w].local)

\* The peers a worker joins are named by its records; it has chosen none before.
NamedInv ==
    \A w \in Mergers : \A k \in job[w].targets :
        /\ job[w].pc = "joining"
        /\ \E r \in job[w].records : k \in r.peers \cup {r.pub}

IInv ==
    /\ TypeOK
    /\ EvidenceInv
    /\ NamedInv
    /\ TargetsAreOtherNodes

-----------------------------------------------------------------------------
LEMMA Facts ==
    /\ Mortal \subseteq Nodes /\ Publishers \subseteq Nodes
    /\ MaxLag \in Nat /\ MaxFaults \in Nat /\ MaxTicks \in Nat /\ MaxJoinPeers \in Nat \ {0}
    /\ 0 \in Ages
    /\ \A k \in 0 .. MaxLag : k \in Ages /\ k + 1 \in Ages
    /\ ZeroPeer \notin Nodes /\ ZeroHash \notin Messages
<1>1. MaxLag \in Nat
    BY MergeAssumption
<1>2. 0 \in Ages /\ \A k \in 0 .. MaxLag : k \in Ages /\ k + 1 \in Ages
    BY <1>1 DEF Ages
<1> QED  BY <1>1, <1>2, MergeAssumption

\* A merge worker belongs to a node.
LEMMA Worker ==
    ASSUME NEW w \in Mergers
    PROVE  w[1] \in Nodes /\ w[2] \in {"bubble", "overlap"}
  BY MergeAssumption DEF Mergers

\* An idle worker.
LEMMA Idle ==
    /\ PubIdle \in PubJob
    /\ JobIdle \in MergeJob
    /\ JobIdle.pc = "idle" /\ JobIdle.targets = {}
    /\ Cardinality({}) <= MaxJoinPeers
<1>1. 0 \in 0 .. MaxLag
    BY Facts
<1>2. Cardinality({}) = 0
    BY FS_EmptySet
<1> QED  BY <1>1, <1>2, Facts DEF PubIdle, PubJob, JobIdle, MergeJob

\* A worker gets older only as far as the bound.
LEMMA Older ==
    /\ \A j \in PubJob : (j.pc # "idle" => j.age < MaxLag) => Aged(j) \in PubJob
    /\ \A j \in MergeJob :
           /\ (j.pc # "idle" => j.age < MaxLag) => Aged(j) \in MergeJob
           /\ Aged(j).pc = j.pc /\ Aged(j).records = j.records
           /\ Aged(j).local = j.local /\ Aged(j).targets = j.targets
<1>1. \A k \in 0 .. MaxLag : k < MaxLag => k + 1 \in 0 .. MaxLag
    BY Facts
<1>2. ASSUME NEW j \in PubJob, j.pc # "idle" => j.age < MaxLag
      PROVE  Aged(j) \in PubJob
  <2>1. j.age \in 0 .. MaxLag
      BY DEF PubJob
  <2> QED  BY <1>1, <1>2, <2>1 DEF PubJob, Aged
<1>3. ASSUME NEW j \in MergeJob, j.pc # "idle" => j.age < MaxLag
      PROVE  Aged(j) \in MergeJob
  <2>1. j.age \in 0 .. MaxLag
      BY DEF MergeJob
  <2> QED  BY <1>1, <1>3, <2>1 DEF MergeJob, Aged
<1>4. ASSUME NEW j \in MergeJob
      PROVE  /\ Aged(j).pc = j.pc /\ Aged(j).records = j.records
             /\ Aged(j).local = j.local /\ Aged(j).targets = j.targets
    BY DEF MergeJob, Aged
<1> QED  BY <1>2, <1>3, <1>4

\* A set that is padded, and a part of a set.
LEMMA PaddedType ==
    ASSUME NEW S, NEW T, S \subseteq T, NEW size, NEW zero
    PROVE  Padded(S, size, zero) \subseteq T \cup {zero}
  BY DEF Padded

LEMMA SomeType ==
    ASSUME NEW S, NEW size \in Nat, NEW T \in Some(S, size)
    PROVE  T \subseteq S /\ Cardinality(T) <= size
<1>1. CASE T \in SUBSET S /\ Cardinality(T) = size
    BY <1>1
<1>2. CASE Cardinality(S) <= size /\ T = S
    BY <1>2
<1> QED  BY <1>1, <1>2 DEF Some

\* A node never chooses itself or an empty slot.
LEMMA CandidatesType ==
    ASSUME NEW n \in Nodes, NEW R \in SUBSET Record
    PROVE  /\ Candidates(n, R) \subseteq Nodes \ {n}
           /\ \A k \in Candidates(n, R) : \E r \in R : k \in r.peers \cup {r.pub}
<1>1. \A r \in R : r.peers \subseteq Nodes \cup {ZeroPeer} /\ r.pub \in Nodes
    BY DEF Record
<1> QED  BY <1>1 DEF Candidates

-----------------------------------------------------------------------------
\* What depends on the merge workers only.
LEMMA JobFrame ==
    ASSUME IInv, job' = job
    PROVE  (EvidenceInv /\ NamedInv /\ TargetsAreOtherNodes)'
  BY DEF IInv, EvidenceInv, NamedInv, TargetsAreOtherNodes

\* A step of one merge worker.
LEMMA JobStep ==
    ASSUME IInv, NEW w \in Mergers, NEW j \in MergeJob,
           job' = [job EXCEPT ![w] = j],
           (w[2] = "overlap" /\ j.pc \in {"neighbors", "joining"}) =>
               j.local # {} /\ \A r \in j.records : Disjoint(r, j.local),
           j.targets # {} => j.pc = "joining",
           \A k \in j.targets : \E r \in j.records : k \in r.peers \cup {r.pub},
           j.targets \subseteq Nodes \ {w[1]},
           Cardinality(j.targets) <= MaxJoinPeers
    PROVE  /\ job' \in [Mergers -> MergeJob]
           /\ (EvidenceInv /\ NamedInv /\ TargetsAreOtherNodes)'
<1>1. job' \in [Mergers -> MergeJob] /\ job'[w] = j
    BY DEF IInv, TypeOK
<1>2. \A v \in Mergers : v # w => job'[v] = job[v]
    BY DEF IInv, TypeOK
<1>3. EvidenceInv'
    BY <1>1, <1>2 DEF IInv, EvidenceInv
<1>4. NamedInv'
    BY <1>1, <1>2 DEF IInv, NamedInv
<1>5. TargetsAreOtherNodes'
    BY <1>1, <1>2 DEF IInv, TargetsAreOtherNodes
<1> QED  BY <1>1, <1>3, <1>4, <1>5

\* A worker that goes idle.
LEMMA JobEnds ==
    ASSUME IInv, NEW w \in Mergers, job' = [job EXCEPT ![w] = JobIdle]
    PROVE  /\ job' \in [Mergers -> MergeJob]
           /\ (EvidenceInv /\ NamedInv /\ TargetsAreOtherNodes)'
  BY Idle, JobStep

\* A fault is counted or there is none.
LEMMA Faults ==
    ASSUME TypeOK, Fault \/ NoFault
    PROVE  faults' \in 0 .. MaxFaults
<1>1. faults \in 0 .. MaxFaults /\ MaxFaults \in Nat
    BY Facts DEF TypeOK
<1> QED  BY <1>1 DEF Fault, NoFault, MayFail

-----------------------------------------------------------------------------
LEMMA InitInv ==
    Init => IInv
<1> SUFFICES ASSUME Init
             PROVE  IInv
    OBVIOUS
<1>1. TypeOK
  <2>1. FirstLinks \subseteq Links
    <3>1. ASSUME NEW e \in FirstLinks
          PROVE  e \in Links
      <4>1. e \in SUBSET Nodes /\ Cardinality(e) = 2
          BY MergeAssumption
      <4>2. IsFiniteSet(e)
          BY <4>1, FS_Subset, MergeAssumption
      <4>3. e # {}
          BY <4>1, FS_EmptySet
      <4>4. PICK a \in e : TRUE
          BY <4>3
      <4>5. IsFiniteSet(e \ {a}) /\ Cardinality(e \ {a}) = 1
        <5>1. Cardinality(e \ {a}) = Cardinality(e) - 1
            BY <4>2, FS_RemoveElement
        <5> QED  BY <4>1, <4>2, <5>1, FS_RemoveElement
      <4>6. PICK b : e \ {a} = {b}
          BY <4>5, FS_Singleton
      <4>7. e = {a, b} /\ a \in Nodes /\ b \in Nodes
          BY <4>1, <4>4, <4>6
      <4> QED  BY <4>7 DEF Links
    <3> QED  BY <3>1
  <2>2. <<>> \in Seq(Messages)
      OBVIOUS
  <2>3. faults \in 0 .. MaxFaults /\ ticked \in [Publishers -> 0 .. MaxTicks]
      BY Facts DEF Init
  <2> QED  BY <2>1, <2>2, <2>3, Idle DEF Init, TypeOK
<1>2. EvidenceInv /\ NamedInv /\ TargetsAreOtherNodes
    BY Idle DEF Init, EvidenceInv, NamedInv, TargetsAreOtherNodes
<1> QED  BY <1>1, <1>2 DEF IInv

-----------------------------------------------------------------------------
\* The environment.
LEMMA BroadcastKeeps ==
    ASSUME IInv, NEW n \in Nodes, Broadcast(n)
    PROVE  IInv'
<1>1. PICK m \in unsent : \E R \in SUBSET (Side(n) \ (gone \cup {n})) :
          /\ unsent' = unsent \ {m}
          /\ window' = [k \in Nodes |->
                 IF k \notin R THEN window[k]
                 ELSE IF Len(window[k]) = MaxMessageHashes
                      THEN Append(Tail(window[k]), m)
                      ELSE Append(window[k], m)]
    BY DEF Broadcast
<1>2. PICK R :
          window' = [k \in Nodes |->
                 IF k \notin R THEN window[k]
                 ELSE IF Len(window[k]) = MaxMessageHashes
                      THEN Append(Tail(window[k]), m)
                      ELSE Append(window[k], m)]
    BY <1>1
<1>3. m \in Messages /\ unsent' \subseteq Messages
    BY <1>1 DEF IInv, TypeOK
<1>4. window' \in [Nodes -> Seq(Messages)]
  <2> SUFFICES ASSUME NEW k \in Nodes
               PROVE  /\ window[k] \in Seq(Messages)
                      /\ Append(window[k], m) \in Seq(Messages)
                      /\ Len(window[k]) = MaxMessageHashes =>
                             Append(Tail(window[k]), m) \in Seq(Messages)
      BY <1>2
  <2>1. window[k] \in Seq(Messages)
      BY DEF IInv, TypeOK
  <2>2. ASSUME Len(window[k]) = MaxMessageHashes
        PROVE  Append(Tail(window[k]), m) \in Seq(Messages)
    <3>1. window[k] # <<>>
        BY <2>2, MergeAssumption
    <3>2. Tail(window[k]) \in Seq(Messages)
        BY <2>1, <3>1
    <3> QED  BY <1>3, <3>2
  <2> QED  BY <1>3, <2>1, <2>2
<1>5. UNCHANGED <<gone, links, stored, ticked, pub, job, faults>>
    BY DEF Broadcast
<1>6. TypeOK'
    BY <1>3, <1>4, <1>5 DEF IInv, TypeOK
<1> QED  BY <1>5, <1>6, JobFrame DEF IInv

LEMMA LinkKeeps ==
    ASSUME IInv, LinkLost \/ LinkDown
    PROVE  IInv'
<1>1. links' \subseteq links /\ UNCHANGED <<gone, unsent, window, stored, ticked, pub, job>>
      /\ (Fault \/ NoFault)
    BY DEF LinkLost, LinkDown, NoFault
<1>2. faults' \in 0 .. MaxFaults
    BY <1>1, Faults DEF IInv
<1>3. TypeOK'
    BY <1>1, <1>2 DEF IInv, TypeOK
<1> QED  BY <1>1, <1>3, JobFrame DEF IInv

LEMMA LeaveKeeps ==
    ASSUME IInv, NEW n \in Nodes, Leave(n)
    PROVE  IInv'
<1>1. /\ gone' = gone \cup {n} /\ n \in Mortal
      /\ pub' = [k \in Publishers |-> IF k = n THEN PubIdle ELSE pub[k]]
      /\ job' = [w \in Mergers |-> IF w[1] = n THEN JobIdle ELSE job[w]]
      /\ UNCHANGED <<links, unsent, window, stored, ticked, faults>>
    BY DEF Leave
<1>2. \A w \in Mergers : job'[w] = JobIdle \/ job'[w] = job[w]
    BY <1>1
<1>3. TypeOK'
    BY <1>1, Idle DEF IInv, TypeOK
<1>4. EvidenceInv'
    BY <1>2, Idle DEF IInv, EvidenceInv
<1>5. NamedInv'
    BY <1>2, Idle DEF IInv, NamedInv
<1>6. TargetsAreOtherNodes'
    BY <1>2, Idle DEF IInv, TargetsAreOtherNodes
<1> QED  BY <1>3, <1>4, <1>5, <1>6 DEF IInv

LEMMA NextMinuteKeeps ==
    ASSUME IInv, NextMinute
    PROVE  IInv'
<1>1. /\ \A n \in Publishers : pub[n].pc # "idle" => pub[n].age < MaxLag
      /\ \A w \in Mergers : job[w].pc # "idle" => job[w].age < MaxLag
      /\ stored' = [k \in Ages |-> IF k = 0 THEN {} ELSE stored[k - 1]]
      /\ ticked' = [n \in Publishers |-> 0]
      /\ pub' = [n \in Publishers |-> Aged(pub[n])]
      /\ job' = [w \in Mergers |-> Aged(job[w])]
      /\ UNCHANGED <<gone, links, unsent, window, faults>>
    BY DEF NextMinute
<1>2. stored' \in [Ages -> SUBSET Record]
  <2>1. \A k \in Ages : k # 0 => k - 1 \in Ages
      BY Facts DEF Ages
  <2> QED  BY <1>1, <2>1 DEF IInv, TypeOK
<1>3. pub' \in [Publishers -> PubJob]
    BY <1>1, Older DEF IInv, TypeOK
<1>4. \A w \in Mergers :
          /\ job[w] \in MergeJob /\ job'[w] = Aged(job[w])
          /\ job'[w] \in MergeJob
          /\ job'[w].pc = job[w].pc /\ job'[w].records = job[w].records
          /\ job'[w].local = job[w].local /\ job'[w].targets = job[w].targets
    BY <1>1, Older DEF IInv, TypeOK
<1>5. job' \in [Mergers -> MergeJob]
    BY <1>1, <1>4
<1>6. TypeOK'
  <2>1. ticked' \in [Publishers -> 0 .. MaxTicks]
      BY <1>1, Facts
  <2> QED  BY <1>1, <1>2, <1>3, <1>5, <2>1 DEF IInv, TypeOK
<1>7. EvidenceInv'
    BY <1>4 DEF IInv, EvidenceInv
<1>8. NamedInv'
    BY <1>4 DEF IInv, NamedInv
<1>9. TargetsAreOtherNodes'
    BY <1>4 DEF IInv, TargetsAreOtherNodes
<1> QED  BY <1>6, <1>7, <1>8, <1>9 DEF IInv

-----------------------------------------------------------------------------
\* The Publisher.
LEMMA PublishKeeps ==
    ASSUME IInv, NEW n \in Publishers, Publish(n)
    PROVE  IInv'
<1>1. pub \in [Publishers -> PubJob] /\ pub[n] \in PubJob /\ n \in Nodes
      /\ stored \in [Ages -> SUBSET Record]
    BY Facts DEF IInv, TypeOK
<1>2. CASE PublishTick(n)
  <2>1. [PubIdle EXCEPT !.pc = "neighbors"] \in PubJob
      BY Idle DEF PubJob
  <2>2. TypeOK'
    <3>1. ticked' \in [Publishers -> 0 .. MaxTicks]
        BY <1>2, MergeAssumption DEF PublishTick, IInv, TypeOK
    <3> QED  BY <1>1, <1>2, <2>1, <3>1 DEF PublishTick, IInv, TypeOK
  <2> QED  BY <1>2, <2>2, JobFrame DEF PublishTick, IInv
<1>3. CASE ReadNeighbors(n)
  <2>1. PICK P \in Some(Neighbors(n), MaxRecordPeers) :
            pub' = [pub EXCEPT ![n].pc = "hashes",
                               ![n].peers = Padded(P, MaxRecordPeers, ZeroPeer)]
      BY <1>3 DEF ReadNeighbors
  <2>2. P \subseteq Nodes
    <3>1. MaxRecordPeers \in Nat
        BY MergeAssumption
    <3>2. P \subseteq Neighbors(n)
        BY <3>1, SomeType
    <3> QED  BY <3>2 DEF Neighbors
  <2>3. Padded(P, MaxRecordPeers, ZeroPeer) \subseteq Nodes \cup {ZeroPeer}
      BY <2>2, PaddedType
  <2>4. pub' \in [Publishers -> PubJob]
      BY <1>1, <2>1, <2>3 DEF PubJob
  <2>5. TypeOK'
      BY <1>3, <2>4 DEF ReadNeighbors, IInv, TypeOK
  <2> QED  BY <1>3, <2>5, JobFrame DEF ReadNeighbors, IInv
<1>4. CASE ReadHashes(n)
  <2>1. window[n] \in Seq(Messages)
      BY <1>1 DEF IInv, TypeOK
  <2>2. Hashes(n) \subseteq Messages
      BY <2>1 DEF Hashes
  <2>3. Padded(Hashes(n), MaxMessageHashes, ZeroHash) \subseteq Messages \cup {ZeroHash}
      BY <2>2, PaddedType
  <2>4. pub' \in [Publishers -> PubJob]
      BY <1>1, <1>4, <2>3 DEF ReadHashes, PubJob
  <2>5. TypeOK'
      BY <1>4, <2>4 DEF ReadHashes, IInv, TypeOK
  <2> QED  BY <1>4, <2>5, JobFrame DEF ReadHashes, IInv
<1>5. CASE PutStored(n)
  <2>1. PICK kept \in SUBSET stored[pub[n].age] :
            stored' = [stored EXCEPT ![pub[n].age] = kept \cup {OwnRecord(n)}]
      BY <1>5 DEF PutStored
  <2>2. /\ Fault \/ NoFault
        /\ pub' = [pub EXCEPT ![n] = PubIdle]
        /\ UNCHANGED <<gone, links, unsent, window, ticked, job>>
      BY <1>5 DEF PutStored
  <2>3. pub[n].age \in Ages
      BY <1>1, Facts DEF PubJob
  <2>4. OwnRecord(n) \in Record
      BY <1>1 DEF OwnRecord, Record, PubJob
  <2>5. stored' \in [Ages -> SUBSET Record]
      BY <1>1, <2>1, <2>3, <2>4
  <2>6. pub' \in [Publishers -> PubJob] /\ faults' \in 0 .. MaxFaults
      BY <1>1, <2>2, Idle, Faults DEF IInv
  <2>7. TypeOK'
      BY <2>2, <2>5, <2>6 DEF IInv, TypeOK
  <2> QED  BY <2>2, <2>7, JobFrame DEF IInv
<1>6. CASE PutFailed(n)
  <2>1. pub' \in [Publishers -> PubJob] /\ faults' \in 0 .. MaxFaults
      BY <1>1, <1>6, Idle, Faults DEF PutFailed, IInv
  <2>2. TypeOK'
      BY <1>6, <2>1 DEF PutFailed, IInv, TypeOK
  <2> QED  BY <1>6, <2>2, JobFrame DEF PutFailed, IInv
<1>7. CASE PutSkipped(n)
  <2>1. pub' \in [Publishers -> PubJob]
      BY <1>1, <1>7, Idle DEF PutSkipped
  <2>2. TypeOK'
      BY <1>7, <2>1 DEF PutSkipped, IInv, TypeOK
  <2> QED  BY <1>7, <2>2, JobFrame DEF PutSkipped, IInv
<1> QED  BY <1>2, <1>3, <1>4, <1>5, <1>6, <1>7 DEF Publish

-----------------------------------------------------------------------------
\* join_peers(): whoever is chosen is another node that a record names.
LEMMA JoinPeersKeeps ==
    ASSUME IInv, NEW w \in Mergers,
           JoinPeers(w, Candidates(w[1], job[w].records)),
           w[2] = "overlap" =>
               job[w].local # {} /\ \A r \in job[w].records : Disjoint(r, job[w].local)
    PROVE  /\ job' \in [Mergers -> MergeJob]
           /\ (EvidenceInv /\ NamedInv /\ TargetsAreOtherNodes)'
<1> DEFINE candidates == Candidates(w[1], job[w].records)
<1>1. w[1] \in Nodes /\ job[w] \in MergeJob
    BY Worker DEF IInv, TypeOK
<1>2. job[w].records \in SUBSET Record
    BY <1>1 DEF MergeJob
<1>3. /\ candidates \subseteq Nodes \ {w[1]}
      /\ \A k \in candidates : \E r \in job[w].records : k \in r.peers \cup {r.pub}
    BY <1>1, <1>2, CandidatesType
<1> HIDE DEF candidates
<1>4. CASE job' = [job EXCEPT ![w] = JobIdle]
    BY <1>4, JobEnds
<1>5. ASSUME NEW T \in Some(candidates, MaxJoinPeers),
             job' = [job EXCEPT ![w].pc = "joining", ![w].targets = T]
      PROVE  /\ job' \in [Mergers -> MergeJob]
             /\ (EvidenceInv /\ NamedInv /\ TargetsAreOtherNodes)'
  <2> DEFINE j == [job[w] EXCEPT !.pc = "joining", !.targets = T]
  <2>1. T \subseteq candidates /\ Cardinality(T) <= MaxJoinPeers
      BY SomeType, MergeAssumption
  <2>2. job' = [job EXCEPT ![w] = j]
      BY <1>5 DEF IInv, TypeOK
  <2>3. j \in MergeJob /\ j.targets = T /\ j.pc = "joining"
        /\ j.records = job[w].records /\ j.local = job[w].local
      BY <1>1, <1>3, <2>1 DEF MergeJob
  <2> HIDE DEF j
  <2> QED  BY <1>3, <2>1, <2>2, <2>3, JobStep
<1> QED  BY <1>4, <1>5 DEF JoinPeers, candidates

\* BubbleMerge and MessageOverlapMerge.
LEMMA MergeStepKeeps ==
    ASSUME IInv, NEW w \in Mergers, MergeStep(w)
    PROVE  IInv'
<1>1. job[w] \in MergeJob /\ w[1] \in Nodes
    BY Worker DEF IInv, TypeOK
<1> DEFINE Rest == UNCHANGED <<gone, unsent, window, stored, ticked, pub>>
           Jobs == /\ job' \in [Mergers -> MergeJob]
                   /\ (EvidenceInv /\ NamedInv /\ TargetsAreOtherNodes)'
<1>2. ASSUME Rest, Jobs, links' \subseteq Links, Fault \/ NoFault
      PROVE  IInv'
  <2>1. faults' \in 0 .. MaxFaults
      BY <1>2, Faults DEF IInv
  <2>2. TypeOK'
      BY <1>2, <2>1 DEF IInv, TypeOK
  <2> QED  BY <1>2, <2>2 DEF IInv
<1>3. links \subseteq Links
    BY DEF IInv, TypeOK
<1>4. CASE MergeTick(w)
  <2> DEFINE j == [JobIdle EXCEPT !.pc = "older"]
  <2>1. /\ j \in MergeJob /\ j.pc = "older" /\ j.targets = {}
        /\ Cardinality({}) <= MaxJoinPeers
      BY Idle DEF MergeJob
  <2>2. job' = [job EXCEPT ![w] = j] /\ Rest /\ NoFault /\ links' = links
      BY <1>4 DEF MergeTick, NoFault
  <2> HIDE DEF j
  <2>3. Jobs
      BY <2>1, <2>2, JobStep
  <2> QED  BY <1>2, <1>3, <2>2, <2>3
<1>5. CASE Fetch(w)
  <2>1. PICK R \in SUBSET Others(w) :
            job' = [job EXCEPT
               ![w].pc = IF @ = "older" THEN "newer" ELSE "compare",
               ![w].records = @ \cup R]
      BY <1>5 DEF Fetch
  <2>2. Rest /\ (Fault \/ NoFault) /\ links' = links /\ job[w].pc \in {"older", "newer"}
      BY <1>5 DEF Fetch
  <2>3. LookedUp(w) \in Ages
      BY <1>1, Facts DEF LookedUp, MergeJob
  <2>4. R \subseteq Record
      BY <2>3 DEF Others, IInv, TypeOK
  <2> DEFINE j == [job[w] EXCEPT
                      !.pc = IF job[w].pc = "older" THEN "newer" ELSE "compare",
                      !.records = job[w].records \cup R]
  <2>5. job' = [job EXCEPT ![w] = j]
      BY <2>1 DEF IInv, TypeOK
  <2>6. /\ j \in MergeJob /\ j.pc \in {"newer", "compare"}
        /\ j.targets = job[w].targets
      BY <1>1, <2>4 DEF MergeJob
  <2> HIDE DEF j
  <2>7. j.targets = {}
      BY <2>2, <2>6 DEF IInv, NamedInv
  <2>8. Jobs
      BY <2>5, <2>6, <2>7, Idle, JobStep
  <2> QED  BY <1>2, <1>3, <2>2, <2>8
<1>6. CASE FetchFailed(w)
  <2>1. job' = [job EXCEPT ![w] = JobIdle] /\ Rest /\ Fault /\ links' = links
      BY <1>6 DEF FetchFailed
  <2> QED  BY <1>2, <1>3, <2>1, JobEnds
<1>7. CASE BubbleCompare(w)
  <2>1. Rest /\ NoFault /\ links' = links /\ w[2] = "bubble"
      BY <1>7 DEF BubbleCompare, NoFault
  <2>2. \/ JoinPeers(w, Candidates(w[1], job[w].records))
        \/ job' = [job EXCEPT ![w] = JobIdle]
      BY <1>7 DEF BubbleCompare
  <2>3. Jobs
      BY <2>1, <2>2, JobEnds, JoinPeersKeeps
  <2> QED  BY <1>2, <1>3, <2>1, <2>3
<1>8. CASE OverlapCompare(w)
  <2> DEFINE local == Hashes(w[1])
             disjoint == {r \in job[w].records : Disjoint(r, local)}
             j == [job[w] EXCEPT !.pc = "neighbors", !.local = local,
                                 !.records = disjoint]
  <2>1. Rest /\ NoFault /\ links' = links /\ job[w].pc = "compare"
      BY <1>8 DEF OverlapCompare, NoFault
  <2>2. \/ job' = [job EXCEPT ![w] = JobIdle]
        \/ local # {} /\ job' = [job EXCEPT ![w] = j]
      BY <1>8 DEF OverlapCompare, IInv, TypeOK
  <2>3. local \subseteq Messages
    <3>1. window[w[1]] \in Seq(Messages)
        BY <1>1 DEF IInv, TypeOK
    <3> QED  BY <3>1 DEF Hashes
  <2>4. disjoint \subseteq job[w].records /\ \A r \in disjoint : Disjoint(r, local)
      OBVIOUS
  <2> HIDE DEF local, disjoint
  <2>5. /\ j \in MergeJob /\ j.local = local /\ j.records = disjoint
        /\ j.targets = job[w].targets
      BY <1>1, <2>3, <2>4 DEF MergeJob
  <2> HIDE DEF j
  <2>6. j.targets = {}
      BY <2>1, <2>5 DEF IInv, NamedInv
  <2>7. Jobs
      BY <2>2, <2>4, <2>5, <2>6, Idle, JobEnds, JobStep
  <2> QED  BY <1>2, <1>3, <2>1, <2>7
<1>9. CASE OverlapNeighbors(w)
  <2>1. Rest /\ NoFault /\ links' = links /\ job[w].pc = "neighbors"
        /\ JoinPeers(w, Candidates(w[1], job[w].records))
      BY <1>9 DEF OverlapNeighbors, NoFault
  <2>2. Jobs
      BY <2>1, JoinPeersKeeps DEF IInv, EvidenceInv
  <2> QED  BY <1>2, <1>3, <2>1, <2>2
<1>10. CASE Joined(w)
  <2>1. PICK T \in SUBSET (job[w].targets \ gone) :
            links' = links \cup {{w[1], k} : k \in T}
      BY <1>10 DEF Joined
  <2>2. Rest /\ (Fault \/ NoFault) /\ job' = [job EXCEPT ![w] = JobIdle]
      BY <1>10 DEF Joined
  <2>3. T \subseteq Nodes
      BY DEF IInv, TargetsAreOtherNodes
  <2>4. links' \subseteq Links
      BY <1>1, <1>3, <2>1, <2>3 DEF Links
  <2> QED  BY <1>2, <2>2, <2>4, JobEnds
<1> QED  BY <1>4, <1>5, <1>6, <1>7, <1>8, <1>9, <1>10 DEF MergeStep

LEMMA StutterKeeps ==
    ASSUME IInv, UNCHANGED vars
    PROVE  IInv'
<1>1. TypeOK'
    BY DEF vars, IInv, TypeOK
<1>2. job' = job
    BY DEF vars
<1> QED  BY <1>1, <1>2, JobFrame DEF IInv

LEMMA StepKeeps ==
    IInv /\ [Next]_vars => IInv'
  BY BroadcastKeeps, LinkKeeps, LeaveKeeps, NextMinuteKeeps, PublishKeeps,
     MergeStepKeeps, StutterKeeps DEF Next

THEOREM Inductive ==
    Spec => []IInv
  BY InitInv, StepKeeps, PTL DEF Spec

\* The state of the workers, the records and the windows is of its types, so
\* that no worker is later than the bound.
THEOREM TypeCorrect ==
    Spec => []TypeOK
  BY Inductive, PTL DEF IInv

\* The merge workers ask gossip for at most max_join_peers other nodes, never
\* for themselves or an empty slot of an array.
THEOREM OtherNodes ==
    Spec => []TargetsAreOtherNodes
  BY Inductive, PTL DEF IInv

\* MessageOverlapMerge joins a peer only if a record that names it holds a
\* message that was in no hash of the node's own window.
THEOREM Evidence ==
    Spec => []OverlapHasEvidence
<1>1. IInv => OverlapHasEvidence
  <2> SUFFICES ASSUME IInv, NEW w \in Mergers, w[2] = "overlap",
                      job[w].pc = "joining"
               PROVE  /\ job[w].local # {}
                      /\ \A k \in job[w].targets : \E r \in job[w].records :
                             /\ k \in r.peers \cup {r.pub}
                             /\ r.hashes \cap (Messages \ job[w].local) # {}
      BY DEF OverlapHasEvidence
  <2>1. job[w].local # {} /\ \A r \in job[w].records : Disjoint(r, job[w].local)
      BY DEF IInv, EvidenceInv
  <2>2. ASSUME NEW r \in job[w].records
        PROVE  r.hashes \cap (Messages \ job[w].local) # {}
    <3>1. r \in Record
        BY DEF IInv, TypeOK, MergeJob
    <3>2. r.hashes \subseteq Messages \cup {ZeroHash}
        BY <3>1 DEF Record
    <3>3. Disjoint(r, job[w].local)
        BY <2>1
    <3> QED  BY <3>2, <3>3 DEF Disjoint
  <2> QED  BY <2>1, <2>2 DEF IInv, NamedInv
<1> QED  BY <1>1, Inductive, PTL
=============================================================================
