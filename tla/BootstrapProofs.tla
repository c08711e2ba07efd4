--------------------------- MODULE BootstrapProofs ---------------------------
(***************************************************************************)
(* The safety properties of Bootstrap hold for every set of keys and       *)
(* records and for every bound on the clock.                               *)
(*                                                                         *)
(* None of them is inductive by itself.  They rest on the order            *)
(*     last announcement = last <= cur <= minute                           *)
(* between the variables that were read from the clock at different times, *)
(* in which every place where the order is broken costs one of the times   *)
(* the clock was set back; on last # 0 once a pass is over; and on the     *)
(* place in the loop (pc).                                                 *)
(*                                                                         *)
(* The last part shows that the task implements BootstrapContract.         *)
(***************************************************************************)
EXTENDS Bootstrap, FiniteSetTheorems, TLAPS

\* The awaits inside a pass, where cur and offset are in use.
InPass == {"getOlder", "getCurrent", "recheck", "join", "settle", "confirm",
           "confirmWait", "final"}

\* The awaits from which the next pass is reached without another publication.
BetweenPasses == {"noPeers", "poll", "while", "isJoined"}

BothOptions == config.publishOnStartup /\ config.checkOlder

\* The clock never shows minute 0, which last uses as a flag.
ClockOrder ==
    /\ 1 <= minute
    /\ pc = "idle" => last = 0 /\ jobs = <<>>
    /\ pc \in InPass => 1 <= cur

\* 1 if a is a later minute than b.
Late(a, b) == IF b < a THEN 1 ELSE 0

RepeatCount == Cardinality(Repeats)

\* With both startup options one repeat is free once a pass has published.
Spare == IF BothOptions /\ last # 0 THEN 1 ELSE 0

\* The clock values the task holds are ordered, but for as many places as the
\* clock was set back.  last = 0 hides at most the startup publication.
Chain ==
    /\ last = 0 => Len(jobs) = 0 \/ (Len(jobs) = 1 /\ BothOptions)
    /\ last # 0 => jobs # <<>> /\ last = jobs[Len(jobs)].minute
    /\ pc \in InPass =>
           RepeatCount + Late(last, cur) + Late(cur, minute) <= backs + Spare
    /\ pc \notin InPass => RepeatCount + Late(last, minute) <= backs + Spare

\* The task knows of a neighbor only on a node that has one or has had one.
JoinInv ==
    /\ neighbors # {} => met
    /\ isJoinedRet => met
    /\ pc # "done" => result = "none"

\* last = 0 holds exactly up to the end of the first pass.
FirstPass ==
    /\ passes = 0 => pc \in {"idle", "while", "isJoined", "done"}
    /\ pc = "idle" => passes = 0
    /\ (passes = 0 /\ config.checkOlder) => last = 0
    /\ (passes > 0 /\ pc \in BetweenPasses) => last # 0

\* The receiver actor ends only with a cancelled token.
ReceiverDown == ~receiverUp => cancelled

\* Joining another peer is only one step away from an unjoined check.
IntrusionInv ==
    /\ neighbors = {} => intrusions = 0
    /\ pc = "join" => intrusions = 0

\* The awaits between the lookup of current_records and their use.
AfterRead == {"recheck", "join", "settle", "confirm", "confirmWait", "final"}

\* What was read is of other nodes, and of the slot the pass began with.
ReadInv ==
    /\ records \subseteq {r \in Records : r.pub # Self}
    /\ pc \in AfterRead => cachedFrom = Minus(cur, offset)

Safety ==
    /\ OlderWindowOnlyFirst
    /\ CachedForSameMinute
    /\ ErrOnlyWhenCancelled
    /\ AtMostOneIntrusion
    /\ NeverJoinsSelf

IInv ==
    /\ TypeOK
    /\ ClockOrder
    /\ Chain
    /\ JoinInv
    /\ FirstPass
    /\ ReceiverDown
    /\ IntrusionInv
    /\ ReadInv
    /\ Safety

-----------------------------------------------------------------------------
\* Appending a job keeps the earlier ones and adds one position.
LEMMA AppendJob ==
    ASSUME NEW q \in Seq(Job), NEW j \in Job
    PROVE  /\ Append(q, j) \in Seq(Job)
           /\ DOMAIN Append(q, j) = 1..(Len(q) + 1)
           /\ DOMAIN q = 1..Len(q)
           /\ Len(q) \in Nat
           /\ \A i \in 1..Len(q) : Append(q, j)[i] = q[i]
           /\ Append(q, j)[Len(q) + 1] = j
  OBVIOUS

\* Only a record this node published could make it a node to join.
LEMMA BootstrapNodesSelf ==
    ASSUME NEW R, Self \notin {r.pub : r \in R}
    PROVE  BootstrapNodes(R) \subseteq EndpointIds /\ Self \notin BootstrapNodes(R)
<1> DEFINE P == {r.pub : r \in R}
           A == UNION {r.active : r \in R}
<1>1. BootstrapNodes(R) = (P \cup (A \ {Self})) \cap EndpointIds
    BY DEF BootstrapNodes
<1>2. Self \notin P
    OBVIOUS
<1> HIDE DEF P, A
<1> QED  BY <1>1, <1>2

\* Lateness between two clock values is at most the sum over a value between.
LEMMA LateTriangle ==
    ASSUME NEW a \in Nat, NEW b \in Nat, NEW c \in Nat
    PROVE  /\ Late(a, c) <= Late(a, b) + Late(b, c)
           /\ Late(a, b) \in {0, 1}
           /\ a <= b => Late(a, b) = 0
  BY DEF Late

\* The repeated announcements are finitely many.
LEMMA RepeatsFinite ==
    jobs \in Seq(Job) =>
        IsFiniteSet(Repeats) /\ RepeatCount \in Nat /\ Len(jobs) \notin Repeats
<1> SUFFICES ASSUME jobs \in Seq(Job)
             PROVE  IsFiniteSet(Repeats) /\ RepeatCount \in Nat
                    /\ Len(jobs) \notin Repeats
    OBVIOUS
<1>1. Len(jobs) \in Nat
    OBVIOUS
<1>2. IsFiniteSet(1..(Len(jobs) - 1))
    BY <1>1, FS_Interval
<1>3. Repeats \subseteq 1..(Len(jobs) - 1)
    BY DEF Repeats
<1>4. IsFiniteSet(Repeats)
    BY <1>2, <1>3, FS_Subset
<1>5. RepeatCount \in Nat
    BY <1>4, FS_CardinalityType DEF RepeatCount
<1>6. Len(jobs) \notin Repeats
    BY <1>1, <1>3
<1> QED  BY <1>4, <1>5, <1>6

\* A step that announces nothing and sees no set-back keeps the chain: what the
\* task holds of the clock is forgotten, kept, or read anew.
LEMMA ChainFrame ==
    ASSUME IInv, UNCHANGED <<jobs, last, config, backs>>,
           minute' \in Nat, minute <= minute', cur' \in Nat,
           pc' \in InPass => (pc \in InPass /\ cur' = cur) \/ cur' = minute
    PROVE  Chain'
<1>1. /\ minute \in Nat /\ cur \in Nat /\ last \in Nat /\ backs \in Nat
      /\ jobs \in Seq(Job) /\ Chain
    BY DEF IInv, TypeOK
<1>2. RepeatCount \in Nat /\ RepeatCount' = RepeatCount
    BY <1>1, RepeatsFinite DEF RepeatCount, Repeats
<1>10. Spare \in {0, 1} /\ Spare' = Spare /\ (BothOptions' <=> BothOptions)
    BY DEF Spare, BothOptions
<1>3. /\ last = 0 => Len(jobs) = 0 \/ (Len(jobs) = 1 /\ BothOptions)
      /\ last # 0 => jobs # <<>> /\ last = jobs[Len(jobs)].minute
      /\ pc \in InPass =>
             RepeatCount + Late(last, cur) + Late(cur, minute) <= backs + Spare
      /\ pc \notin InPass => RepeatCount + Late(last, minute) <= backs + Spare
    BY <1>1 DEF Chain
<1> SUFFICES
      /\ pc' \in InPass =>
             RepeatCount + Late(last, cur') + Late(cur', minute') <= backs + Spare
      /\ pc' \notin InPass => RepeatCount + Late(last, minute') <= backs + Spare
  <2>1. /\ RepeatCount' = RepeatCount /\ Spare' = Spare
        /\ Late(last, cur)' = Late(last, cur')
        /\ Late(cur, minute)' = Late(cur', minute')
        /\ Late(last, minute)' = Late(last, minute')
      BY <1>2, <1>10 DEF Late
  <2> QED  BY <1>3, <1>10, <2>1 DEF Chain
<1>4. /\ Late(last, minute) <= Late(last, cur) + Late(cur, minute)
      /\ Late(cur, minute') <= Late(cur, minute)
      /\ Late(last, minute') <= Late(last, minute)
      /\ Late(minute, minute') = 0
    BY <1>1 DEF Late
<1>5. \A x, y \in Nat : Late(x, y) \in {0, 1}
    BY DEF Late
<1>6. /\ Late(last, cur) \in Nat /\ Late(cur, minute) \in Nat
      /\ Late(last, minute) \in Nat /\ Late(last, minute') \in Nat
      /\ Late(cur, minute') \in Nat
    BY <1>1, <1>5
<1> HIDE DEF Late
<1>7. RepeatCount + Late(last, minute) <= backs + Spare
    BY <1>1, <1>2, <1>10, <1>3, <1>4, <1>6, SMTT(30)
<1>8. RepeatCount + Late(last, minute') <= backs + Spare
    BY <1>1, <1>2, <1>10, <1>4, <1>6, <1>7, SMTT(30)
<1>9. pc' \in InPass =>
          RepeatCount + Late(last, cur') + Late(cur', minute') <= backs + Spare
  <2>1. CASE pc \in InPass /\ cur' = cur
      BY <1>1, <1>2, <1>10, <1>3, <1>4, <1>6, <2>1, SMTT(30)
  <2>2. CASE cur' = minute
      BY <1>1, <1>2, <1>10, <1>4, <1>6, <1>7, <2>2
  <2> QED  BY <2>1, <2>2
<1> QED  BY <1>8, <1>9

\* What the two publication sites establish about last and jobs: an announcement
\* that repeats a minute is one the pass was already late for.
LEMMA PublishIfDueKeeps ==
    ASSUME IInv, pc \in InPass, NEW slot, slot = Minus(cur, offset), PublishIfDue(slot),
           UNCHANGED <<config, minute, backs>>, pc' \notin InPass
    PROVE  /\ last' = cur
           /\ jobs' \in Seq(Job)
           /\ Chain'
           /\ CachedForSameMinute'
<1>1. /\ cur \in Nat /\ last \in Nat /\ jobs \in Seq(Job) /\ offset \in {0, 1}
      /\ minute \in Nat /\ backs \in Nat /\ 1 <= cur
      /\ Chain /\ CachedForSameMinute
    BY DEF IInv, TypeOK, ClockOrder, Safety
<1>2. RepeatCount \in Nat /\ IsFiniteSet(Repeats) /\ Len(jobs) \notin Repeats
    BY <1>1, RepeatsFinite
<1>3. /\ last = 0 => Len(jobs) = 0 \/ (Len(jobs) = 1 /\ BothOptions)
      /\ last # 0 => jobs # <<>> /\ last = jobs[Len(jobs)].minute
      /\ RepeatCount + Late(last, cur) + Late(cur, minute) <= backs + Spare
    BY <1>1 DEF Chain
<1>7. Spare \in {0, 1} /\ (BothOptions' <=> BothOptions) /\ backs' = backs
    BY DEF Spare, BothOptions
<1>4. /\ Late(last, cur) \in {0, 1} /\ Late(cur, minute) \in {0, 1}
      /\ Late(last, minute) <= Late(last, cur) + Late(cur, minute)
    BY <1>1, LateTriangle
<1>5. CASE cur = last
  <2>1. UNCHANGED <<last, jobs>>
      BY <1>5 DEF PublishIfDue
  <2>2. RepeatCount' = RepeatCount /\ Late(last, minute)' = Late(last, minute)
        /\ Spare' = Spare
      BY <1>7, <2>1 DEF RepeatCount, Repeats, Late, Spare
  <2>3. RepeatCount + Late(last, minute) <= backs + Spare
      BY <1>1, <1>2, <1>3, <1>5, <1>7 DEF Late
  <2>4. Chain'
      BY <1>3, <1>7, <2>1, <2>2, <2>3 DEF Chain
  <2> QED  BY <1>1, <1>5, <2>1, <2>4 DEF CachedForSameMinute
<1>6. CASE cur # last
  <2> DEFINE j == [minute |-> cur,
                   cachedFor |-> IF offset = 0 THEN slot ELSE NoCache]
  <2>1. j \in Job /\ j.minute = cur /\ j.cachedFor \in {NoCache, cur}
      BY <1>1 DEF Job, Minus
  <2>2. last' = cur /\ jobs' = Append(jobs, j)
      BY <1>6 DEF PublishIfDue
  <2> HIDE DEF j
  <2>3. /\ jobs' \in Seq(Job)
        /\ DOMAIN jobs' = 1..(Len(jobs) + 1)
        /\ DOMAIN jobs = 1..Len(jobs)
        /\ Len(jobs) \in Nat /\ Len(jobs') = Len(jobs) + 1
        /\ \A i \in 1..Len(jobs) : jobs'[i] = jobs[i]
        /\ jobs'[Len(jobs) + 1] = j
      BY <1>1, <2>1, <2>2, AppendJob
  <2>4. CachedForSameMinute'
    <3>1. \A i \in DOMAIN jobs' : i \in DOMAIN jobs \/ i = Len(jobs) + 1
        BY <2>3
    <3> QED  BY <1>1, <2>1, <2>3, <3>1 DEF CachedForSameMinute
  <2>5. Repeats' = {i \in 1..Len(jobs) : jobs'[i + 1].minute <= jobs'[i].minute}
      BY <2>3 DEF Repeats
  <2>6. \A i \in 1..(Len(jobs) - 1) : i \in Repeats' <=> i \in Repeats
    <3> SUFFICES ASSUME NEW i \in 1..(Len(jobs) - 1)
                 PROVE  i \in Repeats' <=> i \in Repeats
        OBVIOUS
    <3>1. i \in 1..Len(jobs) /\ i + 1 \in 1..Len(jobs)
        BY <2>3
    <3>2. jobs'[i] = jobs[i] /\ jobs'[i + 1] = jobs[i + 1]
        BY <2>3, <3>1
    <3> QED  BY <2>5, <3>1, <3>2 DEF Repeats
  <2>7. Repeats' \subseteq Repeats \cup {Len(jobs)}
    <3>1. \A n \in Nat : \A i \in 1..n : i \in 1..(n - 1) \/ i = n
        OBVIOUS
    <3>2. Len(jobs) \in Nat
        BY <2>3
    <3> QED  BY <2>5, <2>6, <3>1, <3>2
  <2>8. (last # 0 /\ Len(jobs) \in Repeats') => Late(last, cur) = 1
    <3> SUFFICES ASSUME last # 0, Len(jobs) \in Repeats'
                 PROVE  Late(last, cur) = 1
        OBVIOUS
    <3>1. Len(jobs) \in 1..Len(jobs)
        BY <2>5
    <3>2. jobs'[Len(jobs) + 1].minute <= jobs'[Len(jobs)].minute
        BY <2>5
    <3>3. jobs'[Len(jobs)].minute = last
        BY <1>3, <2>3, <3>1
    <3>4. cur <= last
        BY <2>1, <2>3, <3>2, <3>3
    <3> QED  BY <1>1, <1>6, <3>4 DEF Late
  <2>9. IsFiniteSet(Repeats') /\ RepeatCount' \in Nat
    <3>1. IsFiniteSet(1..Len(jobs)) /\ Repeats' \subseteq 1..Len(jobs)
        BY <2>3, <2>5, FS_Interval
    <3>2. IsFiniteSet(Repeats')
        BY <3>1, FS_Subset
    <3> QED  BY <3>2, FS_CardinalityType DEF RepeatCount
  <2>10. RepeatCount' <= RepeatCount + 1
    <3>1. IsFiniteSet(Repeats \cup {Len(jobs)})
          /\ Cardinality(Repeats \cup {Len(jobs)}) = RepeatCount + 1
        BY <1>2, FS_AddElement DEF RepeatCount
    <3>2. Cardinality(Repeats') <= RepeatCount + 1
        BY <2>7, <3>1, FS_Subset
    <3> QED  BY <3>2 DEF RepeatCount
  <2>11. Len(jobs) \notin Repeats' => RepeatCount' <= RepeatCount
    <3> SUFFICES ASSUME Len(jobs) \notin Repeats' PROVE RepeatCount' <= RepeatCount
        OBVIOUS
    <3>1. Repeats' \subseteq Repeats
        BY <2>7
    <3>2. Cardinality(Repeats') <= Cardinality(Repeats)
        BY <1>2, <3>1, FS_Subset
    <3> QED  BY <3>2 DEF RepeatCount
  <2>12. Late(last, minute)' = Late(cur, minute)
      BY <2>2 DEF Late
  <2>13. RepeatCount' + Late(cur, minute) <= backs + Spare'
    <3>1. Spare' = IF BothOptions THEN 1 ELSE 0
        BY <1>1, <1>7, <2>2 DEF Spare
    <3>2. CASE last # 0
      <4>1. Spare' = Spare
          BY <3>1, <3>2 DEF Spare
      <4>2. RepeatCount' <= RepeatCount + Late(last, cur)
          BY <1>2, <1>4, <2>8, <2>9, <2>10, <2>11, <3>2
      <4> HIDE DEF Late
      <4> QED  BY <1>1, <1>2, <1>3, <1>4, <1>7, <2>9, <4>1, <4>2, SMTT(30)
    <3>3. CASE last = 0
      <4>1. Spare = 0 /\ Late(last, cur) = 0
          BY <1>1, <3>3 DEF Spare, Late
      <4>2. BothOptions \/ RepeatCount' <= RepeatCount
          BY <1>3, <2>5, <2>11, <3>3
      <4>3. RepeatCount + Late(cur, minute) <= backs
          BY <1>1, <1>2, <1>3, <1>4, <4>1
      <4>4. CASE BothOptions
          BY <1>1, <1>2, <1>4, <2>9, <2>10, <3>1, <4>3, <4>4
      <4>5. CASE ~BothOptions
          BY <1>1, <1>2, <1>4, <2>9, <3>1, <4>2, <4>3, <4>5
      <4> QED  BY <4>4, <4>5
    <3> QED  BY <3>2, <3>3
  <2>14. jobs' # <<>> /\ jobs'[Len(jobs')].minute = cur
      BY <2>1, <2>3
  <2>15. Chain'
      BY <1>1, <1>7, <2>2, <2>12, <2>13, <2>14 DEF Chain
  <2> QED  BY <2>2, <2>3, <2>4, <2>15
<1> QED  BY <1>5, <1>6

-----------------------------------------------------------------------------
\* The initial states satisfy the invariant, with both startup options either way.
LEMMA InitIInv == Init => IInv
<1> SUFFICES ASSUME Init PROVE IInv
    OBVIOUS
<1>1. TypeOK
  <2>1. <<>> \in Seq(Job)
      OBVIOUS
  <2> QED  BY <2>1 DEF Init, TypeOK, PCs
<1>2. ClockOrder /\ FirstPass
    BY DEF Init, ClockOrder, FirstPass, InPass, BetweenPasses
<1>3. ReceiverDown /\ IntrusionInv /\ ReadInv
    BY DEF Init, ReceiverDown, IntrusionInv, ReadInv, AfterRead
<1>4. CachedForSameMinute /\ JoinInv
    BY DEF Init, CachedForSameMinute, JoinInv
<1>6. Chain
  <2>1. Repeats = {} /\ Late(last, minute) = 0
      BY DEF Init, Repeats, Late
  <2>2. RepeatCount = 0 /\ last = 0 /\ Len(jobs) = 0 /\ Spare = 0 /\ backs = 0
        /\ pc \notin InPass
      BY <2>1, FS_EmptySet DEF Init, RepeatCount, Spare, InPass
  <2> QED  BY <2>1, <2>2 DEF Chain
<1>5. /\ OlderWindowOnlyFirst /\ ErrOnlyWhenCancelled /\ AtMostOneIntrusion
      /\ NeverJoinsSelf
    BY DEF Init, OlderWindowOnlyFirst, ErrOnlyWhenCancelled, AtMostOneIntrusion,
           NeverJoinsSelf
<1> QED  BY <1>1, <1>2, <1>3, <1>4, <1>5, <1>6 DEF IInv, Safety

\* The first publication, made before the task runs.
LEMMA StartBootstrapKeeps == IInv /\ StartBootstrap => IInv'
<1> SUFFICES ASSUME IInv, StartBootstrap PROVE IInv'
    OBVIOUS
<1>1. /\ jobs = <<>> /\ last = 0 /\ passes = 0 /\ minute \in Nat /\ 1 <= minute
      /\ backs \in Nat /\ pc' = "while" /\ config' = config /\ minute' = minute
      /\ backs' = backs
    BY DEF IInv, TypeOK, ClockOrder, FirstPass, StartBootstrap, envVars
<1>2. CASE config.publishOnStartup
  <2>1. jobs' = <<[minute |-> minute, cachedFor |-> NoCache]>>
      BY <1>1, <1>2 DEF StartBootstrap
  <2>2. /\ jobs' \in Seq(Job) /\ DOMAIN jobs' = {1} /\ Len(jobs') = 1
        /\ jobs' # <<>>
        /\ jobs'[1].minute = minute /\ jobs'[1].cachedFor = NoCache
      BY <1>1, <2>1 DEF Job
  <2>3. last' = (IF config.checkOlder THEN 0 ELSE minute)
      BY <1>2 DEF StartBootstrap
  <2>4. TypeOK' /\ ClockOrder'
      BY <1>1, <1>2, <2>2, <2>3
      DEF IInv, TypeOK, PCs, ClockOrder, StartBootstrap, envVars, InPass
  <2>5. CachedForSameMinute'
      BY <2>2 DEF CachedForSameMinute
  <2>6. Chain'
    <3>1. Repeats' = {} /\ RepeatCount' = 0
      <4>1. Repeats' = {}
          BY <2>2 DEF Repeats
      <4> QED  BY <4>1, FS_EmptySet DEF RepeatCount
    <3>2. /\ last' = 0 => BothOptions'
          /\ last' # 0 => last' = minute
          /\ Late(last, minute)' = 0 /\ Spare' \in Nat
        BY <1>1, <1>2, <2>3 DEF BothOptions, Late, Spare
    <3>3. pc' \notin InPass /\ jobs' # <<>>
        BY <1>1, <2>2 DEF InPass
    <3>4. /\ Len(jobs') = 1
          /\ last' # 0 => last' = jobs'[Len(jobs')].minute
        BY <2>2, <3>2
    <3>5. RepeatCount' + Late(last, minute)' <= backs' + Spare'
      <4>1. backs' \in Nat
          BY <1>1
      <4>2. RepeatCount' + Late(last, minute)' = 0
          BY <3>1, <3>2
      <4> QED  BY <3>2, <4>1, <4>2
    <3> QED  BY <3>2, <3>3, <3>4, <3>5 DEF Chain
  <2> QED
      BY <1>1, <1>2, <2>3, <2>4, <2>5, <2>6
      DEF IInv, TypeOK, StartBootstrap, envVars, FirstPass, ReceiverDown,
          IntrusionInv, Safety, OlderWindowOnlyFirst, ErrOnlyWhenCancelled,
          AtMostOneIntrusion, NeverJoinsSelf, BetweenPasses, JoinInv, ReadInv, AfterRead
<1>3. CASE ~config.publishOnStartup
  <2>1. UNCHANGED <<jobs, last, cur>>
      BY <1>3 DEF StartBootstrap
  <2>2. Chain'
      BY <1>1, <2>1, ChainFrame DEF IInv, TypeOK, InPass
  <2> QED
      BY <1>1, <2>1, <2>2
      DEF IInv, TypeOK, PCs, StartBootstrap, envVars, ClockOrder, FirstPass,
          ReceiverDown, IntrusionInv, Safety, CachedForSameMinute,
          OlderWindowOnlyFirst, ErrOnlyWhenCancelled, AtMostOneIntrusion,
          NeverJoinsSelf, BetweenPasses, InPass, JoinInv, ReadInv, AfterRead
<1> QED  BY <1>2, <1>3

\* The loop ends on a cancelled token only.
LEMMA LoopHeadKeeps == IInv /\ LoopHead => IInv'
<1> SUFFICES ASSUME IInv, LoopHead PROVE IInv'
    OBVIOUS
<1> USE DEF LoopHead, envVars, taskVars, Exit
<1>1. TypeOK'
    BY DEF IInv, TypeOK, PCs
<1>2. ClockOrder' /\ JoinInv'
    BY DEF IInv, TypeOK, ClockOrder, InPass, JoinInv
<1>3. FirstPass' /\ OlderWindowOnlyFirst'
    BY DEF IInv, TypeOK, ClockOrder, FirstPass, Safety, OlderWindowOnlyFirst,
           BetweenPasses
<1>4. ReceiverDown' /\ ErrOnlyWhenCancelled'
    BY DEF IInv, TypeOK, ReceiverDown, Safety, ErrOnlyWhenCancelled
<1>5. IntrusionInv' /\ AtMostOneIntrusion'
    BY DEF IInv, TypeOK, IntrusionInv, Safety, AtMostOneIntrusion
<1>6. /\ ReadInv'
      /\ CachedForSameMinute' /\ NeverJoinsSelf'
    BY DEF IInv, Safety, CachedForSameMinute, NeverJoinsSelf, ReadInv, AfterRead
<1>7. Chain'
    BY ChainFrame DEF IInv, TypeOK, InPass
<1> QED  BY <1>1, <1>2, <1>3, <1>4, <1>5, <1>6, <1>7 DEF IInv, Safety

\* A pass reads the clock: cur catches up with minute, and last is behind it.
LEMMA BeginPassKeeps == IInv /\ BeginPass => IInv'
<1> SUFFICES ASSUME IInv, BeginPass PROVE IInv'
    OBVIOUS
<1> USE DEF BeginPass, envVars, taskVars, Exit, SaysJoined, SaysUnjoined, SaysErr
<1>1. TypeOK'
  <2>1. UNCHANGED <<config, minute, neighbors, receiverUp, cancelled, last,
                  records, cachedFrom, todo, jobs, backs, met, intrusions>>
      OBVIOUS
  <2>2. pc' \in PCs /\ result' \in {"none", "ok", "err"}
      BY DEF IInv, TypeOK, PCs
  <2>3. isJoinedRet' \in BOOLEAN
      BY DEF IInv, TypeOK
  <2>4. cur' \in Nat /\ offset' \in {0, 1} /\ passes' \in {0, 1, 2}
      BY DEF IInv, TypeOK
  <2> HIDE DEF BeginPass, Exit, envVars, taskVars
  <2> QED  BY <2>1, <2>2, <2>3, <2>4 DEF IInv, TypeOK
<1>2. ClockOrder' /\ JoinInv'
    BY DEF IInv, TypeOK, ClockOrder, InPass, JoinInv
<1>3. FirstPass' /\ OlderWindowOnlyFirst'
    BY DEF IInv, TypeOK, ClockOrder, FirstPass, Safety, OlderWindowOnlyFirst,
           BetweenPasses
<1>4. ReceiverDown' /\ ErrOnlyWhenCancelled'
    BY DEF IInv, TypeOK, ReceiverDown, Safety, ErrOnlyWhenCancelled
<1>5. IntrusionInv' /\ AtMostOneIntrusion'
    BY DEF IInv, TypeOK, IntrusionInv, Safety, AtMostOneIntrusion
<1>6. /\ ReadInv'
      /\ CachedForSameMinute' /\ NeverJoinsSelf'
    BY DEF IInv, Safety, CachedForSameMinute, NeverJoinsSelf, ReadInv, AfterRead
<1>7. Chain'
    BY ChainFrame DEF IInv, TypeOK, InPass
<1> QED  BY <1>1, <1>2, <1>3, <1>4, <1>5, <1>6, <1>7 DEF IInv, Safety

\* The join loop is entered by a node without neighbors.
LEMMA RecheckKeeps == IInv /\ Recheck => IInv'
<1> SUFFICES ASSUME IInv, Recheck PROVE IInv'
    OBVIOUS
<1> USE DEF Recheck, envVars, taskVars, Exit, SaysJoined, SaysUnjoined, SaysErr
<1>1. TypeOK'
  <2>1. UNCHANGED <<config, minute, neighbors, receiverUp, cancelled, cur,
                  offset, last, records, cachedFrom, todo, jobs, passes, backs, met,
                  intrusions>>
      OBVIOUS
  <2>2. pc' \in PCs /\ result' \in {"none", "ok", "err"}
      BY DEF IInv, TypeOK, PCs
  <2>3. isJoinedRet' \in BOOLEAN
      BY DEF IInv, TypeOK
  <2> HIDE DEF Recheck, Exit, envVars, taskVars
  <2> QED  BY <2>1, <2>2, <2>3 DEF IInv, TypeOK
<1>2. ClockOrder' /\ JoinInv'
    BY DEF IInv, TypeOK, ClockOrder, InPass, JoinInv
<1>3. FirstPass' /\ OlderWindowOnlyFirst'
    BY DEF IInv, TypeOK, ClockOrder, FirstPass, Safety, OlderWindowOnlyFirst,
           BetweenPasses
<1>4. ReceiverDown' /\ ErrOnlyWhenCancelled'
    BY DEF IInv, TypeOK, ReceiverDown, Safety, ErrOnlyWhenCancelled
<1>5. IntrusionInv' /\ AtMostOneIntrusion'
    BY DEF IInv, TypeOK, IntrusionInv, Safety, AtMostOneIntrusion
<1>6. /\ ReadInv'
      /\ CachedForSameMinute' /\ NeverJoinsSelf'
    BY DEF IInv, Safety, CachedForSameMinute, NeverJoinsSelf, ReadInv, AfterRead
<1>7. Chain'
    BY ChainFrame DEF IInv, TypeOK, InPass
<1> QED  BY <1>1, <1>2, <1>3, <1>4, <1>5, <1>6, <1>7 DEF IInv, Safety

\* The one step that can disturb a joined node's neighborhood.
LEMMA JoinPeerKeeps == IInv /\ JoinPeer => IInv'
<1> SUFFICES ASSUME IInv, JoinPeer PROVE IInv'
    OBVIOUS
<1> USE DEF JoinPeer, envVars, taskVars
<1>1. TypeOK'
    BY DEF IInv, TypeOK, PCs
<1>2. ClockOrder' /\ JoinInv'
    BY DEF IInv, TypeOK, ClockOrder, InPass, JoinInv
<1>3. FirstPass' /\ OlderWindowOnlyFirst'
    BY DEF IInv, TypeOK, ClockOrder, FirstPass, Safety, OlderWindowOnlyFirst,
           BetweenPasses
<1>4. ReceiverDown' /\ ErrOnlyWhenCancelled'
    BY DEF IInv, TypeOK, ReceiverDown, Safety, ErrOnlyWhenCancelled
<1>5. IntrusionInv' /\ AtMostOneIntrusion'
    BY DEF IInv, TypeOK, IntrusionInv, Safety, AtMostOneIntrusion
<1>6. /\ ReadInv'
      /\ CachedForSameMinute' /\ NeverJoinsSelf'
    BY DEF IInv, Safety, CachedForSameMinute, NeverJoinsSelf, ReadInv, AfterRead
<1>7. Chain'
    BY ChainFrame DEF IInv, TypeOK, InPass
<1> QED  BY <1>1, <1>2, <1>3, <1>4, <1>5, <1>6, <1>7 DEF IInv, Safety

\* The join loop goes on only without neighbors, so no intrusion is pending.
LEMMA SettleKeeps == IInv /\ Settle => IInv'
<1> SUFFICES ASSUME IInv, Settle PROVE IInv'
    OBVIOUS
<1> USE DEF Settle, envVars, taskVars, Exit, SaysJoined, SaysUnjoined, SaysErr
<1>1. TypeOK'
  <2>1. UNCHANGED <<config, minute, neighbors, receiverUp, cancelled, cur,
                  offset, last, records, cachedFrom, todo, jobs, passes, backs, met,
                  intrusions>>
      OBVIOUS
  <2>2. pc' \in PCs /\ result' \in {"none", "ok", "err"}
      BY DEF IInv, TypeOK, PCs
  <2>3. isJoinedRet' \in BOOLEAN
      BY DEF IInv, TypeOK
  <2> HIDE DEF Settle, Exit, envVars, taskVars
  <2> QED  BY <2>1, <2>2, <2>3 DEF IInv, TypeOK
<1>2. ClockOrder' /\ JoinInv'
    BY DEF IInv, TypeOK, ClockOrder, InPass, JoinInv
<1>3. FirstPass' /\ OlderWindowOnlyFirst'
    BY DEF IInv, TypeOK, ClockOrder, FirstPass, Safety, OlderWindowOnlyFirst,
           BetweenPasses
<1>4. ReceiverDown' /\ ErrOnlyWhenCancelled'
    BY DEF IInv, TypeOK, ReceiverDown, Safety, ErrOnlyWhenCancelled
<1>5. IntrusionInv' /\ AtMostOneIntrusion'
    BY DEF IInv, TypeOK, IntrusionInv, Safety, AtMostOneIntrusion
<1>6. /\ ReadInv'
      /\ CachedForSameMinute' /\ NeverJoinsSelf'
    BY DEF IInv, Safety, CachedForSameMinute, NeverJoinsSelf, ReadInv, AfterRead
<1>7. Chain'
    BY ChainFrame DEF IInv, TypeOK, InPass
<1> QED  BY <1>1, <1>2, <1>3, <1>4, <1>5, <1>6, <1>7 DEF IInv, Safety

\* The check after the join loop.
LEMMA ConfirmKeeps == IInv /\ Confirm => IInv'
<1> SUFFICES ASSUME IInv, Confirm PROVE IInv'
    OBVIOUS
<1> USE DEF Confirm, envVars, taskVars, Exit, SaysJoined, SaysUnjoined, SaysErr
<1>1. TypeOK'
    BY DEF IInv, TypeOK, PCs
<1>2. ClockOrder' /\ JoinInv'
    BY DEF IInv, TypeOK, ClockOrder, InPass, JoinInv
<1>3. FirstPass' /\ OlderWindowOnlyFirst'
    BY DEF IInv, TypeOK, ClockOrder, FirstPass, Safety, OlderWindowOnlyFirst,
           BetweenPasses
<1>4. ReceiverDown' /\ ErrOnlyWhenCancelled'
    BY DEF IInv, TypeOK, ReceiverDown, Safety, ErrOnlyWhenCancelled
<1>5. IntrusionInv' /\ AtMostOneIntrusion'
    BY DEF IInv, TypeOK, IntrusionInv, Safety, AtMostOneIntrusion
<1>6. /\ ReadInv'
      /\ CachedForSameMinute' /\ NeverJoinsSelf'
    BY DEF IInv, Safety, CachedForSameMinute, NeverJoinsSelf, ReadInv, AfterRead
<1>7. Chain'
    BY ChainFrame DEF IInv, TypeOK, InPass
<1> QED  BY <1>1, <1>2, <1>3, <1>4, <1>5, <1>6, <1>7 DEF IInv, Safety

\* The wait before the final check.
LEMMA ConfirmWaitKeeps == IInv /\ ConfirmWait => IInv'
<1> SUFFICES ASSUME IInv, ConfirmWait PROVE IInv'
    OBVIOUS
<1> USE DEF ConfirmWait, envVars, taskVars, Exit
<1>1. TypeOK'
    BY DEF IInv, TypeOK, PCs
<1>2. ClockOrder' /\ JoinInv'
    BY DEF IInv, TypeOK, ClockOrder, InPass, JoinInv
<1>3. FirstPass' /\ OlderWindowOnlyFirst'
    BY DEF IInv, TypeOK, ClockOrder, FirstPass, Safety, OlderWindowOnlyFirst,
           BetweenPasses
<1>4. ReceiverDown' /\ ErrOnlyWhenCancelled'
    BY DEF IInv, TypeOK, ReceiverDown, Safety, ErrOnlyWhenCancelled
<1>5. IntrusionInv' /\ AtMostOneIntrusion'
    BY DEF IInv, TypeOK, IntrusionInv, Safety, AtMostOneIntrusion
<1>6. /\ ReadInv'
      /\ CachedForSameMinute' /\ NeverJoinsSelf'
    BY DEF IInv, Safety, CachedForSameMinute, NeverJoinsSelf, ReadInv, AfterRead
<1>7. Chain'
    BY ChainFrame DEF IInv, TypeOK, InPass
<1> QED  BY <1>1, <1>2, <1>3, <1>4, <1>5, <1>6, <1>7 DEF IInv, Safety

\* The wait after a pass without records.
LEMMA WaitNoPeersKeeps == IInv /\ WaitNoPeers => IInv'
<1> SUFFICES ASSUME IInv, WaitNoPeers PROVE IInv'
    OBVIOUS
<1> USE DEF WaitNoPeers, envVars, taskVars, WaitThenLoop, Exit
<1>1. TypeOK'
    BY DEF IInv, TypeOK, PCs
<1>2. ClockOrder' /\ JoinInv'
    BY DEF IInv, TypeOK, ClockOrder, InPass, JoinInv
<1>3. FirstPass' /\ OlderWindowOnlyFirst'
    BY DEF IInv, TypeOK, ClockOrder, FirstPass, Safety, OlderWindowOnlyFirst,
           BetweenPasses
<1>4. ReceiverDown' /\ ErrOnlyWhenCancelled'
    BY DEF IInv, TypeOK, ReceiverDown, Safety, ErrOnlyWhenCancelled
<1>5. IntrusionInv' /\ AtMostOneIntrusion'
    BY DEF IInv, TypeOK, IntrusionInv, Safety, AtMostOneIntrusion
<1>6. /\ ReadInv'
      /\ CachedForSameMinute' /\ NeverJoinsSelf'
    BY DEF IInv, Safety, CachedForSameMinute, NeverJoinsSelf, ReadInv, AfterRead
<1>7. Chain'
    BY ChainFrame DEF IInv, TypeOK, InPass
<1> QED  BY <1>1, <1>2, <1>3, <1>4, <1>5, <1>6, <1>7 DEF IInv, Safety

\* The wait after a pass whose peers could not be joined.
LEMMA PollKeeps == IInv /\ Poll => IInv'
<1> SUFFICES ASSUME IInv, Poll PROVE IInv'
    OBVIOUS
<1> USE DEF Poll, envVars, taskVars, WaitThenLoop, Exit
<1>1. TypeOK'
    BY DEF IInv, TypeOK, PCs
<1>2. ClockOrder' /\ JoinInv'
    BY DEF IInv, TypeOK, ClockOrder, InPass, JoinInv
<1>3. FirstPass' /\ OlderWindowOnlyFirst'
    BY DEF IInv, TypeOK, ClockOrder, FirstPass, Safety, OlderWindowOnlyFirst,
           BetweenPasses
<1>4. ReceiverDown' /\ ErrOnlyWhenCancelled'
    BY DEF IInv, TypeOK, ReceiverDown, Safety, ErrOnlyWhenCancelled
<1>5. IntrusionInv' /\ AtMostOneIntrusion'
    BY DEF IInv, TypeOK, IntrusionInv, Safety, AtMostOneIntrusion
<1>6. /\ ReadInv'
      /\ CachedForSameMinute' /\ NeverJoinsSelf'
    BY DEF IInv, Safety, CachedForSameMinute, NeverJoinsSelf, ReadInv, AfterRead
<1>7. Chain'
    BY ChainFrame DEF IInv, TypeOK, InPass
<1> QED  BY <1>1, <1>2, <1>3, <1>4, <1>5, <1>6, <1>7 DEF IInv, Safety

\* The first lookup brings no record of this node.
LEMMA GetOlderKeeps == IInv /\ GetOlder => IInv'
<1> SUFFICES ASSUME IInv, GetOlder PROVE IInv'
    OBVIOUS
<1> USE DEF GetOlder, envVars, taskVars, Answers
<1>1. TypeOK'
    BY DEF IInv, TypeOK, PCs
<1>2. ClockOrder' /\ JoinInv'
    BY DEF IInv, TypeOK, ClockOrder, InPass, JoinInv
<1>3. FirstPass' /\ OlderWindowOnlyFirst'
    BY DEF IInv, TypeOK, ClockOrder, FirstPass, Safety, OlderWindowOnlyFirst,
           BetweenPasses
<1>4. ReceiverDown' /\ ErrOnlyWhenCancelled'
    BY DEF IInv, TypeOK, ReceiverDown, Safety, ErrOnlyWhenCancelled
<1>5. IntrusionInv' /\ AtMostOneIntrusion'
    BY DEF IInv, TypeOK, IntrusionInv, Safety, AtMostOneIntrusion
<1>6. /\ ReadInv'
      /\ CachedForSameMinute' /\ NeverJoinsSelf'
    BY DEF IInv, Safety, CachedForSameMinute, NeverJoinsSelf, ReadInv, AfterRead
<1>7. Chain'
    BY ChainFrame DEF IInv, TypeOK, InPass
<1> QED  BY <1>1, <1>2, <1>3, <1>4, <1>5, <1>6, <1>7 DEF IInv, Safety

\* The clock moves forward under the values read from it.
LEMMA TickKeeps == IInv /\ Tick => IInv'
<1> SUFFICES ASSUME IInv, Tick PROVE IInv'
    OBVIOUS
<1> USE DEF Tick, envVars, taskVars
<1>1. TypeOK'
    BY DEF IInv, TypeOK, PCs
<1>2. ClockOrder' /\ JoinInv'
    BY DEF IInv, TypeOK, ClockOrder, InPass, JoinInv
<1>3. FirstPass' /\ OlderWindowOnlyFirst'
    BY DEF IInv, TypeOK, ClockOrder, FirstPass, Safety, OlderWindowOnlyFirst,
           BetweenPasses
<1>4. ReceiverDown' /\ ErrOnlyWhenCancelled'
    BY DEF IInv, TypeOK, ReceiverDown, Safety, ErrOnlyWhenCancelled
<1>5. IntrusionInv' /\ AtMostOneIntrusion'
    BY DEF IInv, TypeOK, IntrusionInv, Safety, AtMostOneIntrusion
<1>6. /\ ReadInv'
      /\ CachedForSameMinute' /\ NeverJoinsSelf'
    BY DEF IInv, Safety, CachedForSameMinute, NeverJoinsSelf, ReadInv, AfterRead
<1>7. Chain'
    BY ChainFrame DEF IInv, TypeOK, InPass
<1> QED  BY <1>1, <1>2, <1>3, <1>4, <1>5, <1>6, <1>7 DEF IInv, Safety

\* A neighbor appears while the task awaits.
LEMMA NeighborUpKeeps == IInv /\ NeighborUp => IInv'
<1> SUFFICES ASSUME IInv, NeighborUp PROVE IInv'
    OBVIOUS
<1> USE DEF NeighborUp, envVars, taskVars
<1>1. TypeOK'
    BY DEF IInv, TypeOK, PCs
<1>2. ClockOrder' /\ JoinInv'
    BY DEF IInv, TypeOK, ClockOrder, InPass, JoinInv
<1>3. FirstPass' /\ OlderWindowOnlyFirst'
    BY DEF IInv, TypeOK, ClockOrder, FirstPass, Safety, OlderWindowOnlyFirst,
           BetweenPasses
<1>4. ReceiverDown' /\ ErrOnlyWhenCancelled'
    BY DEF IInv, TypeOK, ReceiverDown, Safety, ErrOnlyWhenCancelled
<1>5. IntrusionInv' /\ AtMostOneIntrusion'
    BY DEF IInv, TypeOK, IntrusionInv, Safety, AtMostOneIntrusion
<1>6. /\ ReadInv'
      /\ CachedForSameMinute' /\ NeverJoinsSelf'
    BY DEF IInv, Safety, CachedForSameMinute, NeverJoinsSelf, ReadInv, AfterRead
<1>7. Chain'
    BY ChainFrame DEF IInv, TypeOK, InPass
<1> QED  BY <1>1, <1>2, <1>3, <1>4, <1>5, <1>6, <1>7 DEF IInv, Safety

\* A neighbor disappears while the task awaits.
LEMMA NeighborDownKeeps == IInv /\ NeighborDown => IInv'
<1> SUFFICES ASSUME IInv, NeighborDown PROVE IInv'
    OBVIOUS
<1> USE DEF NeighborDown, envVars, taskVars
<1>1. TypeOK'
    BY DEF IInv, TypeOK, PCs
<1>2. ClockOrder' /\ JoinInv'
    BY DEF IInv, TypeOK, ClockOrder, InPass, JoinInv
<1>3. FirstPass' /\ OlderWindowOnlyFirst'
    BY DEF IInv, TypeOK, ClockOrder, FirstPass, Safety, OlderWindowOnlyFirst,
           BetweenPasses
<1>4. ReceiverDown' /\ ErrOnlyWhenCancelled'
    BY DEF IInv, TypeOK, ReceiverDown, Safety, ErrOnlyWhenCancelled
<1>5. IntrusionInv' /\ AtMostOneIntrusion'
    BY DEF IInv, TypeOK, IntrusionInv, Safety, AtMostOneIntrusion
<1>6. /\ ReadInv'
      /\ CachedForSameMinute' /\ NeverJoinsSelf'
    BY DEF IInv, Safety, CachedForSameMinute, NeverJoinsSelf, ReadInv, AfterRead
<1>7. Chain'
    BY ChainFrame DEF IInv, TypeOK, InPass
<1> QED  BY <1>1, <1>2, <1>3, <1>4, <1>5, <1>6, <1>7 DEF IInv, Safety

\* The token is cancelled while the task awaits.
LEMMA CancelKeeps == IInv /\ Cancel => IInv'
<1> SUFFICES ASSUME IInv, Cancel PROVE IInv'
    OBVIOUS
<1> USE DEF Cancel, envVars, taskVars
<1>1. TypeOK'
    BY DEF IInv, TypeOK, PCs
<1>2. ClockOrder' /\ JoinInv'
    BY DEF IInv, TypeOK, ClockOrder, InPass, JoinInv
<1>3. FirstPass' /\ OlderWindowOnlyFirst'
    BY DEF IInv, TypeOK, ClockOrder, FirstPass, Safety, OlderWindowOnlyFirst,
           BetweenPasses
<1>4. ReceiverDown' /\ ErrOnlyWhenCancelled'
    BY DEF IInv, TypeOK, ReceiverDown, Safety, ErrOnlyWhenCancelled
<1>5. IntrusionInv' /\ AtMostOneIntrusion'
    BY DEF IInv, TypeOK, IntrusionInv, Safety, AtMostOneIntrusion
<1>6. /\ ReadInv'
      /\ CachedForSameMinute' /\ NeverJoinsSelf'
    BY DEF IInv, Safety, CachedForSameMinute, NeverJoinsSelf, ReadInv, AfterRead
<1>7. Chain'
    BY ChainFrame DEF IInv, TypeOK, InPass
<1> QED  BY <1>1, <1>2, <1>3, <1>4, <1>5, <1>6, <1>7 DEF IInv, Safety

\* The receiver actor ends after the token.
LEMMA ReceiverStopKeeps == IInv /\ ReceiverStop => IInv'
<1> SUFFICES ASSUME IInv, ReceiverStop PROVE IInv'
    OBVIOUS
<1> USE DEF ReceiverStop, envVars, taskVars
<1>1. TypeOK'
  <2>1. UNCHANGED <<config, minute, neighbors, cancelled, pc, cur, offset,
                  last, records, cachedFrom, todo, isJoinedRet, result, jobs, passes,
                  backs, met, intrusions>>
      OBVIOUS
  <2>2. receiverUp' = FALSE
      OBVIOUS
  <2> HIDE DEF ReceiverStop, envVars, taskVars
  <2> QED  BY <2>1, <2>2 DEF IInv, TypeOK
<1>2. ClockOrder' /\ JoinInv'
    BY DEF IInv, TypeOK, ClockOrder, InPass, JoinInv
<1>3. FirstPass' /\ OlderWindowOnlyFirst'
    BY DEF IInv, TypeOK, ClockOrder, FirstPass, Safety, OlderWindowOnlyFirst,
           BetweenPasses
<1>4. ReceiverDown' /\ ErrOnlyWhenCancelled'
    BY DEF IInv, TypeOK, ReceiverDown, Safety, ErrOnlyWhenCancelled
<1>5. IntrusionInv' /\ AtMostOneIntrusion'
    BY DEF IInv, TypeOK, IntrusionInv, Safety, AtMostOneIntrusion
<1>6. /\ ReadInv'
      /\ CachedForSameMinute' /\ NeverJoinsSelf'
    BY DEF IInv, Safety, CachedForSameMinute, NeverJoinsSelf, ReadInv, AfterRead
<1>7. Chain'
    BY ChainFrame DEF IInv, TypeOK, InPass
<1> QED  BY <1>1, <1>2, <1>3, <1>4, <1>5, <1>6, <1>7 DEF IInv, Safety

\* The receiver actor ends and cancels the token.
LEMMA GossipClosedKeeps == IInv /\ GossipClosed => IInv'
<1> SUFFICES ASSUME IInv, GossipClosed PROVE IInv'
    OBVIOUS
<1> USE DEF GossipClosed, envVars, taskVars
<1>1. TypeOK'
  <2>1. UNCHANGED <<config, minute, neighbors, pc, cur, offset, last, records, cachedFrom,
                  todo, isJoinedRet, result, jobs, passes, backs, met,
                  intrusions>>
      OBVIOUS
  <2>2. receiverUp' = FALSE /\ cancelled' = TRUE
      OBVIOUS
  <2> HIDE DEF GossipClosed, envVars, taskVars
  <2> QED  BY <2>1, <2>2 DEF IInv, TypeOK
<1>2. ClockOrder' /\ JoinInv'
    BY DEF IInv, TypeOK, ClockOrder, InPass, JoinInv
<1>3. FirstPass' /\ OlderWindowOnlyFirst'
    BY DEF IInv, TypeOK, ClockOrder, FirstPass, Safety, OlderWindowOnlyFirst,
           BetweenPasses
<1>4. ReceiverDown' /\ ErrOnlyWhenCancelled'
    BY DEF IInv, TypeOK, ReceiverDown, Safety, ErrOnlyWhenCancelled
<1>5. IntrusionInv' /\ AtMostOneIntrusion'
    BY DEF IInv, TypeOK, IntrusionInv, Safety, AtMostOneIntrusion
<1>6. /\ ReadInv'
      /\ CachedForSameMinute' /\ NeverJoinsSelf'
    BY DEF IInv, Safety, CachedForSameMinute, NeverJoinsSelf, ReadInv, AfterRead
<1>7. Chain'
    BY ChainFrame DEF IInv, TypeOK, InPass
<1> QED  BY <1>1, <1>2, <1>3, <1>4, <1>5, <1>6, <1>7 DEF IInv, Safety

\* The second lookup: the pass publishes and waits, or has nodes to join.
LEMMA GetCurrentKeeps == IInv /\ GetCurrent => IInv'
<1> SUFFICES ASSUME IInv, GetCurrent PROVE IInv'
    OBVIOUS
<1> USE DEF GetCurrent, envVars
<1>1. /\ records' \subseteq {r \in Records : r.pub # Self}
      /\ cachedFrom' = Minus(cur, offset) /\ cachedFrom' \in Nat
      /\ UNCHANGED <<cur, offset>>
    BY DEF IInv, ReadInv, Answers, TypeOK, Minus
<1>2. pc \in InPass /\ config' = config
    BY DEF InPass
<1>3. CASE records' = {}
  <2>1. PublishIfDue(cachedFrom') /\ pc' = "noPeers" /\ todo' = todo
      BY <1>3
  <2>2. /\ last' = cur
        /\ jobs' \in Seq(Job)
        /\ Chain'
        /\ CachedForSameMinute'
      BY <1>1, <1>2, <2>1, PublishIfDueKeeps DEF InPass
  <2>3. TypeOK'
      BY <1>1, <2>1, <2>2 DEF IInv, TypeOK, PCs
  <2>4. ClockOrder' /\ JoinInv'
      BY <1>2, <2>1, <2>2 DEF IInv, TypeOK, ClockOrder, InPass, JoinInv
  <2>5. FirstPass' /\ OlderWindowOnlyFirst'
      BY <1>2, <2>1, <2>2
      DEF IInv, TypeOK, ClockOrder, FirstPass, Safety, OlderWindowOnlyFirst,
          BetweenPasses, InPass
  <2>6. /\ ReceiverDown' /\ ErrOnlyWhenCancelled' /\ IntrusionInv'
        /\ AtMostOneIntrusion' /\ NeverJoinsSelf' /\ ReadInv'
      BY <1>1, <2>1
      DEF IInv, ReceiverDown, Safety, ErrOnlyWhenCancelled, IntrusionInv,
          AtMostOneIntrusion, NeverJoinsSelf, ReadInv, AfterRead
  <2> QED  BY <1>1, <2>2, <2>3, <2>4, <2>5, <2>6 DEF IInv, Safety
<1>4. CASE records' # {}
  <2>1. pc' = "recheck" /\ last' = last /\ jobs' = jobs
      BY <1>4
  <2>2. todo' \subseteq EndpointIds /\ Self \notin todo'
    <3>1. todo' = BootstrapNodes(records')
        BY <1>4
    <3>2. Self \notin {r.pub : r \in records'}
        BY <1>1
    <3> QED  BY <3>1, <3>2, BootstrapNodesSelf
  <2>3. TypeOK'
      BY <1>1, <2>1, <2>2 DEF IInv, TypeOK, PCs
  <2>4. ClockOrder' /\ JoinInv'
      BY <2>1 DEF IInv, TypeOK, ClockOrder, InPass, JoinInv
  <2>5. FirstPass' /\ OlderWindowOnlyFirst'
      BY <2>1
      DEF IInv, TypeOK, FirstPass, Safety, OlderWindowOnlyFirst, BetweenPasses
  <2>6. /\ ReceiverDown' /\ ErrOnlyWhenCancelled' /\ IntrusionInv'
        /\ AtMostOneIntrusion' /\ NeverJoinsSelf' /\ ReadInv'
      BY <1>1, <2>1, <2>2
      DEF IInv, ReceiverDown, Safety, ErrOnlyWhenCancelled, IntrusionInv,
          AtMostOneIntrusion, NeverJoinsSelf, ReadInv, AfterRead, Minus
  <2>7. CachedForSameMinute'
      BY <2>1 DEF IInv, Safety, CachedForSameMinute
  <2>8. Chain'
      BY <2>1, ChainFrame DEF IInv, TypeOK, InPass
  <2> QED  BY <1>1, <2>3, <2>4, <2>5, <2>6, <2>7, <2>8 DEF IInv, Safety
<1> QED  BY <1>3, <1>4

\* The end of an unsuccessful pass: the fallback publication.
LEMMA FinalCheckKeeps == IInv /\ FinalCheck => IInv'
<1> SUFFICES ASSUME IInv, FinalCheck PROVE IInv'
    OBVIOUS
<1> USE DEF FinalCheck, envVars
<1>1. pc \in InPass /\ config' = config
    BY DEF InPass
<1>2. CASE /\ SaysUnjoined /\ PublishIfDue(cachedFrom) /\ pc' = "poll"
           /\ UNCHANGED <<isJoinedRet, result>>
  <2>1. /\ last' = cur
        /\ jobs' \in Seq(Job)
        /\ Chain'
        /\ CachedForSameMinute'
    <3>1. cachedFrom = Minus(cur, offset)
        BY DEF IInv, ReadInv, AfterRead
    <3> QED  BY <1>1, <1>2, <3>1, PublishIfDueKeeps DEF InPass
  <2>2. TypeOK'
      BY <1>2, <2>1 DEF IInv, TypeOK, PCs
  <2>3. ClockOrder' /\ JoinInv'
      BY <1>1, <1>2, <2>1 DEF IInv, TypeOK, ClockOrder, InPass, JoinInv
  <2>4. FirstPass' /\ OlderWindowOnlyFirst'
      BY <1>1, <1>2, <2>1
      DEF IInv, TypeOK, ClockOrder, FirstPass, Safety, OlderWindowOnlyFirst,
          BetweenPasses, InPass
  <2>5. /\ ReceiverDown' /\ ErrOnlyWhenCancelled' /\ IntrusionInv'
        /\ AtMostOneIntrusion' /\ NeverJoinsSelf'
        /\ ReadInv'
      BY <1>2
      DEF IInv, ReceiverDown, Safety, ErrOnlyWhenCancelled, IntrusionInv,
          AtMostOneIntrusion, NeverJoinsSelf, ReadInv, AfterRead
  <2> QED  BY <2>1, <2>2, <2>3, <2>4, <2>5 DEF IInv, Safety
<1>3. CASE \/ SaysJoined /\ Exit(TRUE) /\ UNCHANGED <<last, jobs>>
           \/ SaysErr /\ Exit(isJoinedRet) /\ UNCHANGED <<last, jobs>>
  <2>1. pc' = "done" /\ last' = last /\ jobs' = jobs
      BY <1>3 DEF Exit
  <2>2. TypeOK'
      BY <1>3, <2>1, ZenonT(60) DEF IInv, TypeOK, PCs, Exit
  <2>3. ClockOrder' /\ FirstPass' /\ OlderWindowOnlyFirst'
      BY <2>1
      DEF IInv, TypeOK, ClockOrder, InPass, FirstPass, Safety,
          OlderWindowOnlyFirst, BetweenPasses
  <2>4. ReceiverDown' /\ ErrOnlyWhenCancelled'
      BY <1>3 DEF IInv, ReceiverDown, ErrOnlyWhenCancelled, Exit, SaysErr
  <2>5. /\ IntrusionInv' /\ AtMostOneIntrusion' /\ NeverJoinsSelf'
        /\ ReadInv'
      BY <2>1 DEF IInv, Safety, IntrusionInv, AtMostOneIntrusion, NeverJoinsSelf,
                  ReadInv, AfterRead
  <2>6. CachedForSameMinute'
      BY <2>1 DEF IInv, Safety, CachedForSameMinute
  <2>7. Chain'
      BY <2>1, ChainFrame DEF IInv, TypeOK, InPass
  <2>8. JoinInv'
      BY <1>3, <2>1 DEF IInv, JoinInv, Exit, SaysJoined
  <2> QED  BY <2>2, <2>3, <2>4, <2>5, <2>6, <2>7, <2>8 DEF IInv, Safety
<1> QED  BY <1>2, <1>3

\* The clock is set back: one later value becomes too late, and is paid for.
LEMMA SetBackKeeps == IInv /\ SetBack => IInv'
<1> SUFFICES ASSUME IInv, SetBack PROVE IInv'
    OBVIOUS
<1> USE DEF SetBack, envVars, taskVars
<1>1. TypeOK'
    BY DEF IInv, TypeOK, PCs
<1>2. ClockOrder' /\ JoinInv'
    BY DEF IInv, TypeOK, ClockOrder, InPass, JoinInv
<1>3. FirstPass' /\ OlderWindowOnlyFirst'
    BY DEF IInv, TypeOK, ClockOrder, FirstPass, Safety, OlderWindowOnlyFirst,
           BetweenPasses
<1>4. ReceiverDown' /\ ErrOnlyWhenCancelled'
    BY DEF IInv, TypeOK, ReceiverDown, Safety, ErrOnlyWhenCancelled
<1>5. IntrusionInv' /\ AtMostOneIntrusion'
    BY DEF IInv, TypeOK, IntrusionInv, Safety, AtMostOneIntrusion
<1>6. /\ ReadInv'
      /\ CachedForSameMinute' /\ NeverJoinsSelf'
    BY DEF IInv, Safety, CachedForSameMinute, NeverJoinsSelf, ReadInv, AfterRead
<1>7. Chain'
  <2>1. /\ UNCHANGED <<jobs, last, cur, config, pc>> /\ backs' = backs + 1
        /\ minute \in Nat /\ minute' \in Nat /\ cur \in Nat /\ last \in Nat
        /\ backs \in Nat /\ jobs \in Seq(Job) /\ Chain
      BY <1>1 DEF IInv, TypeOK
  <2>2. RepeatCount \in Nat /\ RepeatCount' = RepeatCount
      BY <2>1, RepeatsFinite DEF RepeatCount, Repeats
  <2>3. /\ Late(last, cur) \in {0, 1} /\ Late(cur, minute) \in {0, 1}
        /\ Late(last, minute) \in {0, 1}
        /\ Late(cur, minute') \in {0, 1} /\ Late(last, minute') \in {0, 1}
        /\ Late(last, cur)' = Late(last, cur)
        /\ Late(cur, minute)' = Late(cur, minute')
        /\ Late(last, minute)' = Late(last, minute')
      BY <2>1 DEF Late
  <2>4. (BothOptions' <=> BothOptions) /\ Spare' = Spare /\ Spare \in {0, 1}
      BY <2>1 DEF BothOptions, Spare
  <2>5. ASSUME pc \in InPass
        PROVE  RepeatCount' + Late(last, cur)' + Late(cur, minute)'
                  <= backs' + Spare'
    <3>1. RepeatCount + Late(last, cur) + Late(cur, minute) <= backs + Spare
        BY <2>1, <2>5 DEF Chain
    <3> HIDE DEF SetBack, envVars, taskVars
    <3> QED  BY <3>1, <2>1, <2>2, <2>3, <2>4
  <2>6. ASSUME pc \notin InPass
        PROVE  RepeatCount' + Late(last, minute)' <= backs' + Spare'
    <3>1. RepeatCount + Late(last, minute) <= backs + Spare
        BY <2>1, <2>6 DEF Chain
    <3> HIDE DEF SetBack, envVars, taskVars
    <3> QED  BY <3>1, <2>1, <2>2, <2>3, <2>4
  <2>7. /\ last' = 0 => Len(jobs') = 0 \/ (Len(jobs') = 1 /\ BothOptions')
        /\ last' # 0 => jobs' # <<>> /\ last' = jobs'[Len(jobs')].minute
      BY <2>1, <2>4 DEF Chain
  <2>8. (pc' \in InPass) = (pc \in InPass)
      BY <2>1 DEF InPass
  <2> QED  BY <2>5, <2>6, <2>7, <2>8 DEF Chain
<1> QED  BY <1>1, <1>2, <1>3, <1>4, <1>5, <1>6, <1>7 DEF IInv, Safety

\* A stuttering step changes nothing the invariant reads.
LEMMA StutterKeeps == IInv /\ UNCHANGED vars => IInv'
<1> SUFFICES ASSUME IInv, UNCHANGED vars PROVE IInv'
    OBVIOUS
<1>1. Chain'
    BY ChainFrame DEF IInv, TypeOK, vars, envVars, taskVars
<1> QED
    BY <1>1
    DEF IInv, TypeOK, vars, envVars, taskVars, ClockOrder, FirstPass, JoinInv,
        ReceiverDown, IntrusionInv, Safety, CachedForSameMinute,
        OlderWindowOnlyFirst, ErrOnlyWhenCancelled, AtMostOneIntrusion,
        NeverJoinsSelf, ReadInv, AfterRead

-----------------------------------------------------------------------------
\* IInv is an inductive invariant of the bootstrap task.
THEOREM Inductive == Spec => []IInv
<1>1. Init => IInv
    BY InitIInv
<1>2. IInv /\ [Next]_vars => IInv'
  <2> SUFFICES ASSUME IInv, [Next]_vars PROVE IInv'
      OBVIOUS
  <2>1. CASE StartBootstrap
      BY <2>1, StartBootstrapKeeps
  <2>2. CASE Task
      BY <2>2, LoopHeadKeeps, BeginPassKeeps, GetOlderKeeps, GetCurrentKeeps,
         WaitNoPeersKeeps, RecheckKeeps, JoinPeerKeeps, SettleKeeps,
         ConfirmKeeps, ConfirmWaitKeeps, FinalCheckKeeps, PollKeeps DEF Task
  <2>3. CASE Environment
      BY <2>3, TickKeeps, SetBackKeeps, NeighborUpKeeps, NeighborDownKeeps, CancelKeeps,
         ReceiverStopKeeps, GossipClosedKeeps DEF Environment
  <2>4. CASE UNCHANGED vars
      BY <2>4, StutterKeeps
  <2> QED  BY <2>1, <2>2, <2>3, <2>4 DEF Next
<1> QED  BY <1>1, <1>2, PTL DEF Spec

\* Every variable of the bootstrap task keeps its type.
THEOREM TypeCorrect == Spec => []TypeOK
<1>1. IInv => TypeOK
    BY DEF IInv
<1> QED  BY <1>1, Inductive, PTL

\* Whatever the clock, the neighbors and the token do while the task awaits, it
\* announces a minute again, or a past one, at most once for each time the clock
\* was set back, and once more with both startup options on.
THEOREM OncePerMinute == Spec => []PublishOncePerMinute
<1>1. IInv => PublishOncePerMinute
  <2> SUFFICES ASSUME IInv
               PROVE  RepeatCount <= backs + (IF BothOptions THEN 1 ELSE 0)
      BY DEF PublishOncePerMinute, BothOptions, RepeatCount
  <2>1. /\ RepeatCount \in Nat /\ backs \in Nat
        /\ Late(last, cur) \in {0, 1} /\ Late(cur, minute) \in {0, 1}
        /\ Late(last, minute) \in {0, 1}
      BY RepeatsFinite, LateTriangle DEF IInv, TypeOK
  <2>2. RepeatCount <= backs + Spare
      BY <2>1 DEF IInv, Chain, Spare
  <2> QED  BY <2>1, <2>2 DEF Spare
<1> QED  BY <1>1, Inductive, PTL

\* The older window is looked at in the first pass and in no other.
THEOREM OlderWindow == Spec => []OlderWindowOnlyFirst
<1>1. IInv => OlderWindowOnlyFirst
    BY DEF IInv, Safety
<1> QED  BY <1>1, Inductive, PTL

\* A publish task is never given the cached records of another minute's slot, though
\* the clock moves and is set back between the lookup and the publication.
THEOREM CacheMinute == Spec => []CachedForSameMinute
<1>1. IInv => CachedForSameMinute
    BY DEF IInv, Safety
<1> QED  BY <1>1, Inductive, PTL

\* The bootstrap fails only on a cancelled topic.
THEOREM ErrCancelled == Spec => []ErrOnlyWhenCancelled
<1>1. IInv => ErrOnlyWhenCancelled
    BY DEF IInv, Safety
<1> QED  BY <1>1, Inductive, PTL

\* A joined node asks at most one more peer to join, whatever the number of
\* bootstrap nodes the records name.
THEOREM OneIntrusion == Spec => []AtMostOneIntrusion
<1>1. IInv => AtMostOneIntrusion
    BY DEF IInv, Safety
<1> QED  BY <1>1, Inductive, PTL

\* The node never tries to join itself.
THEOREM NotSelf == Spec => []NeverJoinsSelf
<1>1. IInv => NeverJoinsSelf
    BY DEF IInv, Safety
<1> QED  BY <1>1, Inductive, PTL

-----------------------------------------------------------------------------
\* Each action of the task and of its surroundings is a step of the contract or
\* leaves the contract's variables alone.
LEMMA StepMeetsContract ==
    IInv /\ [Next]_vars => [Contract!Next]_(Contract!vars)
<1> SUFFICES ASSUME IInv, Next PROVE [Contract!Next]_(Contract!vars)
    BY DEF vars, envVars, taskVars, Contract!vars, Started
<1> USE DEF Started, Contract!vars, Contract!Next, envVars, taskVars
<1>1. CASE StartBootstrap
    BY <1>1 DEF StartBootstrap, Contract!Start
<1>2. CASE Environment
  <2>1. CASE NeighborUp
      BY <2>1 DEF NeighborUp, Contract!Join
  <2>2. CASE Cancel \/ GossipClosed
      BY <2>2 DEF Cancel, GossipClosed, Contract!Cancel
  <2>3. CASE Tick \/ SetBack \/ NeighborDown \/ ReceiverStop
      BY <2>3 DEF Tick, SetBack, NeighborDown, ReceiverStop
  <2> QED  BY <1>2, <2>1, <2>2, <2>3 DEF Environment
<1>3. CASE Task
  <2>1. /\ pc # "idle" /\ pc' # "idle" /\ UNCHANGED <<met, cancelled>>
      BY <1>3
      DEF Task, LoopHead, BeginPass, GetOlder, GetCurrent, WaitNoPeers, Poll,
          WaitThenLoop, Recheck, JoinPeer, Settle, Confirm, ConfirmWait,
          FinalCheck, Exit
  <2>2. result' = result \/ (pc # "done" /\ Exit(TRUE) /\ SaysJoined)
            \/ (pc # "done" /\ Exit(isJoinedRet) /\ (cancelled \/ SaysErr))
      BY <1>3
      DEF Task, LoopHead, BeginPass, GetOlder, GetCurrent, WaitNoPeers, Poll,
          WaitThenLoop, Recheck, JoinPeer, Settle, Confirm, ConfirmWait,
          FinalCheck
  <2>3. CASE result' = result
      BY <2>1, <2>3
  <2>4. CASE pc # "done" /\ Exit(TRUE) /\ SaysJoined
      BY <2>1, <2>4
      DEF IInv, JoinInv, Exit, SaysJoined, Contract!Succeed
  <2>5. CASE pc # "done" /\ Exit(isJoinedRet) /\ (cancelled \/ SaysErr)
      BY <2>1, <2>5
      DEF IInv, TypeOK, JoinInv, ReceiverDown, Exit, SaysErr, Contract!Succeed,
          Contract!Fail
  <2> QED  BY <2>2, <2>3, <2>4, <2>5
<1> QED  BY <1>1, <1>2, <1>3 DEF Next

\* The task implements the contract the topic around it relies on: one result,
\* Ok from a node that has met another, Err from a cancelled topic only.  (That
\* a result comes after a cancellation is liveness, and left to TLC.)
THEOREM ImplementsContract == Spec => Contract!Spec
<1>1. Init => Contract!Init
    BY DEF Init, Contract!Init, Started
<1>2. IInv /\ [Next]_vars => [Contract!Next]_(Contract!vars)
    BY StepMeetsContract
<1> QED  BY <1>1, <1>2, Inductive, PTL DEF Spec, Contract!Spec
=============================================================================
