---------------------------- MODULE RecordsProofs ----------------------------
(***************************************************************************)
(* For any nodes, topics, secrets, key derivation, storage nodes, contents *)
(* and clock: what is read back is what was signed, once per publisher,    *)
(* and nothing of the reader's group that was answered is missed.          *)
(*                                                                         *)
(* The first rests on where records come from: a stored record that was    *)
(* not forged was signed.  The second needs the codec to give back what it *)
(* was given (RoundTrip), the slot and the key to depend on nothing but    *)
(* the record (MeantInv), and a best value for each publisher to exist     *)
(* (Best), which is where the storage nodes have to be finitely many.      *)
(***************************************************************************)
EXTENDS Records, FiniteSetTheorems, TLAPS

\* What node n signs for a minute.
OwnRecord(n, r) ==
    /\ r.pub = n
    /\ Verified(r, TopicOf[n], r.minute)

\* A draft and a stored record were signed, or are among those nobody signed.
SourceInv ==
    /\ \A n \in Publishers :
           draft[n] # Nothing => draft[n] \in signed /\ OwnRecord(n, draft[n])
    /\ \A s \in Storage, x \in Slots :
           stored[s][x] # Nothing =>
               stored[s][x].value.sealed.record \in signed \cup Unsigned \cup {Garbage}

\* A record that a storage node is meant to hold is there, as its publisher
\* packed it, in the slot of its topic and minute.
MeantInv ==
    \A s \in Storage, x \in Slots :
        LET r == meant[s][x]
        IN  r # Nothing =>
                /\ OwnRecord(r.pub, r)
                /\ x = <<r.topic, r.minute>>
                /\ Packs(r)
                /\ stored[s][x] = ItemOf(r, EncryptionKey(r.pub, r.minute))

\* A lookup that waits has no answers yet.
AskedInv == \A n \in Readers : lookup[n].waits => lookup[n].from = {}

IInv ==
    /\ TypeOK
    /\ SourceInv
    /\ MeantInv
    /\ AskedInv
    /\ FoundIsAuthentic
    /\ OnePerPublisher

-----------------------------------------------------------------------------
\* The fields of a record.
LEMMA Fields ==
    ASSUME NEW r \in Record
    PROVE  /\ r.topic \in Topics /\ r.minute \in Minutes /\ r.pub \in Nodes
           /\ r.content \in Contents
           /\ <<r.topic, r.minute>> \in Slots
           /\ Size(r.content) \in Nat
  BY RecordsAssumption DEF Record, Slots

\* A packed record is a value of the DHT, whatever its length.
LEMMA PackedItem ==
    ASSUME NEW r \in Record, NEW n \in Nodes, NEW m \in Minutes
    PROVE  ItemOf(r, EncryptionKey(n, m)) \in Item
<1>1. EncryptionKey(n, m) \in Keys
    BY RecordsAssumption DEF EncryptionKey
<1>2. Size(r.content) \in Nat /\ Word \in Nat /\ Word > 0 /\ KeySize \in Nat
  <2>1. Size(r.content) \in Nat
      BY Fields
  <2>2. /\ MaxSize \in Nat /\ KeySize \in Nat /\ Word \in Nat
        /\ MaxSize + KeySize < Word
      BY RecordsAssumption
  <2> QED  BY <2>1, <2>2
<1>3. Size(r.content) % Word \in Nat
    BY <1>2
<1>4. 4 + Size(r.content) + KeySize \in Nat
    BY <1>2
<1>5. MaxSeq \in Nat
    BY RecordsAssumption
<1> QED  BY <1>1, <1>3, <1>4, <1>5 DEF Item, ItemOf, Pack, Encrypt

\* The codec: EncryptedRecord::from_bytes() accepts what
\* EncryptedRecord::to_bytes() lets through, whatever the size of the content,
\* so that the limit and the length in front never make a record that is put
\* unreadable.
THEOREM RoundTrip ==
    ASSUME NEW r \in Record, NEW key, Packs(r)
    PROVE  Unpacks(Pack(r, key)) /\ Pack(r, key).sealed = Encrypt(r, key)
<1> DEFINE z == Size(r.content)
<1>1. z \in Nat /\ Word \in Nat /\ KeySize \in Nat /\ MaxSize \in Nat
      /\ MaxSize + KeySize < Word
    BY Fields, RecordsAssumption
<1>2. 4 + z + KeySize <= MaxSize
    BY DEF Packs
<1>3. z \in 0..(Word - 1)
    BY <1>1, <1>2
<1>4. z % Word = z
    BY <1>1, <1>3
<1>5. Pack(r, key) = [length |-> 4 + z + KeySize, prefix |-> z,
                      sealed |-> Encrypt(r, key)]
    BY <1>4 DEF Pack
<1>6. /\ 4 + z + KeySize >= 4
      /\ z + KeySize < Word
      /\ z <= MaxSize
      /\ (4 + z + KeySize) - 4 = z + KeySize
    BY <1>1, <1>2
<1> HIDE DEF z
<1> QED  BY <1>5, <1>6 DEF Unpacks

-----------------------------------------------------------------------------
\* What a node signs verifies, and names it.
LEMMA Signed ==
    ASSUME NEW n \in Nodes, NEW m \in Minutes, NEW c \in Contents
    PROVE  Sign(n, m, c) \in Record /\ OwnRecord(n, Sign(n, m, c))
<1>1. TopicOf[n] \in Topics
    BY RecordsAssumption
<1> QED  BY <1>1 DEF Sign, Record, OwnRecord, Verified

\* A record that verifies is none of those nobody signed.
LEMMA NotUnsigned ==
    ASSUME NEW r, NEW topic, NEW minute, Verified(r, topic, minute)
    PROVE  r \notin Unsigned
<1>1. r.topic = topic /\ r.minute = minute
    BY DEF Verified
<1> QED  BY <1>1, RecordsAssumption

-----------------------------------------------------------------------------
\* The items of a lookup are those of the storage nodes that answered, once
\* each.
LEMMA Answer ==
    ASSUME NEW R \in SUBSET Storage, NEW q \in Orders(R)
    PROVE  /\ DOMAIN q \subseteq Nat /\ IsFiniteSet(DOMAIN q)
           /\ \A i \in DOMAIN q : q[i] \in R
           /\ \A s \in R : \E i \in DOMAIN q : q[i] = s
<1>1. IsFiniteSet(R)
    BY FS_Subset, RecordsAssumption
<1>2. Cardinality(R) \in Nat
    BY <1>1, FS_CardinalityType
<1>3. q \in [1..Cardinality(R) -> R] /\ \A s \in R : \E i \in DOMAIN q : q[i] = s
    BY DEF Orders
<1>4. DOMAIN q = 1..Cardinality(R)
    BY <1>3
<1>5. 1 \in Int /\ Cardinality(R) \in Int
    BY <1>2
<1>6. IsFiniteSet(1..Cardinality(R))
    BY <1>5, FS_Interval
<1>7. 1..Cardinality(R) \subseteq Nat
    BY <1>2
<1> QED  BY <1>3, <1>4, <1>6, <1>7

\* In a finite set, where the members better than one get fewer from one to a
\* better one, one has none better.
LEMMA Maximal ==
    ASSUME NEW T, IsFiniteSet(T), T # {},
           NEW better \in [T -> SUBSET T],
           \A i \in T : \A j \in better[i] :
               j \notin better[j] /\ better[j] \subseteq better[i]
    PROVE  \E i \in T : better[i] = {}
<1> DEFINE Family == {better[i] : i \in T}
<1>1. FiniteSubsetsOf(T) = SUBSET T
    BY FS_FiniteSubsetsOfFinite
<1>2. Family \subseteq FiniteSubsetsOf(T) /\ Family # {}
    BY <1>1
<1>3. IsWellFoundedOn(StrictSubsetOrdering(T), FiniteSubsetsOf(T))
    BY FS_StrictSubsetOrderingWellFounded
<1>4. PICK F \in Family : \A G \in Family :
          ~ (<<G, F>> \in StrictSubsetOrdering(T))
  <2> HIDE DEF Family
  <2> QED  BY <1>2, <1>3, WFMin
<1>5. PICK i \in T : F = better[i]
    OBVIOUS
<1>6. ASSUME NEW j \in better[i]
      PROVE  FALSE
  <2>1. j \in T /\ better[j] \subseteq better[i] /\ better[j] # better[i]
      OBVIOUS
  <2>2. better[j] \in SUBSET T /\ better[i] \in SUBSET T
      BY <2>1
  <2>3. <<better[j], better[i]>> \in StrictSubsetOrdering(T)
      BY <2>1, <2>2 DEF StrictSubsetOrdering
  <2> QED  BY <1>4, <1>5, <2>1, <2>3
<1> QED  BY <1>6

\* Among finitely many values one of each publisher is preferred.
LEMMA Best ==
    ASSUME NEW items, NEW good, good \subseteq Nat, IsFiniteSet(good),
           \A i \in good : items[i].seq \in Nat,
           NEW i0 \in good
    PROVE  \E i \in good :
               /\ items[i].value.sealed.record.pub = items[i0].value.sealed.record.pub
               /\ Preferred(items, good, i)
<1> DEFINE Same == {i \in good : items[i].value.sealed.record.pub
                                 = items[i0].value.sealed.record.pub}
           better == [i \in Same |->
                         {j \in Same : \/ items[j].seq > items[i].seq
                                       \/ items[j].seq = items[i].seq /\ j < i}]
<1>1. \A i \in Same : i \in Nat /\ items[i].seq \in Nat
    OBVIOUS
<1>2. IsFiniteSet(Same)
    BY FS_Subset
<1>3. Same # {}
    OBVIOUS
<1>4. \A i \in Same :
          items[i].value.sealed.record.pub = items[i0].value.sealed.record.pub
    OBVIOUS
<1>5. \A i \in good : items[i].value.sealed.record.pub
                        = items[i0].value.sealed.record.pub => i \in Same
    OBVIOUS
<1>6. Same \subseteq good
    OBVIOUS
<1> HIDE DEF Same
<1>7. better \in [Same -> SUBSET Same]
    OBVIOUS
<1>8. \A i \in Same : \A j \in better[i] :
          j \notin better[j] /\ better[j] \subseteq better[i]
  <2> SUFFICES ASSUME NEW i \in Same, NEW j \in better[i]
               PROVE  j \notin better[j] /\ better[j] \subseteq better[i]
      OBVIOUS
  <2>1. /\ i \in Nat /\ items[i].seq \in Nat
        /\ j \in Same /\ j \in Nat /\ items[j].seq \in Nat
        /\ items[j].seq > items[i].seq
              \/ (items[j].seq = items[i].seq /\ j < i)
      BY <1>1
  <2>2. ASSUME NEW k \in better[j]
        PROVE  k # j /\ k \in better[i]
    <3>1. /\ k \in Same /\ k \in Nat /\ items[k].seq \in Nat
          /\ items[k].seq > items[j].seq
                \/ (items[k].seq = items[j].seq /\ k < j)
        BY <1>1, <2>1
    <3>2. \/ items[k].seq > items[i].seq
          \/ items[k].seq = items[i].seq /\ k < i
        BY <2>1, <3>1
    <3>3. k # j
        BY <2>1, <3>1
    <3> QED  BY <3>1, <3>2, <3>3
  <2> QED  BY <2>2
<1>9. PICK i \in Same : better[i] = {}
  <2> HIDE DEF better
  <2> QED  BY <1>2, <1>3, <1>7, <1>8, Maximal
<1>10. \A j \in Same : items[j].seq < items[i].seq
                        \/ (items[j].seq = items[i].seq /\ i <= j)
  <2> SUFFICES ASSUME NEW j \in Same
               PROVE  items[j].seq < items[i].seq
                      \/ (items[j].seq = items[i].seq /\ i <= j)
      OBVIOUS
  <2>1. ~ (items[j].seq > items[i].seq \/ (items[j].seq = items[i].seq /\ j < i))
      BY <1>9
  <2> QED  BY <1>1, <2>1
<1> QED  BY <1>4, <1>5, <1>6, <1>10 DEF Preferred

\* Two values of one publisher are not both preferred.
LEMMA OneBest ==
    ASSUME NEW items, NEW good, good \subseteq Nat,
           \A i \in good : items[i].seq \in Nat,
           NEW i \in good, NEW j \in good,
           Preferred(items, good, i), Preferred(items, good, j),
           items[i].value.sealed.record.pub = items[j].value.sealed.record.pub
    PROVE  i = j
<1>1. \/ items[j].seq < items[i].seq
      \/ items[j].seq = items[i].seq /\ i <= j
    BY DEF Preferred
<1>2. \/ items[i].seq < items[j].seq
      \/ items[j].seq = items[i].seq /\ j <= i
    BY DEF Preferred
<1>3. i \in Nat /\ j \in Nat /\ items[i].seq \in Nat /\ items[j].seq \in Nat
    OBVIOUS
<1> QED  BY <1>1, <1>2, <1>3
-----------------------------------------------------------------------------
\* What the bounds and the constants leave of the types.
LEMMA Facts ==
    /\ Publishers \subseteq Nodes /\ Readers \subseteq Nodes
    /\ 1 \in Minutes /\ Minutes \subseteq Nat
    /\ Unsigned \subseteq Record /\ Nothing \notin Record /\ Garbage \notin Record
    /\ Nothing \notin Item
    /\ \A x \in Slots : x[1] \in Topics /\ x[2] \in Minutes
<1>1. 1 \in Minutes /\ Minutes \subseteq Nat
    BY RecordsAssumption DEF Minutes
<1>2. \A x \in Slots : x[1] \in Topics /\ x[2] \in Minutes
    BY DEF Slots
<1> QED  BY <1>1, <1>2, RecordsAssumption

LEMMA InitInv ==
    Init => IInv
<1> SUFFICES ASSUME Init
             PROVE  IInv
    OBVIOUS
<1> USE Facts DEF Init
<1>1. TypeOK
  <2>1. strays \in 0..MaxStrays
      BY RecordsAssumption
  <2> QED  BY <2>1 DEF TypeOK
<1>2. SourceInv
    BY DEF SourceInv
<1>3. MeantInv
    BY DEF MeantInv
<1>4. AskedInv
    BY DEF AskedInv
<1>5. FoundIsAuthentic
    BY DEF FoundIsAuthentic
<1>6. OnePerPublisher
    BY DEF OnePerPublisher
<1> QED  BY <1>1, <1>2, <1>3, <1>4, <1>5, <1>6 DEF IInv

LEMMA NewRecordKeeps ==
    ASSUME IInv, NEW n \in Publishers, NewRecord(n)
    PROVE  IInv'
<1> USE Facts DEF IInv
<1>1. PICK c \in Contents :
          /\ draft' = [draft EXCEPT ![n] = Sign(n, clock, c)]
          /\ signed' = signed \cup {Sign(n, clock, c)}
    BY DEF NewRecord
<1>2. UNCHANGED <<clock, stored, lookup, found, meant, strays>>
    BY DEF NewRecord
<1> DEFINE r == Sign(n, clock, c)
<1>3. n \in Nodes /\ clock \in Minutes
    BY DEF TypeOK
<1>4. r \in Record /\ OwnRecord(n, r)
    BY <1>3, Signed
<1> HIDE DEF r
<1>5. TypeOK'
    BY <1>1, <1>2, <1>4 DEF TypeOK, r
<1>6. SourceInv'
  <2>1. \A p \in Publishers :
            draft'[p] # Nothing => draft'[p] \in signed' /\ OwnRecord(p, draft'[p])
      BY <1>1, <1>4 DEF SourceInv, TypeOK, r
  <2>2. \A s \in Storage, x \in Slots :
            stored[s][x] # Nothing =>
               stored[s][x].value.sealed.record \in signed' \cup Unsigned \cup {Garbage}
      BY <1>1 DEF SourceInv
  <2> QED  BY <1>2, <2>1, <2>2 DEF SourceInv, OwnRecord
<1>7. MeantInv'
    BY <1>2 DEF MeantInv
<1>8. AskedInv'
    BY <1>2 DEF AskedInv
<1>9. FoundIsAuthentic'
    BY <1>1, <1>2 DEF FoundIsAuthentic
<1>10. OnePerPublisher'
    BY <1>2 DEF OnePerPublisher
<1> QED  BY <1>5, <1>6, <1>7, <1>8, <1>9, <1>10

LEMMA PutKeeps ==
    ASSUME IInv, NEW n \in Publishers, Put(n)
    PROVE  IInv'
<1> USE Facts DEF IInv
<1> DEFINE r  == draft[n]
           at == PutAt(n, r)
           it == ItemOf(r, at.key)
<1>1. /\ r # Nothing
      /\ draft' = [draft EXCEPT ![n] = Nothing]
      /\ UNCHANGED <<clock, lookup, found, signed, strays>>
    BY DEF Put
<1>2. r \in Record /\ r \in signed /\ OwnRecord(n, r) /\ n \in Nodes
    BY <1>1 DEF TypeOK, SourceInv
<1>3. r.pub = n /\ r.topic = TopicOf[n]
    BY <1>2 DEF OwnRecord, Verified
<1>4. /\ at.slot = <<r.topic, r.minute>>
      /\ at.key = EncryptionKey(r.pub, r.minute)
    BY <1>3 DEF PutAt, Slot
<1>5. <<r.topic, r.minute>> \in Slots
    BY <1>2, Fields
<1>6. it \in Item /\ it.value.sealed.record = r /\ it # Nothing
  <2>1. r.minute \in Minutes
      BY <1>2, Fields
  <2>2. it \in Item
      BY <1>2, <1>3, <1>4, <2>1, PackedItem
  <2>3. it.value.sealed.record = r
      BY DEF ItemOf, Pack, Encrypt
  <2> QED  BY <2>2, <2>3
<1>7. CASE ~Packs(r)
  <2>1. UNCHANGED <<stored, meant>>
      BY <1>7 DEF Put
  <2>2. TypeOK'
      BY <1>1, <2>1 DEF TypeOK
  <2>3. SourceInv'
      BY <1>1, <2>1 DEF SourceInv, OwnRecord, TypeOK
  <2>4. MeantInv' /\ AskedInv' /\ FoundIsAuthentic' /\ OnePerPublisher'
      BY <1>1, <2>1 DEF MeantInv, AskedInv, FoundIsAuthentic, OnePerPublisher
  <2> QED  BY <2>2, <2>3, <2>4
<1>8. CASE Packs(r)
  <2>1. PICK W \in SUBSET Storage :
            /\ stored' = [s \in Storage |->
                   IF s \in W THEN [stored[s] EXCEPT ![at.slot] = it]
                   ELSE stored[s]]
            /\ meant' = [s \in Storage |->
                   IF s \in W THEN [meant[s] EXCEPT ![<<r.topic, r.minute>>] = r]
                   ELSE meant[s]]
      BY <1>8 DEF Put
  <2>2. stored' = [s \in Storage |->
            IF s \in W THEN [stored[s] EXCEPT ![<<r.topic, r.minute>>] = it]
            ELSE stored[s]]
      BY <1>4, <2>1
  <2>3. it = ItemOf(r, EncryptionKey(r.pub, r.minute))
      BY <1>4
  <2>4. Packs(r)
      BY <1>8
  <2> HIDE DEF r, at, it
  <2>5. TypeOK'
    <3>1. stored' \in [Storage -> [Slots -> Item \cup {Nothing}]]
        BY <1>5, <1>6, <2>2 DEF TypeOK
    <3>2. meant' \in [Storage -> [Slots -> Record \cup {Nothing}]]
        BY <1>2, <1>5, <2>1 DEF TypeOK
    <3>3. draft' \in [Publishers -> Record \cup {Nothing}]
        BY <1>1 DEF TypeOK
    <3> QED  BY <1>1, <3>1, <3>2, <3>3 DEF TypeOK
  <2>6. \A s \in Storage, x \in Slots :
            \/ x = <<r.topic, r.minute>> /\ stored'[s][x] = it /\ meant'[s][x] = r
            \/ stored'[s][x] = stored[s][x] /\ meant'[s][x] = meant[s][x]
    <3> DEFINE y == <<r.topic, r.minute>>
    <3>1. y \in Slots
        BY <1>5
    <3>2. /\ stored' = [s \in Storage |->
                 IF s \in W THEN [stored[s] EXCEPT ![y] = it] ELSE stored[s]]
          /\ meant' = [s \in Storage |->
                 IF s \in W THEN [meant[s] EXCEPT ![y] = r] ELSE meant[s]]
        BY <2>1, <2>2
    <3> HIDE DEF y
    <3>3. \A s \in Storage, x \in Slots :
              \/ x = y /\ stored'[s][x] = it /\ meant'[s][x] = r
              \/ stored'[s][x] = stored[s][x] /\ meant'[s][x] = meant[s][x]
        BY <3>1, <3>2 DEF TypeOK
    <3> QED  BY <3>3 DEF y
  <2>7. SourceInv'
    <3>1. \A p \in Publishers :
              draft'[p] # Nothing => draft'[p] \in signed /\ OwnRecord(p, draft'[p])
        BY <1>1 DEF SourceInv, TypeOK
    <3>2. \A s \in Storage, x \in Slots :
              stored'[s][x] # Nothing =>
                 stored'[s][x].value.sealed.record \in signed \cup Unsigned \cup {Garbage}
        BY <1>2, <1>6, <2>6 DEF SourceInv
    <3> QED  BY <1>1, <3>1, <3>2 DEF SourceInv, OwnRecord
  <2>8. MeantInv'
    <3> SUFFICES ASSUME NEW s \in Storage, NEW x \in Slots,
                        meant'[s][x] # Nothing
                 PROVE  LET q == meant'[s][x]
                        IN  /\ OwnRecord(q.pub, q)
                            /\ x = <<q.topic, q.minute>>
                            /\ Packs(q)
                            /\ stored'[s][x] =
                                  ItemOf(q, EncryptionKey(q.pub, q.minute))
        BY DEF MeantInv, OwnRecord
    <3>1. CASE /\ x = <<r.topic, r.minute>> /\ stored'[s][x] = it
               /\ meant'[s][x] = r
        BY <1>2, <1>3, <2>3, <2>4, <3>1
    <3>2. CASE stored'[s][x] = stored[s][x] /\ meant'[s][x] = meant[s][x]
        BY <3>2 DEF MeantInv
    <3> QED  BY <2>6, <3>1, <3>2
  <2>9. AskedInv' /\ FoundIsAuthentic' /\ OnePerPublisher'
      BY <1>1 DEF AskedInv, FoundIsAuthentic, OnePerPublisher
  <2> QED  BY <2>5, <2>7, <2>8, <2>9
<1> QED  BY <1>7, <1>8

LEMMA AskKeeps ==
    ASSUME IInv, NEW n \in Readers, Ask(n)
    PROVE  IInv'
<1> USE Facts DEF IInv
<1>1. PICK k \in 0..2 :
          /\ k < clock
          /\ lookup' = [lookup EXCEPT ![n] =
                 [minute |-> clock - k, from |-> {}, waits |-> TRUE]]
    BY DEF Ask
<1>2. /\ found' = [found EXCEPT ![n] = {}]
      /\ UNCHANGED <<clock, draft, stored, signed, meant, strays>>
    BY DEF Ask
<1>3. clock - k \in Minutes
  <2>1. clock \in 1..MaxMinute /\ MaxMinute \in Nat /\ k \in Nat /\ k < clock
      BY <1>1, RecordsAssumption DEF TypeOK, Minutes
  <2> QED  BY <2>1 DEF Minutes
<1>4. TypeOK'
    BY <1>1, <1>2, <1>3 DEF TypeOK
<1>5. SourceInv' /\ MeantInv'
    BY <1>2 DEF SourceInv, OwnRecord, MeantInv
<1>6. AskedInv'
    BY <1>1 DEF AskedInv, TypeOK
<1>7. FoundIsAuthentic' /\ OnePerPublisher'
    BY <1>1, <1>2 DEF FoundIsAuthentic, OnePerPublisher, TypeOK
<1> QED  BY <1>4, <1>5, <1>6, <1>7

LEMMA FailedKeeps ==
    ASSUME IInv, NEW n \in Readers, Failed(n)
    PROVE  IInv'
<1> USE Facts DEF IInv
<1>1. /\ lookup' = [lookup EXCEPT ![n].waits = FALSE]
      /\ UNCHANGED <<clock, draft, stored, found, signed, meant, strays>>
    BY DEF Failed
<1>2. \A m \in Readers :
          /\ lookup'[m].minute = lookup[m].minute
          /\ lookup'[m].from = lookup[m].from
          /\ lookup'[m].waits => lookup[m].waits
    BY <1>1 DEF TypeOK
<1>3. TypeOK'
    BY <1>1 DEF TypeOK
<1>4. SourceInv' /\ MeantInv'
    BY <1>1 DEF SourceInv, OwnRecord, MeantInv
<1>5. AskedInv'
    BY <1>2 DEF AskedInv
<1>6. FoundIsAuthentic' /\ OnePerPublisher'
    BY <1>1, <1>2 DEF FoundIsAuthentic, OnePerPublisher
<1> QED  BY <1>3, <1>4, <1>5, <1>6

LEMMA TickKeeps ==
    ASSUME IInv, Tick
    PROVE  IInv'
<1> USE Facts DEF IInv, Tick
<1>1. clock' \in Minutes
    BY RecordsAssumption DEF TypeOK, Minutes
<1>2. TypeOK'
    BY <1>1 DEF TypeOK
<1>3. SourceInv' /\ MeantInv' /\ AskedInv' /\ FoundIsAuthentic' /\ OnePerPublisher'
    BY DEF SourceInv, OwnRecord, MeantInv, AskedInv, FoundIsAuthentic, OnePerPublisher
<1> QED  BY <1>2, <1>3

\* What a storage node may hold instead of what these nodes put there.
LEMMA StrayItem ==
    ASSUME TypeOK, NEW r \in signed \cup Unsigned, NEW n \in Nodes, NEW m \in Minutes,
           NEW it \in Variants(ItemOf(r, EncryptionKey(n, m)))
    PROVE  it \in Item /\ it.value.sealed.record \in {r, Garbage}
<1> DEFINE made == ItemOf(r, EncryptionKey(n, m))
<1>1. r \in Record
    BY Facts DEF TypeOK
<1>2. made \in Item
    BY <1>1, PackedItem
<1>3. made.value.length - 1 \in Nat
  <2>1. made.value.length = 4 + Size(r.content) + KeySize
      BY DEF ItemOf, Pack
  <2>2. Size(r.content) \in Nat /\ KeySize \in Nat
      BY <1>1, Fields, RecordsAssumption
  <2> QED  BY <2>1, <2>2
<1>4. made.value.sealed.record = r
    BY DEF ItemOf, Pack, Encrypt
<1>5. \/ it = made
      \/ it = [made EXCEPT !.seq = 0]
      \/ it = [made EXCEPT !.value.length = @ - 1]
      \/ it = [made EXCEPT !.value.sealed.record = Garbage]
    BY DEF Variants
<1> HIDE DEF made
<1>6. CASE it = made
    BY <1>2, <1>4, <1>6
<1>7. CASE it = [made EXCEPT !.seq = 0]
    BY <1>2, <1>4, <1>7 DEF Item
<1>8. CASE it = [made EXCEPT !.value.length = @ - 1]
    BY <1>2, <1>3, <1>4, <1>8 DEF Item
<1>9. CASE it = [made EXCEPT !.value.sealed.record = Garbage]
    BY <1>2, <1>9 DEF Item
<1> QED  BY <1>5, <1>6, <1>7, <1>8, <1>9

LEMMA StrayKeeps ==
    ASSUME IInv, Stray
    PROVE  IInv'
<1> USE Facts DEF IInv
<1>1. PICK s \in Storage, x \in Slots :
          /\ \/ stored' = [stored EXCEPT ![s][x] = Nothing]
             \/ \E r \in signed \cup Unsigned, n \in Nodes :
                  \E it \in Variants(ItemOf(r, EncryptionKey(n, x[2]))) :
                    stored' = [stored EXCEPT ![s][x] = it]
          /\ meant' = [meant EXCEPT ![s][x] = Nothing]
    BY DEF Stray
<1>2. /\ UNCHANGED <<clock, draft, lookup, found, signed>>
      /\ strays < MaxStrays /\ strays' = strays + 1
    BY DEF Stray
<1>3. \E v \in Item \cup {Nothing} :
          /\ stored' = [stored EXCEPT ![s][x] = v]
          /\ v # Nothing =>
                 v.value.sealed.record \in signed \cup Unsigned \cup {Garbage}
  <2>1. CASE stored' = [stored EXCEPT ![s][x] = Nothing]
      BY <2>1
  <2>2. CASE \E r \in signed \cup Unsigned, n \in Nodes :
               \E it \in Variants(ItemOf(r, EncryptionKey(n, x[2]))) :
                 stored' = [stored EXCEPT ![s][x] = it]
    <3>1. PICK r \in signed \cup Unsigned, n \in Nodes :
               \E it \in Variants(ItemOf(r, EncryptionKey(n, x[2]))) :
                 stored' = [stored EXCEPT ![s][x] = it]
        BY <2>2
    <3>2. PICK it \in Variants(ItemOf(r, EncryptionKey(n, x[2]))) :
              stored' = [stored EXCEPT ![s][x] = it]
        BY <3>1
    <3>3. it \in Item /\ it.value.sealed.record \in {r, Garbage}
        BY StrayItem
    <3> QED  BY <3>2, <3>3
  <2> QED  BY <1>1, <2>1, <2>2
<1> PICK v \in Item \cup {Nothing} :
          /\ stored' = [stored EXCEPT ![s][x] = v]
          /\ v # Nothing =>
                 v.value.sealed.record \in signed \cup Unsigned \cup {Garbage}
    BY <1>3
<1>4. \A z \in Storage, y \in Slots :
          \/ stored'[z][y] = stored[z][y] /\ meant'[z][y] = meant[z][y]
          \/ stored'[z][y] = v /\ meant'[z][y] = Nothing
    BY <1>1, <1>3 DEF TypeOK
<1>5. TypeOK'
  <2>1. stored' \in [Storage -> [Slots -> Item \cup {Nothing}]]
      BY <1>3 DEF TypeOK
  <2>2. meant' \in [Storage -> [Slots -> Record \cup {Nothing}]]
      BY <1>1 DEF TypeOK
  <2>3. strays' \in 0..MaxStrays
      BY <1>2, RecordsAssumption DEF TypeOK
  <2> QED  BY <1>2, <2>1, <2>2, <2>3 DEF TypeOK
<1>6. SourceInv'
    BY <1>2, <1>3, <1>4 DEF SourceInv, OwnRecord
<1>7. MeantInv'
    BY <1>4 DEF MeantInv, OwnRecord
<1>8. AskedInv' /\ FoundIsAuthentic' /\ OnePerPublisher'
    BY <1>2 DEF AskedInv, FoundIsAuthentic, OnePerPublisher
<1> QED  BY <1>5, <1>6, <1>7, <1>8

-----------------------------------------------------------------------------
\* The values that the storage nodes answer with, and those that are usable.
ItemsOf(n, q) ==
    [i \in DOMAIN q |-> stored[q[i]][Slot(TopicOf[n], lookup[n].minute)]]

GoodOf(n, q) ==
    {i \in DOMAIN ItemsOf(n, q) : Usable(n, lookup[n].minute, ItemsOf(n, q)[i])}

\* Usable values hold signed records of others, for the topic and the minute.
LEMMA Items ==
    ASSUME IInv, NEW n \in Readers, NEW R \in SUBSET Storage, NEW q \in Orders(R)
    PROVE  /\ GoodOf(n, q) \subseteq Nat /\ IsFiniteSet(GoodOf(n, q))
           /\ \A i \in GoodOf(n, q) :
                 /\ ItemsOf(n, q)[i].seq \in Nat
                 /\ ItemsOf(n, q)[i].value.sealed.record \in signed
                 /\ Verified(ItemsOf(n, q)[i].value.sealed.record, TopicOf[n],
                             lookup[n].minute)
                 /\ ItemsOf(n, q)[i].value.sealed.record.pub # n
           /\ \A s \in R : \E i \in DOMAIN ItemsOf(n, q) :
                 ItemsOf(n, q)[i] = stored[s][Slot(TopicOf[n], lookup[n].minute)]
<1> DEFINE items == ItemsOf(n, q)
           good == GoodOf(n, q)
<1> DEFINE slot == Slot(TopicOf[n], lookup[n].minute)
<1>1. slot \in Slots
    BY RecordsAssumption DEF IInv, TypeOK, Slot, Slots
<1>2. DOMAIN items = DOMAIN q /\ \A i \in DOMAIN q : items[i] = stored[q[i]][slot]
    BY DEF ItemsOf
<1>3. good \subseteq DOMAIN q
    BY <1>2 DEF GoodOf
<1>4. good \subseteq Nat /\ IsFiniteSet(good)
    BY <1>3, Answer, FS_Subset
<1>5. ASSUME NEW i \in good
      PROVE  /\ items[i].seq \in Nat
             /\ items[i].value.sealed.record \in signed
             /\ Verified(items[i].value.sealed.record, TopicOf[n], lookup[n].minute)
             /\ items[i].value.sealed.record.pub # n
  <2>1. Usable(n, lookup[n].minute, items[i])
      BY DEF GoodOf
  <2>2. q[i] \in Storage /\ items[i] = stored[q[i]][slot]
      BY <1>2, <1>3, Answer
  <2>3. /\ items[i] # Nothing /\ items[i].value.sealed.record # Garbage
        /\ Verified(items[i].value.sealed.record, TopicOf[n], lookup[n].minute)
        /\ items[i].value.sealed.record.pub # n
      BY <2>1 DEF Usable, Opens
  <2>4. items[i] \in Item
    <3>1. stored[q[i]][slot] \in Item \cup {Nothing}
        BY <1>1, <2>2 DEF IInv, TypeOK
    <3> QED  BY <2>2, <2>3, <3>1
  <2>5. items[i].seq \in Nat
      BY <2>4 DEF Item
  <2>6. items[i].value.sealed.record \in signed \cup Unsigned \cup {Garbage}
    <3>1. stored[q[i]][slot] # Nothing
        BY <2>2, <2>3
    <3>2. stored[q[i]][slot].value.sealed.record \in signed \cup Unsigned \cup {Garbage}
        BY <1>1, <2>2, <3>1 DEF IInv, SourceInv
    <3> QED  BY <2>2, <3>2
  <2>7. items[i].value.sealed.record \notin Unsigned
      BY <2>3, NotUnsigned
  <2> QED  BY <2>3, <2>5, <2>6, <2>7
<1>6. \A s \in R : \E i \in DOMAIN items : items[i] = stored[s][slot]
    BY <1>2, Answer
<1> QED  BY <1>4, <1>5, <1>6

LEMMA AnsweredKeeps ==
    ASSUME IInv, NEW n \in Readers, Answered(n)
    PROVE  IInv'
<1> USE Facts DEF IInv
<1> DEFINE minute == lookup[n].minute
           slot == Slot(TopicOf[n], minute)
<1>0. PICK R \in SUBSET Storage : \E q \in Orders(R) :
          /\ found' = [found EXCEPT ![n] =
                 Dedup(n, minute, [i \in DOMAIN q |-> stored[q[i]][slot]])]
          /\ lookup' = [lookup EXCEPT ![n].from = R, ![n].waits = FALSE]
    BY DEF Answered
<1>1. PICK q \in Orders(R) :
          /\ found' = [found EXCEPT ![n] =
                 Dedup(n, minute, [i \in DOMAIN q |-> stored[q[i]][slot]])]
          /\ lookup' = [lookup EXCEPT ![n].from = R, ![n].waits = FALSE]
    BY <1>0
<1>2. UNCHANGED <<clock, draft, stored, signed, meant, strays>>
    BY DEF Answered
<1> DEFINE items == ItemsOf(n, q)
           good == GoodOf(n, q)
<1>3. /\ good \subseteq Nat
      /\ \A i \in good :
             /\ items[i].seq \in Nat
             /\ items[i].value.sealed.record \in signed
             /\ Verified(items[i].value.sealed.record, TopicOf[n], minute)
             /\ items[i].value.sealed.record.pub # n
    BY Items
<1>4. found' = [found EXCEPT ![n] =
          {items[i].value.sealed.record : i \in
              {j \in good : Preferred(items, good, j)}}]
    BY <1>1 DEF Dedup, GoodOf, ItemsOf
<1> HIDE DEF items, good
<1>5. \A r \in found'[n] : \E i \in good :
          Preferred(items, good, i) /\ r = items[i].value.sealed.record
    BY <1>4 DEF TypeOK
<1>6. \A m \in Readers : m # n => found'[m] = found[m]
    BY <1>4 DEF TypeOK
<1>7. \A m \in Readers : lookup'[m].minute = lookup[m].minute
                          /\ (m # n => lookup'[m] = lookup[m])
    BY <1>1 DEF TypeOK
<1>8. ~lookup'[n].waits
    BY <1>1 DEF TypeOK
<1>9. TypeOK'
  <2>1. \A m \in Readers : found'[m] \subseteq Record
      BY <1>3, <1>5, <1>6 DEF TypeOK
  <2>2. found' \in [Readers -> SUBSET Record]
      BY <1>4, <2>1 DEF TypeOK
  <2>3. lookup' \in [Readers -> [minute : Minutes, from : SUBSET Storage,
                                 waits : BOOLEAN]]
    <3>1. /\ lookup[n] \in [minute : Minutes, from : SUBSET Storage, waits : BOOLEAN]
          /\ lookup \in [Readers -> [minute : Minutes, from : SUBSET Storage,
                                     waits : BOOLEAN]]
        BY DEF TypeOK
    <3>2. lookup' = [lookup EXCEPT ![n] = [lookup[n] EXCEPT !.from = R, !.waits = FALSE]]
        BY <1>1
    <3>3. [lookup[n] EXCEPT !.from = R, !.waits = FALSE]
              \in [minute : Minutes, from : SUBSET Storage, waits : BOOLEAN]
        BY <3>1
    <3> QED  BY <3>1, <3>2, <3>3
  <2> QED  BY <1>2, <2>2, <2>3, ZenonT(60) DEF TypeOK
<1>10. SourceInv' /\ MeantInv'
    BY <1>2 DEF SourceInv, OwnRecord, MeantInv
<1>11. AskedInv'
    BY <1>7, <1>8 DEF AskedInv
<1>12. FoundIsAuthentic'
  <2>1. \A r \in found'[n] :
            /\ r \in signed
            /\ r.signature.by = r.pub
            /\ r.topic = TopicOf[n]
            /\ r.minute = minute
    <3> SUFFICES ASSUME NEW r \in found'[n]
                 PROVE  /\ r \in signed
                        /\ r.signature.by = r.pub
                        /\ r.topic = TopicOf[n]
                        /\ r.minute = minute
        OBVIOUS
    <3>1. r \in signed /\ Verified(r, TopicOf[n], minute)
        BY <1>3, <1>5
    <3> QED  BY <3>1 DEF Verified
  <2> QED  BY <1>2, <1>6, <1>7, <2>1 DEF FoundIsAuthentic
<1>13. OnePerPublisher'
  <2>1. ASSUME NEW r \in found'[n], NEW p \in found'[n]
        PROVE  r.pub # n /\ (r.pub = p.pub => r = p)
    <3>1. PICK i \in good :
              Preferred(items, good, i) /\ r = items[i].value.sealed.record
        BY <1>5
    <3>2. PICK j \in good :
              Preferred(items, good, j) /\ p = items[j].value.sealed.record
        BY <1>5
    <3>3. r.pub # n
        BY <1>3, <3>1
    <3>4. r.pub = p.pub => i = j
      <4>1. good \subseteq Nat /\ \A k \in good : items[k].seq \in Nat
          BY <1>3
      <4> QED  BY <3>1, <3>2, <4>1, OneBest
    <3> QED  BY <3>1, <3>2, <3>3, <3>4
  <2> QED  BY <1>6, <2>1 DEF OnePerPublisher
<1> QED  BY <1>9, <1>10, <1>11, <1>12, <1>13

LEMMA StutterKeeps ==
    ASSUME IInv, UNCHANGED vars
    PROVE  IInv'
<1> USE DEF vars, IInv
<1>1. TypeOK'
    BY DEF TypeOK
<1>2. SourceInv' /\ MeantInv' /\ AskedInv'
    BY DEF SourceInv, OwnRecord, MeantInv, AskedInv
<1>3. FoundIsAuthentic' /\ OnePerPublisher'
    BY DEF FoundIsAuthentic, OnePerPublisher
<1> QED  BY <1>1, <1>2, <1>3

LEMMA StepKeeps ==
    IInv /\ [Next]_vars => IInv'
  BY NewRecordKeeps, PutKeeps, AskKeeps, AnsweredKeeps, FailedKeeps, TickKeeps,
     StrayKeeps, StutterKeeps DEF Next

THEOREM Inductive ==
    Spec => []IInv
  BY InitInv, StepKeeps, PTL DEF Spec

\* Every record that is stored, looked up or found is a record of the types.
THEOREM TypeCorrect ==
    Spec => []TypeOK
  BY Inductive, PTL DEF IInv

\* Whatever a slot holds, what get_records() returns was signed by the publisher
\* it names, for this topic and minute.
THEOREM Authentic ==
    Spec => []FoundIsAuthentic
  BY Inductive, PTL DEF IInv

\* get_records() returns one record of a publisher at most, and none of its own.
THEOREM Deduplicated ==
    Spec => []OnePerPublisher
  BY Inductive, PTL DEF IInv

-----------------------------------------------------------------------------
\* A value that a publisher of the reader's group is meant to have in the slot
\* is usable.
LEMMA MeantIsUsable ==
    ASSUME IInv, NEW n \in Readers, NEW m \in Minutes, NEW s \in Storage,
           NEW r, r = meant[s][<<TopicOf[n], m>>], r # Nothing,
           SameGroup(n, r.pub, m)
    PROVE  /\ Usable(n, m, stored[s][Slot(TopicOf[n], m)])
           /\ stored[s][Slot(TopicOf[n], m)].value.sealed.record = r
<1> DEFINE x == <<TopicOf[n], m>>
           key == EncryptionKey(r.pub, r.minute)
<1>1. x \in Slots /\ n \in Nodes
    BY RecordsAssumption DEF Slots
<1>2. r \in Record
    BY <1>1, Facts DEF IInv, TypeOK
<1>3. /\ OwnRecord(r.pub, r)
      /\ x = <<r.topic, r.minute>>
      /\ Packs(r)
      /\ stored[s][x] = ItemOf(r, key)
    BY <1>1 DEF IInv, MeantInv
<1>4. r.topic = TopicOf[n] /\ r.minute = m
    BY <1>3
<1>5. Verified(r, TopicOf[n], m)
    BY <1>3, <1>4 DEF OwnRecord, Verified
<1>6. r.pub # n /\ key = EncryptionKey(n, m)
    BY <1>4 DEF SameGroup
<1>7. r # Garbage
    BY <1>2, Facts
<1> HIDE DEF key
<1>8. Unpacks(Pack(r, key)) /\ Pack(r, key).sealed = Encrypt(r, key)
    BY <1>2, <1>3, RoundTrip
<1>9. /\ ItemOf(r, key).value = Pack(r, key)
      /\ ItemOf(r, key).value.sealed.record = r
      /\ ItemOf(r, key).value.sealed.key = key
    BY <1>8 DEF ItemOf, Encrypt
<1>10. ItemOf(r, key) # Nothing
  <2>1. r.pub \in Nodes /\ r.minute \in Minutes
      BY <1>2, Fields
  <2> QED  BY <1>2, <2>1, PackedItem, Facts DEF key
<1>11. Slot(TopicOf[n], m) = x
    BY DEF Slot
<1>12. Usable(n, m, ItemOf(r, key))
    BY <1>5, <1>6, <1>7, <1>8, <1>9, <1>10 DEF Usable, Opens
<1> QED  BY <1>3, <1>9, <1>11, <1>12

\* A lookup that was answered.
LEMMA AnsweredMissesNobody ==
    ASSUME IInv, NEW n \in Readers, Answered(n), NEW s \in lookup'[n].from,
           NEW r, r = meant[s][<<TopicOf[n], lookup[n].minute>>], r # Nothing,
           SameGroup(n, r.pub, lookup[n].minute)
    PROVE  \E p \in found'[n] : p.pub = r.pub
<1> DEFINE minute == lookup[n].minute
           slot == Slot(TopicOf[n], minute)
<1>1. PICK R \in SUBSET Storage : \E q \in Orders(R) :
          /\ found' = [found EXCEPT ![n] =
                 Dedup(n, minute, [i \in DOMAIN q |-> stored[q[i]][slot]])]
          /\ lookup' = [lookup EXCEPT ![n].from = R, ![n].waits = FALSE]
    BY DEF Answered
<1>2. PICK q \in Orders(R) :
          /\ found' = [found EXCEPT ![n] =
                 Dedup(n, minute, [i \in DOMAIN q |-> stored[q[i]][slot]])]
          /\ lookup' = [lookup EXCEPT ![n].from = R, ![n].waits = FALSE]
    BY <1>1
<1>3. s \in R /\ s \in Storage /\ minute \in Minutes
    BY <1>2 DEF IInv, TypeOK
<1> DEFINE items == ItemsOf(n, q)
           good == GoodOf(n, q)
<1>4. found'[n] = {items[i].value.sealed.record : i \in
                      {j \in good : Preferred(items, good, j)}}
    BY <1>2 DEF IInv, TypeOK, Dedup, GoodOf, ItemsOf
<1>5. PICK i0 \in DOMAIN items : items[i0] = stored[s][slot]
    BY <1>3, Items
<1>6. Usable(n, minute, stored[s][slot]) /\ stored[s][slot].value.sealed.record = r
  <2>1. lookup[n].minute \in Minutes /\ s \in Storage
      BY <1>3
  <2>2. /\ Usable(n, lookup[n].minute,
                  stored[s][Slot(TopicOf[n], lookup[n].minute)])
        /\ stored[s][Slot(TopicOf[n], lookup[n].minute)].value.sealed.record = r
      BY <2>1, MeantIsUsable
  <2> QED  BY <2>2
<1>7. i0 \in good /\ items[i0].value.sealed.record.pub = r.pub
    BY <1>5, <1>6 DEF GoodOf
<1>8. good \subseteq Nat /\ IsFiniteSet(good) /\ \A i \in good : items[i].seq \in Nat
    BY Items
<1> HIDE DEF items, good
<1>9. PICK i \in good :
          /\ items[i].value.sealed.record.pub = items[i0].value.sealed.record.pub
          /\ Preferred(items, good, i)
    BY <1>7, <1>8, Best
<1> QED  BY <1>4, <1>7, <1>9

\* A lookup misses no publisher of the reader's group whose record a storage
\* node that answered is meant to hold, whatever the clock and the other
\* values of the slot.
THEOREM MissesNobody ==
    Spec => LookupMissesNobody
<1> DEFINE Ends(n) == lookup[n].waits /\ ~lookup'[n].waits
           Misses(n) ==
               Ends(n) =>
                   \A s \in lookup'[n].from :
                       LET r == meant[s][<<TopicOf[n], lookup[n].minute>>]
                       IN  (r # Nothing /\ SameGroup(n, r.pub, lookup[n].minute)) =>
                               \E p \in found'[n] : p.pub = r.pub
<1>1. ASSUME IInv, [Next]_vars, NEW n \in Readers, Ends(n)
      PROVE  Answered(n) \/ lookup'[n].from = {}
  <2>1. ASSUME NEW m \in Readers, Ask(m)
        PROVE  FALSE
      BY <1>1, <2>1 DEF Ask, IInv, TypeOK
  <2>2. ASSUME NEW m \in Readers, Answered(m)
        PROVE  m = n
      BY <1>1, <2>2 DEF Answered, IInv, TypeOK
  <2>3. ASSUME NEW m \in Readers, Failed(m)
        PROVE  lookup'[n].from = {}
      BY <1>1, <2>3 DEF Failed, IInv, TypeOK, AskedInv
  <2>4. CASE UNCHANGED lookup
      BY <1>1, <2>4
  <2> QED  BY <1>1, <2>1, <2>2, <2>3, <2>4 DEF Next, NewRecord, Put, Tick, Stray, vars
<1>2. ASSUME IInv, [Next]_vars
      PROVE  \A n \in Readers : Misses(n)
  <2> SUFFICES ASSUME NEW n \in Readers, Ends(n)
               PROVE  Misses(n)
      OBVIOUS
  <2>1. CASE lookup'[n].from = {}
      BY <2>1
  <2>2. CASE Answered(n)
      BY <1>2, <2>2, AnsweredMissesNobody
  <2> QED  BY <1>1, <1>2, <2>1, <2>2
<1>3. IInv /\ [Next]_vars =>
        [\A n \in Readers :
           (lookup[n].waits /\ ~lookup'[n].waits) =>
               \A s \in lookup'[n].from :
                   LET r == meant[s][<<TopicOf[n], lookup[n].minute>>]
                   IN  (r # Nothing /\ SameGroup(n, r.pub, lookup[n].minute)) =>
                           \E q \in found'[n] : q.pub = r.pub]_vars
    BY <1>2
<1> QED  BY <1>3, Inductive, PTL DEF Spec, LookupMissesNobody
=============================================================================
