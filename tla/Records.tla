------------------------------- MODULE Records -------------------------------
(***************************************************************************)
(* The records themselves: how they are signed, encrypted and packed, the  *)
(* slot of the DHT they go to, and what get_records() makes of the values  *)
(* it finds there (crypto/record.rs, crypto/keys.rs).                      *)
(*                                                                         *)
(* The slot of a topic and minute has one signing key and salt for all     *)
(* nodes of the topic, whatever their secret; the encryption key depends   *)
(* on the secret as well.  A record is signed when its minute begins to be *)
(* announced and put any time later, and it is looked up later still, so   *)
(* that the clock each step might consult is not the record's minute.      *)
(*                                                                         *)
(* Hashes, keys and signatures are ideal: a slot, a key or a signature is  *)
(* the tuple it is derived from.  Lengths of buffers are kept, as the      *)
(* codec decides on them.  Counting the slot, retries and the DhtActor are *)
(* the subject of RecordPublisher.                                         *)
(***************************************************************************)
EXTENDS Naturals, Sequences, FiniteSets

CONSTANTS
    Nodes,           \* the nodes, which are also their public keys
    Publishers,      \* the nodes that publish
    Readers,         \* the nodes that look records up
    Topics,          \* the topics
    TopicOf,         \* the topic of a node
    SecretOf,        \* the initial secret of a node
    Derive(_, _, _), \* SecretRotation::derive, any function
    Keys,            \* the keys it derives
    Contents,        \* the contents of records
    Size(_),         \* bytes of an encrypted record with a content
    KeySize,         \* ENCRYPTED_KEY_LENGTH (88)
    MaxSize,         \* EncryptedRecord::MAX_SIZE (2048)
    Word,            \* the number of u32 values
    Storage,         \* the DHT nodes that store values
    MaxSeq,          \* i64::MAX, the sequence number of every put
    Unsigned,        \* records that occur and that nobody signed
    Garbage,         \* bytes that decrypt to nothing
    Nothing,         \* no record, no value
    MaxMinute,       \* bound: the clock stops here
    MaxSigned,       \* bound: records signed
    MaxStrays        \* bound: values that are not of these nodes' making

Minutes == 1..MaxMinute

\* Record.  A signature is what was signed, and by whom.
Record == [topic : Topics, minute : Minutes, pub : Nodes, content : Contents,
           signature : [by : Nodes, topic : Topics, minute : Minutes,
                        pub : Nodes, content : Contents]]

\* What the DHT holds: mutable items, with their sequence numbers.
Item == [seq   : Nat,
         value : [length : Nat, prefix : Nat,
                  sealed : [record : Record \cup {Garbage}, key : Keys]]]

\* Mutant of Verified: the minute is not checked.
VerifiedAnyMinute(r, topic, minute) ==
    /\ r.topic = topic
    /\ r.signature = [by |-> r.pub, topic |-> r.topic, minute |-> r.minute,
                      pub |-> r.pub, content |-> r.content]

\* Record::verify().
Verified(r, topic, minute) ==
    /\ r.topic = topic
    /\ r.minute = minute
    /\ r.signature = [by |-> r.pub, topic |-> r.topic, minute |-> r.minute,
                      pub |-> r.pub, content |-> r.content]

ASSUME RecordsAssumption ==
    /\ Publishers \subseteq Nodes
    /\ Readers \subseteq Nodes
    /\ TopicOf \in [Nodes -> Topics]
    /\ \A n \in Nodes, m \in Minutes : Derive(SecretOf[n], TopicOf[n], m) \in Keys
    /\ \A c \in Contents : Size(c) \in Nat
    /\ KeySize \in Nat
    /\ MaxSize \in Nat
    /\ Word \in Nat
    /\ MaxSize + KeySize < Word
    /\ MaxSeq \in Nat
    /\ MaxMinute \in Nat \ {0}
    /\ MaxSigned \in Nat
    /\ MaxStrays \in Nat
    /\ IsFiniteSet(Storage)
    /\ Unsigned \subseteq Record
    /\ \A r \in Unsigned : ~Verified(r, r.topic, r.minute)
    /\ Garbage \notin Record
    /\ Nothing \notin Record \cup {Garbage}
    /\ Nothing \notin Item

VARIABLES
    clock,     \* crate::unix_minute(0)
    draft,     \* the record a node is about to publish
    stored,    \* what a storage node holds in a slot
    lookup,    \* get_records() of a node: its minute, the storage nodes that
               \* answered, and whether it still waits
    found,     \* what get_records() of a node last returned
    signed,    \* ghost: the records that were signed
    meant,     \* ghost: the record a publisher last meant a storage node to
               \*        hold for a topic and minute, and nothing replaced
    strays     \* ghost: values that came from elsewhere so far

vars == <<clock, draft, stored, lookup, found, signed, meant, strays>>

Slots == Topics \X Minutes

\* signing_keypair() and salt(): where the records of a minute are.
Slot(topic, minute) == <<topic, minute>>

\* encryption_keypair() of node n.
EncryptionKey(n, minute) == Derive(SecretOf[n], TopicOf[n], minute)

\* An EncryptedRecord: what it holds, and the key that opens it.  The one-time
\* key in between is folded into the two.
Encrypt(r, key) == [record |-> r, key |-> key]

\* EncryptedRecord::decrypt() succeeds: the key is the one it was sealed with, and
\* what it opens is a record.
Opens(sealed, key) == sealed.key = key /\ sealed.record # Garbage

\* EncryptedRecord::to_bytes() succeeds.
Packs(r) == 4 + Size(r.content) + KeySize <= MaxSize

\* ... with the length of the encrypted record in front.
Pack(r, key) == [length |-> 4 + Size(r.content) + KeySize,
                 prefix |-> Size(r.content) % Word,
                 sealed |-> Encrypt(r, key)]

\* EncryptedRecord::from_bytes() succeeds.
Unpacks(b) ==
    /\ b.length >= 4
    /\ b.prefix + KeySize < Word
    /\ b.prefix <= MaxSize
    /\ b.length - 4 = b.prefix + KeySize

TypeOK ==
    /\ clock \in Minutes
    /\ draft \in [Publishers -> Record \cup {Nothing}]
    /\ stored \in [Storage -> [Slots -> Item \cup {Nothing}]]
    /\ lookup \in [Readers -> [minute : Minutes, from : SUBSET Storage,
                               waits : BOOLEAN]]
    /\ found \in [Readers -> SUBSET Record]
    /\ signed \subseteq Record
    /\ meant \in [Storage -> [Slots -> Record \cup {Nothing}]]
    /\ strays \in 0..MaxStrays

Init ==
    /\ clock = 1
    /\ draft = [n \in Publishers |-> Nothing]
    /\ stored = [s \in Storage |-> [x \in Slots |-> Nothing]]
    /\ lookup = [n \in Readers |-> [minute |-> 1, from |-> {}, waits |-> FALSE]]
    /\ found = [n \in Readers |-> {}]
    /\ signed = {}
    /\ meant = [s \in Storage |-> [x \in Slots |-> Nothing]]
    /\ strays = 0

-----------------------------------------------------------------------------
\* Record::sign() by node n.
Sign(n, minute, content) ==
    [topic |-> TopicOf[n], minute |-> minute, pub |-> n, content |-> content,
     signature |-> [by |-> n, topic |-> TopicOf[n], minute |-> minute,
                    pub |-> n, content |-> content]]

\* new_record() for the minute of the moment.
NewRecord(n) ==
    /\ draft[n] = Nothing
    /\ Cardinality(signed) < MaxSigned
    /\ \E c \in Contents :
        /\ draft' = [draft EXCEPT ![n] = Sign(n, clock, c)]
        /\ signed' = signed \cup {Sign(n, clock, c)}
    /\ UNCHANGED <<clock, stored, lookup, found, meant, strays>>

\* Mutant of PutAt: the slot is that of the clock.
PutAtClock(n, r) ==
    [slot |-> Slot(TopicOf[n], clock), key |-> EncryptionKey(n, r.minute)]

\* Where publish_record_cached_records() puts a record, and under which key.
PutAt(n, r) ==
    [slot |-> Slot(TopicOf[n], r.minute), key |-> EncryptionKey(n, r.minute)]

\* The mutable item that is put: each with the same, highest sequence number.
ItemOf(r, key) == [seq |-> MaxSeq, value |-> Pack(r, key)]

\* The record is encrypted, packed and put; it reaches some of the storage
\* nodes, none if the put fails or is skipped.  One that is too long is an error.
Put(n) ==
    /\ draft[n] # Nothing
    /\ LET r  == draft[n]
           at == PutAt(n, r)
           it == ItemOf(r, at.key)
       IN  IF Packs(r)
           THEN \E W \in SUBSET Storage :
                  /\ stored' = [s \in Storage |->
                         IF s \in W THEN [stored[s] EXCEPT ![at.slot] = it]
                         ELSE stored[s]]
                  /\ meant' = [s \in Storage |->
                         IF s \in W
                         THEN [meant[s] EXCEPT ![<<r.topic, r.minute>>] = r]
                         ELSE meant[s]]
           ELSE UNCHANGED <<stored, meant>>
    /\ draft' = [draft EXCEPT ![n] = Nothing]
    /\ UNCHANGED <<clock, lookup, found, signed, strays>>

-----------------------------------------------------------------------------
\* Mutant of Ask: the clock is not checked before it is counted back from.
AskBefore(n) ==
    /\ ~lookup[n].waits
    /\ \E k \in 0..2 :
        lookup' = [lookup EXCEPT ![n] =
            [minute |-> clock - k, from |-> {}, waits |-> TRUE]]
    /\ found' = [found EXCEPT ![n] = {}]
    /\ UNCHANGED <<clock, draft, stored, signed, meant, strays>>

\* get_records() is called for this minute or one of the two before.
Ask(n) ==
    /\ ~lookup[n].waits
    /\ \E k \in 0..2 :
        /\ k < clock
        /\ lookup' = [lookup EXCEPT ![n] =
               [minute |-> clock - k, from |-> {}, waits |-> TRUE]]
    /\ found' = [found EXCEPT ![n] = {}]
    /\ UNCHANGED <<clock, draft, stored, signed, meant, strays>>

\* The value unpacks, decrypts and verifies, and is not this node's.
Usable(n, minute, it) ==
    /\ it # Nothing
    /\ Unpacks(it.value)
    /\ Opens(it.value.sealed, EncryptionKey(n, minute))
    /\ Verified(it.value.sealed.record, TopicOf[n], minute)
    /\ it.value.sealed.record.pub # n

\* Mutant of Preferred: every usable value is kept.
PreferredAll(items, good, i) == TRUE

\* Among the usable values of a publisher the first with the highest sequence
\* number is kept.
Preferred(items, good, i) ==
    \A j \in good :
        items[j].value.sealed.record.pub = items[i].value.sealed.record.pub =>
            \/ items[j].seq < items[i].seq
            \/ items[j].seq = items[i].seq /\ i <= j

\* What get_records() makes of the values it was sent.
Dedup(n, minute, items) ==
    LET good == {i \in DOMAIN items : Usable(n, minute, items[i])}
    IN  {items[i].value.sealed.record : i \in
            {j \in good : Preferred(items, good, j)}}

\* The storage nodes R in the order in which their answers come in.
Orders(R) ==
    {q \in [1..Cardinality(R) -> R] : \A s \in R : \E i \in DOMAIN q : q[i] = s}

\* The DHT answers with what the storage nodes that were reached hold.
Answered(n) ==
    /\ lookup[n].waits
    /\ LET minute == lookup[n].minute
           slot   == Slot(TopicOf[n], minute)
       IN  \E R \in SUBSET Storage : \E q \in Orders(R) :
             /\ found' = [found EXCEPT ![n] =
                    Dedup(n, minute, [i \in DOMAIN q |-> stored[q[i]][slot]])]
             /\ lookup' = [lookup EXCEPT ![n].from = R, ![n].waits = FALSE]
    /\ UNCHANGED <<clock, draft, stored, signed, meant, strays>>

\* The lookup fails or is cancelled.
Failed(n) ==
    /\ lookup[n].waits
    /\ lookup' = [lookup EXCEPT ![n].waits = FALSE]
    /\ UNCHANGED <<clock, draft, stored, found, signed, meant, strays>>

-----------------------------------------------------------------------------
Tick ==
    /\ clock < MaxMinute
    /\ clock' = clock + 1
    /\ UNCHANGED <<draft, stored, lookup, found, signed, meant, strays>>

\* An item as it is, with a lower sequence number, cut short, as garbage.
Variants(it) ==
    {it, [it EXCEPT !.seq = 0], [it EXCEPT !.value.length = @ - 1],
     [it EXCEPT !.value.sealed.record = Garbage]}

\* A storage node drops the value of a slot, or holds one that none of these
\* nodes put there: a record that is not of this slot or that nobody signed, one
\* under another key, one with a lower sequence number, one cut short, or garbage.
Stray ==
    /\ strays < MaxStrays
    /\ strays' = strays + 1
    /\ \E s \in Storage, x \in Slots :
        /\ \/ stored' = [stored EXCEPT ![s][x] = Nothing]
           \/ \E r \in signed \cup Unsigned, n \in Nodes :
                \E it \in Variants(ItemOf(r, EncryptionKey(n, x[2]))) :
                  stored' = [stored EXCEPT ![s][x] = it]
        /\ meant' = [meant EXCEPT ![s][x] = Nothing]
    /\ UNCHANGED <<clock, draft, lookup, found, signed>>

Next ==
    \/ \E n \in Publishers : NewRecord(n) \/ Put(n)
    \/ \E n \in Readers : Ask(n) \/ Answered(n) \/ Failed(n)
    \/ Tick \/ Stray

Spec == Init /\ [][Next]_vars

-----------------------------------------------------------------------------
\* "Retrieve all verified records for a given time slot" (record.rs:358):
\* whatever the slot holds, each record returned was signed by the publisher it
\* names, for the topic of the reader and the minute asked for.
FoundIsAuthentic ==
    \A n \in Readers : \A r \in found[n] :
        /\ r \in signed
        /\ r.signature.by = r.pub
        /\ r.topic = TopicOf[n]
        /\ r.minute = lookup[n].minute

\* What Bootstrap, Merge and RecordPublisher take for granted of a lookup: one
\* record of each publisher at most, though the storage nodes hold several, and
\* none of the reader's own.
OnePerPublisher ==
    \A n \in Readers : \A r, q \in found[n] :
        r.pub # n /\ (r.pub = q.pub => r = q)

\* Readable by the reader: published by another node of its topic whose secret
\* gives the same key for that minute.
SameGroup(n, p, minute) ==
    /\ p # n
    /\ TopicOf[p] = TopicOf[n]
    /\ EncryptionKey(p, minute) = EncryptionKey(n, minute)

\* A lookup misses no publisher of the reader's group whose record is on a
\* storage node that answered, whatever the clock did between the signing, the
\* put and the lookup, and whatever else the answer holds.
LookupMissesNobody ==
    [][\A n \in Readers :
           (lookup[n].waits /\ ~lookup'[n].waits) =>
               \A s \in lookup'[n].from :
                   LET r == meant[s][<<TopicOf[n], lookup[n].minute>>]
                   IN  (r # Nothing /\ SameGroup(n, r.pub, lookup[n].minute)) =>
                           \E q \in found'[n] : q.pub = r.pub]_vars
=============================================================================
