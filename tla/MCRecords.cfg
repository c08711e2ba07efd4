\* Four nodes of two topics and two secrets share a DHT.
CONSTANTS
    a = a
    b = b
    c = c
    d = d
    chat = chat
    news = news
    fits = fits
    long = long
    Nodes = {a, b, c, d}
    Publishers = {a, b, c}
    Readers = {a}
    Topics = {chat, news}
    TopicOf <- MCTopicOf
    SecretOf <- MCSecretOf
    Derive <- MCDerive
    Keys <- MCKeys
    Contents = {fits, long}
    Size <- MCSize
    KeySize = 2
    MaxSize = 9
    Word = 16
    Storage = {s1, s2}
    MaxSeq = 1
    Unsigned <- MCUnsigned
    Garbage = Garbage
    Nothing = Nothing
    MaxMinute = 2
    MaxSigned = 2
    MaxStrays = 1
SPECIFICATION Spec
SYMMETRY MCSymmetry
INVARIANTS
    TypeOK
    FoundIsAuthentic
    OnePerPublisher
PROPERTIES
    LookupMissesNobody
CHECK_DEADLOCK FALSE
