SPECIFICATION FairSpec
CONSTANTS
    Objs = {o1, o2}
    Macs = {m1, m2}
    PeerIds = {i1, i2}
    LocalIds = {l1, l2}
    Senders = {s1}
    Borrowers = {b1}
    None = none
    MaxAttach = 3
CONSTRAINT
    NotWiped
INVARIANTS
    RefCounted
    ReferencedIsLive
    OnePeerPerAddress
PROPERTIES
    VdevDeleted
