CONSTANTS
    host = host
    guest = guest
    t1 = t1
    t2 = t2
    a1 = a1
    a2 = a2
    Client <- Clients
    Host = host
    Addr <- Addresses
    Thread <- Threads
    Ses = {s1, s2, s3}
    Room = {r1, r2, r3}
    Obj = {o1, o2, o3, o4}
    None = None
    Uses <- ManyUses
SPECIFICATION FairSpec
INVARIANTS
    TypeOK
    Accepted
    Informed
PROPERTIES
    Heals
CHECK_DEADLOCK FALSE
