SPECIFICATION FairSpec
CONSTANTS
    NoIP = NoIP
    a = a
    b = b
    c = c
    r = r
    ab = ab
    ba = ba
    cb = cb
    ac = ac
    expired = expired
    echo = echo
    udp = udp
    lost = lost
    dropped = dropped
    IPs <- Addresses
    Ifaces <- Mine
    Blacklisted <- Outside
    Neighbours <- Lan
    MaxPackets = 2
    rtable <- Table
    Ids <- Packets
    Traffic <- Arriving
    Tries = 2
    INIT_TTL = 64
    SR_ARPCACHE_SZ = 1
INVARIANTS
    TypeOK
    QueueSound
    SentOnce
    TriesBounded
PROPERTIES
    UnreachableIsEarned
    Delivered
    Drains
CHECK_DEADLOCK FALSE
