CONSTANTS
    s0 = s0  a1 = a1  a2 = a2  v1 = v1  v2 = v2  g1 = g1  g2 = g2
    Addrs = {s0, a1, a2}
    Self = s0
    Limit = 2
    Width = 2
    MaxTime = 5
    VersionJobs <- NVersionJobs
    JobAddrMe <- NJobAddrMe
    SendJobs <- NSendJobs
    JobAddrs <- NJobAddrs
INIT Init
NEXT Next
INVARIANTS
    TypeOK
    PeersKnownToAddressDb
CHECK_DEADLOCK FALSE
