CONSTANTS
    s0 = s0  a1 = a1  a2 = a2  v1 = v1  v2 = v2  g1 = g1  g2 = g2
    Addrs = {s0, a1, a2}
    Self = s0
    Limit = 1
    Width = 2
    MaxTime = 5
    VersionJobs <- NVersionPair
    JobAddrMe <- NJobAddrMePair
    SendJobs <- NoSendJobs
    JobAddrs <- NoJobAddrs
INIT Init
NEXT Next
INVARIANT
    AddressDbWithinLimit
CHECK_DEADLOCK FALSE
