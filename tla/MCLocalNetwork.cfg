SPECIFICATION Spec
CONSTANTS
    n1 = n1  n2 = n2  n3 = n3
    s1 = s1  s2 = s2  s3 = s3
    Namespaces = {n1, n2, n3}
    Ending = {n1, n2}
    NumPools = 2
    PoolSize <- Sizes
    Sockets = {s1, s2, s3}
    NsOf <- Owners
    Requests <- Servers
    Targets <- Addressees
    Dials = {n1}
    Ports = {80, 49152}
    Ephemeral = {49152}
    None = None
INVARIANTS AddressesExclusive PortsSound ReachesAddressee
CHECK_DEADLOCK FALSE
