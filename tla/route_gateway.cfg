CONSTANTS
    d1 = d1
    d2 = d2
    NoDev = NoDev
    Devs <- MCDevs
    AddrBits = 3
    Addrs = {0, 4, 5}
    Masks = {0, 4, 6, 7}
    MaxRoutes = 3
SPECIFICATION Spec
INVARIANT GatewayReachable
