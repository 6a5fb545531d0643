CONSTANTS
    c1 = c1  c2 = c2  w1 = w1  w2 = w2  pump = pump
    o1 = o1  o2 = o2  o3 = o3  g1 = g1  g2 = g2  opq = opq
    NoThread = NoThread
    None = None
    TheOpq = opq
    Clients = {c1}
    Workers = {w1, w2}
    Pumps = {}
    Ops = {o1, o2}
    GroupOrder <- TwoGroups
    DefaultGroup = g2
    GroupOf <- Split
    MaxInFlight <- Unlimited
    MaxQueued <- Unlimited
    MaySync = {}
    MayDrain <- DrainAll
    MayDestroy = {c1}
    MaxTokens = 4
SPECIFICATION FairSpec
INVARIANT DestroyWaits
PROPERTIES ImplementsQueue DrainFlushes DrainReturns DestroyCompletes
CHECK_DEADLOCK FALSE
