CONSTANTS
    c1 = c1  c2 = c2  w1 = w1  w2 = w2  pump = pump
    o1 = o1  o2 = o2  o3 = o3  g1 = g1  g2 = g2  opq = opq
    NoThread = NoThread
    None = None
    TheOpq = opq
    Clients = {c1, c2}
    Workers = {}
    Pumps = {pump}
    Ops = {o1, o2}
    GroupOrder <- OneGroup
    DefaultGroup = g1
    GroupOf <- AllInDefault
    MaxInFlight <- Unlimited
    MaxQueued <- Limited
    MaySync = {c1, c2}
    MayDrain <- NoDrain
    MayDestroy = {}
    MaxTokens = 3
SPECIFICATION FairSpec
INVARIANTS CountersMatch QueueBounded
PROPERTIES SyncFlushes EveryOpRuns PushReturns SyncReturns
