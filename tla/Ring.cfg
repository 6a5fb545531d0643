CONSTANTS
    p1 = p1  p2 = p2  c1 = c1  c2 = c2  a = a  b = b
    Producers = {p1, p2}
    Consumers = {c1, c2}
    Blocking = {p1, c1}
    Items = {a, b}
    None = None
    Capacity = 2
    MaxPos = 2
SPECIFICATION FairSpec
INVARIANTS CellExclusive Inv
PROPERTIES FailureHasReason ImplementsFifo EveryItemTaken PushReturns
