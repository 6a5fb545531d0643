CONSTANTS
    m1 = m1  m2 = m2  m3 = m3  m4 = m4
    r1 = r1  r2 = r2  r3 = r3  r4 = r4
    Modules = {m1, m2, m3, m4}
    None = None
    Registers = {r1, r2, r3, r4}
    Graphs <- WithLoops
    HalfRange = 128
SPECIFICATION FairSpec
INVARIANTS ProducersFirst InputsIntact
PROPERTIES ImplementsPlan EveryModuleQueued
CHECK_DEADLOCK FALSE
