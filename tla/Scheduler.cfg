CONSTANTS
    cpu1 = cpu1  cpu2 = cpu2  gpu = gpu
    Processors = {cpu1, cpu2, gpu}
    None = None
    Affinities = {{cpu1, cpu2}, {gpu}}
    NumModules = 2
    MaxUnits = 3
SPECIFICATION FairSpec
INVARIANTS UnitsOnce CombineLast
PROPERTY ProcessReturns
CHECK_DEADLOCK FALSE
