CONSTANTS
    Buffers = 2
    MaxEvents = 2
SPECIFICATION FairSpec
INVARIANT SceneThere
PROPERTIES  UpdatesResume
CHECK_DEADLOCK FALSE
