CONSTANT MayDisable = TRUE
SPECIFICATION FairSpec
INVARIANT DisabledMeansUnread
PROPERTIES WriterAvoidsReader PulledWasPushed DisableCompletes
CHECK_DEADLOCK FALSE
