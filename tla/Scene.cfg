CONSTANTS
    e1 = e1  e2 = e2  e3 = e3  e4 = e4  e5 = e5  e6 = e6
    authored = authored  dynamic = dynamic
    Ents = {e1, e2, e3, e4, e5, e6}
    Names = {authored, dynamic}
    Authored = {authored}
    Null = Null
    MaxOps = 1
    MaxQueued = 1
SPECIFICATION FairSpec
INVARIANTS ListsLive ActiveStarted
PROPERTY SpawnActivated
