SPECIFICATION Spec
CONSTANTS
    sda = sda  sda1 = sda1  sda2 = sda2
    Root = Root
    NULL = NULL
    Paths <- MCPaths
    ParentOf <- MCParentOf
    Rank <- MCRank
    Kinds = {"disk"}
    Contents = {"ext4", "vfat"}
    Dirs = {"a", "b"}
    Opts = {"rw", "ro"}
    Starts <- MCStarts
    MaxChanges = 3
    MaxEntries = 2
INVARIANTS
    TypeOK
    ListWellFormed
    CounterMatchesMount
    NotificationsFit
    ClientFollows
    ListIsTrue
PROPERTIES
    CatchesUp
