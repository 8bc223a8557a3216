SPECIFICATION Spec
CONSTANTS
    sda = sda
    sda1 = sda1
    Root = Root
    NULL = NULL
    Paths <- MCPaths
    ParentOf <- MCParentOf
    Rank <- MCRank
    Starts <- MCStarts
    Kinds = {"disk"}
    ContentsOf = {"vfat", "ext4"}
    Dirs = {"a"}
    Opts = {"rw", "ro"}
    MaxChanges = 3
    MaxCrashes = 2
    MaxTimeouts = 1
INVARIANTS
    TypeOK
    ShowsTruth
