SPECIFICATION Spec
CONSTANTS
    sda = sda
    sda1 = sda1
    sdb = sdb
    usb = usb
    Root = Root
    NULL = NULL
    Paths <- MCPaths
    ParentOf <- MCParentOf
    Rank <- MCRank
    Dirs <- MCDirs
    MountDir <- MCMountDir
    NameDir <- MCNameDir
    LabelDir <- MCLabelDir
    Filesystems <- MCFilesystems
    Requests <- MCRequests
    Sysfs <- MCSysfs
    Attached <- MCAttached
    Starts <- MCStarts
    Altered <- MCAltered
    Configs <- MCConfigs
    MaxCommands = 3
    MaxOthers = 2
INVARIANTS
    TypeOK
    OneDirectoryEach
    MandatoryHolds
    ExitUnmounts
PROPERTIES
    ActsAsAsked
    PoweroffSparesMounted
    AnswersTrue
