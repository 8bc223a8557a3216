SPECIFICATION Spec
CONSTANTS
    sda = sda
    sda1 = sda1
    mmcblk0 = mmcblk0
    mmcblk0p1 = mmcblk0p1
    sr0 = sr0
    port1 = port1
    port2 = port2
    Root = Root
    NULL = NULL
    Paths <- MCPaths
    ParentOf <- MCParentOf
    Rank <- MCRank
    Subtype <- MCSubtype
    Bus <- MCBus
    IsRemovable <- MCIsRemovable
    Numbered <- MCNumbered
    Ports = {port1, port2}
    MaxChanges = 1
INVARIANTS
    SysfsPathKept
