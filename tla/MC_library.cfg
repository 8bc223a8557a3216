SPECIFICATION FairSpec
CONSTANTS
    ListCommands = {"list"}
    RootLists = {}
    PlainCommands = {"mount", "unmount"}
    Faults = {"read_timeout", "daemon_crash", "slow_listen"}
    MaxCalls = 2
    MaxNotifications = 2
    MaxCrashes = 1
INVARIANTS
    TypeOK
    MutualExclusion
    HandoffInv
    NotificationsInOrder
    StaysUsable
PROPERTIES
    CallReturns
    DeinitReturns
    Reconnects
