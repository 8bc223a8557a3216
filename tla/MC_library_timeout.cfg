SPECIFICATION Spec
CONSTANTS
    ListCommands = {"list"}
    RootLists = {"list"}
    PlainCommands = {"mount", "unmount"}
    Faults = {"capture_timeout", "read_timeout", "daemon_crash"}
    MaxCalls = 3
    MaxNotifications = 1
    MaxCrashes = 1
INVARIANTS
    RequestBalance
    NoMutualWait
    OwnAnswer
