SPECIFICATION Spec
CONSTANTS
    ListCommands = {"list"}
    RootLists = {}
    PlainCommands = {"mount"}
    Faults = {"capture_timeout"}
    MaxCalls = 2
    MaxNotifications = 1
    MaxCrashes = 1
INVARIANT
    MutualExclusion
