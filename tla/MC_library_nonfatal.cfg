SPECIFICATION Spec
CONSTANTS
    ListCommands = {"list"}
    RootLists = {}
    PlainCommands = {"mount"}
    Faults = {"daemon_crash"}
    MaxCalls = 2
    MaxNotifications = 1
    MaxCrashes = 1
INVARIANT
    NonFatalStaysUsable
