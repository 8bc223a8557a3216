SPECIFICATION Spec
CONSTANTS
    Clients = {a, b}
    Fds = {4, 5}
    NULL = NULL
    MaxLength = 2
    SocketBuffer = 1
    Scripts <- MCScripts
    MaxEvents = 1
INVARIANTS
    TypeOK
    PollAgrees
    EachCommandOnce
    DroppedForCause
PROPERTY
    Answered
