----------------------------- MODULE QtControl -----------------------------
(***************************************************************************)
(* The devices that the Qt client shows, client/qt/control.cpp.  It asks   *)
(* for the list of devices and follows the notifications; what arrives     *)
(* before it has a list is saved and replayed on the list.  Notifications  *)
(* come from the thread of the library, or in the middle of a call from    *)
(* the main thread; the changes of the connection come through the queue   *)
(* of the main thread's event loop, later.  The connection is as           *)
(* DtmdLibrary has it: one thread reads it at a time, in order.            *)
(***************************************************************************)
EXTENDS MediaView

CONSTANTS
    Kinds, ContentsOf, Dirs, Opts,  \* what a notification can say
    Starts,        \* what is attached at the beginning
    MaxChanges,    \* how often the devices change
    MaxCrashes,    \* how often the daemon dies
    MaxTimeouts    \* how often the daemon is too slow

Devices == [kind : Kinds, content : ContentsOf, mnt_point : Dirs \cup {NULL},
            mnt_opts : Opts \cup {NULL}]
Views   == [Paths -> Devices \cup {NULL}]

\* A partition is attached together with its disk.
ASSUME ControlAssumption ==
    /\ NULL \notin Devices \cup Dirs \cup Opts
    /\ Starts \subseteq Views
    /\ \A v \in Starts : \A p \in Paths : v[p] # NULL /\ IsPartition(p) => v[ParentOf[p]] # NULL
    /\ MaxChanges \in Nat /\ MaxCrashes \in Nat /\ MaxTimeouts \in Nat

VARIABLES
    truth,                  \* the devices as the daemon knows them
    daemon,                 \* whether it runs
    request,                \* how many requests for the list it has not answered
    link,                   \* the client's socket: "none", "open", or "closed" by the daemon
    stream,                 \* what the client has not read from it
    reader,                 \* the thread that reads it: "worker" or "main", "none" if the worker has stopped
    pc,                     \* where the main thread is
    posted,                 \* the slots its event loop has to run
    temp_devices,           \* the list that populate_devices got
    m_devices, m_devices_initialized, m_saved_commands, m_menu,
    result,                 \* of the last list_all_removable_devices
    connection,             \* history: the number of this connection
    between,                \* history: a notification came after the list and before it was stored
    misled,                 \* history: the list was stored over later notifications, or notifications
                            \* of an earlier connection were replayed on it
    remounted,              \* history: devices whose options changed on this connection, which is not told
    changes, crashes, timeouts

server  == <<truth, daemon, request>>
socket  == <<link, stream>>
control == <<m_devices, m_devices_initialized, m_saved_commands>>
history == <<connection, between, misled, remounted>>
bounds  == <<changes, crashes, timeouts>>
vars    == <<server, socket, reader, pc, posted, temp_devices, control, m_menu, result, history, bounds>>

List(v) == [op |-> "list", view |-> v]

\* The daemon may run already when the client starts, or not.
Init ==
    /\ truth \in Starts /\ daemon \in BOOLEAN /\ request = 0
    /\ link = IF daemon THEN "open" ELSE "none"
    /\ stream = <<>> /\ reader = "worker"
    /\ pc = "populate" /\ posted = <<>>
    /\ temp_devices = EmptyView
    /\ m_devices = EmptyView /\ m_devices_initialized = FALSE /\ m_saved_commands = <<>>
    /\ m_menu = EmptyView /\ result = "none"
    /\ connection = 1 /\ between = FALSE /\ misled = FALSE
    /\ remounted = {}
    /\ changes = 0 /\ crashes = 0 /\ timeouts = 0

(***************************************************************************)
(* The daemon.                                                             *)
(***************************************************************************)
Notes ==
    {Added(p, k, c) : p \in Paths, k \in Kinds, c \in ContentsOf}
        \cup {Changed(p, k, c) : p \in Paths, k \in Kinds, c \in ContentsOf}
        \cup {Removed(p) : p \in Paths}
        \cup {Mounted(p, d, o) : p \in Paths, d \in Dirs, o \in Opts}
        \cup {Unmounted(p, d) : p \in Paths, d \in Dirs}

\* Something happens to a device.  The daemon tells it to the client, if it runs.
\* What it tells is a change from what it knew, as DaemonMedia has it for a daemon
\* that lists no device twice.
DeviceChanges(note) ==
    /\ changes < MaxChanges /\ Fits(truth, note)
    /\ truth' = processCommand(truth, note) /\ truth' # truth
    /\ changes' = changes + 1
    /\ stream' = IF link = "open" THEN Append(stream, note) ELSE stream
    /\ UNCHANGED <<daemon, request, link, reader, pc, posted, temp_devices, control, m_menu,
                   result, history, crashes, timeouts>>

\* A device is mounted again where it is, with other options: check_mount_changes
\* stores them and tells nobody.
OptionsChange(p, opts) ==
    /\ changes < MaxChanges
    /\ truth[p] # NULL /\ truth[p].mnt_point # NULL /\ truth[p].mnt_opts # opts
    /\ truth' = [truth EXCEPT ![p].mnt_opts = opts]
    /\ changes' = changes + 1
    /\ remounted' = IF link = "open" THEN remounted \cup {p} ELSE remounted
    /\ UNCHANGED <<daemon, request, socket, reader, pc, posted, temp_devices, control, m_menu,
                   result, connection, between, misled, crashes, timeouts>>

DaemonAnswers ==
    /\ request > 0 /\ link = "open"
    /\ request' = request - 1
    /\ stream' = Append(stream, List(truth))
    /\ UNCHANGED <<truth, daemon, link, reader, pc, posted, temp_devices, control, m_menu,
                   result, history, bounds>>

DaemonCrashes ==
    /\ daemon /\ crashes < MaxCrashes
    /\ daemon' = FALSE /\ crashes' = crashes + 1 /\ request' = 0
    /\ link' = IF link = "open" THEN "closed" ELSE link
    /\ UNCHANGED <<truth, stream, reader, pc, posted, temp_devices, control, m_menu,
                   result, history, changes, timeouts>>

DaemonStarts ==
    /\ ~daemon
    /\ daemon' = TRUE
    /\ UNCHANGED <<truth, request, socket, reader, pc, posted, temp_devices, control, m_menu,
                   result, history, bounds>>

(***************************************************************************)
(* Control::dtmd_callback, in whichever thread reads.                      *)
(***************************************************************************)
\* What processCommand returns first.
Modified(v, note) ==
    IF note.op = "added" THEN processCommand(v, note) # v ELSE v[note.path] # NULL

\* Mutant: what comes before the list is dropped.
dtmd_callback_Drop(note) ==
    /\ UNCHANGED m_saved_commands
    /\ IF m_devices_initialized
       THEN /\ m_devices' = processCommand(m_devices, note)
            /\ posted' = IF Modified(m_devices, note) THEN Append(posted, "menu") ELSE posted
       ELSE UNCHANGED <<m_devices, posted>>
    /\ UNCHANGED m_devices_initialized

dtmd_callback(note) ==
    /\ IF m_devices_initialized
       THEN /\ m_devices' = processCommand(m_devices, note)
            /\ posted' = IF Modified(m_devices, note) THEN Append(posted, "menu") ELSE posted
            /\ UNCHANGED m_saved_commands
       ELSE /\ m_saved_commands' = Append(m_saved_commands, [note |-> note, connection |-> connection])
            /\ UNCHANGED <<m_devices, posted>>
    /\ UNCHANGED m_devices_initialized

(***************************************************************************)
(* The thread of the library.                                              *)
(***************************************************************************)
\* The answer to a call that has given up is skipped.
WorkerReads ==
    /\ reader = "worker" /\ stream # <<>>
    /\ stream' = Tail(stream)
    /\ IF Head(stream).op = "list"
       THEN UNCHANGED <<control, posted, between>>
       ELSE /\ dtmd_callback(Head(stream))
            /\ between' = (between \/ pc = "store")
    /\ UNCHANGED <<server, link, reader, pc, temp_devices, m_menu, result, connection, misled, remounted,
                   bounds>>

\* What has not been read when the worker sees the end of the connection is lost.
WorkerDisconnects ==
    /\ reader = "worker" /\ link = "closed"
    /\ link' = "none" /\ stream' = <<>>
    /\ posted' = Append(posted, "disconnected")
    /\ UNCHANGED <<server, reader, pc, temp_devices, control, m_menu, result, history, bounds>>

WorkerConnects ==
    /\ reader = "worker" /\ link = "none" /\ daemon
    /\ link' = "open" /\ connection' = connection + 1 /\ remounted' = {}
    /\ posted' = Append(posted, "connected")
    /\ UNCHANGED <<server, stream, reader, pc, temp_devices, control, m_menu, result,
                   between, misled, bounds>>

Worker == WorkerReads \/ WorkerDisconnects \/ WorkerConnects

(***************************************************************************)
(* Control::populate_devices: list_all_removable_devices, then the list is *)
(* stored under the mutex.                                                 *)
(***************************************************************************)
\* The call takes the connection over from the worker.  A request that cannot be
\* written stops the worker, and the next call finds the library in an invalid
\* state, for which populate_devices throws.
ListBegins ==
    /\ pc = "populate"
    /\ \/ /\ reader = "none"
          /\ pc' = "exit"
          /\ UNCHANGED <<request, reader, result>>
       \/ /\ reader = "worker" /\ link = "none"
          /\ pc' = "menu" /\ result' = "not_connected"
          /\ UNCHANGED <<request, reader>>
       \/ /\ reader = "worker" /\ link = "closed"
          /\ pc' = "menu" /\ result' = "io_error" /\ reader' = "none"
          /\ UNCHANGED request
       \/ /\ reader = "worker" /\ link = "open"
          /\ pc' = "list" /\ reader' = "main" /\ request' = request + 1
          /\ UNCHANGED result
    /\ UNCHANGED <<truth, daemon, socket, posted, temp_devices, control, m_menu, history, bounds>>

ListReads ==
    /\ pc = "list" /\ stream # <<>>
    /\ stream' = Tail(stream)
    /\ IF Head(stream).op = "list"
       THEN /\ temp_devices' = Head(stream).view
            /\ pc' = "store" /\ reader' = "worker" /\ result' = "ok" /\ between' = FALSE
            /\ UNCHANGED <<control, posted>>
       ELSE /\ dtmd_callback(Head(stream))
            /\ UNCHANGED <<temp_devices, pc, reader, result, between>>
    /\ UNCHANGED <<server, link, m_menu, connection, misled, remounted, bounds>>

ListEnds ==
    /\ pc = "list" /\ stream = <<>> /\ link = "closed"
    /\ pc' = "menu" /\ reader' = "worker" /\ result' = "io_error"
    /\ UNCHANGED <<server, socket, posted, temp_devices, control, m_menu, history, bounds>>

\* Mutant: the connection is not given back.
ListTimesOut_Keep ==
    /\ pc = "list" /\ timeouts < MaxTimeouts
    /\ pc' = "menu" /\ result' = "timeout" /\ timeouts' = timeouts + 1
    /\ UNCHANGED <<server, socket, reader, posted, temp_devices, control, m_menu, history,
                   changes, crashes>>

ListTimesOut ==
    /\ pc = "list" /\ timeouts < MaxTimeouts
    /\ pc' = "menu" /\ reader' = "worker" /\ result' = "timeout" /\ timeouts' = timeouts + 1
    /\ UNCHANGED <<server, socket, posted, temp_devices, control, m_menu, history,
                   changes, crashes>>

SavedNotes == [i \in DOMAIN m_saved_commands |-> m_saved_commands[i].note]

StoreList ==
    /\ pc = "store"
    /\ m_devices' = Follow(temp_devices, SavedNotes)
    /\ m_devices_initialized' = TRUE
    /\ m_saved_commands' = <<>>
    /\ misled' = \/ m_devices_initialized /\ between
                 \/ \E i \in DOMAIN m_saved_commands : m_saved_commands[i].connection # connection
    /\ temp_devices' = EmptyView /\ between' = FALSE
    /\ pc' = "menu"
    /\ UNCHANGED <<server, socket, reader, posted, m_menu, result, connection, remounted, bounds>>

BuildMenu ==
    /\ pc = "menu"
    /\ m_menu' = m_devices
    /\ pc' = "loop"
    /\ UNCHANGED <<server, socket, reader, posted, temp_devices, control, result, history, bounds>>

(***************************************************************************)
(* The event loop.                                                         *)
(***************************************************************************)
slotDtmdConnected ==
    /\ pc = "loop" /\ posted # <<>> /\ Head(posted) = "connected"
    /\ posted' = Tail(posted)
    /\ pc' = "populate"
    /\ UNCHANGED <<server, socket, reader, temp_devices, control, m_menu, result, history, bounds>>

slotDtmdDisconnected ==
    /\ pc = "loop" /\ posted # <<>> /\ Head(posted) = "disconnected"
    /\ posted' = Tail(posted)
    /\ m_devices' = EmptyView /\ m_devices_initialized' = FALSE
    /\ pc' = "menu"
    /\ UNCHANGED <<server, socket, reader, temp_devices, m_saved_commands, m_menu, result, history, bounds>>

slotBuildMenu ==
    /\ pc = "loop" /\ posted # <<>> /\ Head(posted) = "menu"
    /\ posted' = Tail(posted)
    /\ pc' = "menu"
    /\ UNCHANGED <<server, socket, reader, temp_devices, control, m_menu, result, history, bounds>>

Main ==
    \/ ListBegins \/ ListReads \/ ListEnds \/ ListTimesOut \/ StoreList \/ BuildMenu
    \/ slotDtmdConnected \/ slotDtmdDisconnected \/ slotBuildMenu

Quiet == pc = "loop" /\ posted = <<>> /\ stream = <<>> /\ link = "open"

\* Nothing to do; or nothing will ever come, or the program has ended.
Idle == (Quiet \/ reader = "none" \/ pc = "exit") /\ UNCHANGED vars

Next ==
    \/ \E note \in Notes : DeviceChanges(note)
    \/ \E p \in Paths, opts \in Opts : OptionsChange(p, opts)
    \/ DaemonAnswers \/ DaemonCrashes \/ DaemonStarts
    \/ Worker \/ Main \/ Idle

Spec == Init /\ [][Next]_vars
-----------------------------------------------------------------------------
\* What the threads share; the connection is the main thread's exactly while it
\* is in a call.
TypeOK ==
    /\ truth \in Views /\ temp_devices \in Views /\ m_devices \in Views /\ m_menu \in Views
    /\ daemon \in BOOLEAN /\ request \in Nat /\ link \in {"none", "open", "closed"}
    /\ \A i \in DOMAIN stream : stream[i].op = "list" \/ stream[i] \in Notes
    /\ pc \in {"populate", "list", "store", "menu", "loop", "exit"}
    /\ reader \in {"worker", "main", "none"} /\ (reader = "main" <=> pc = "list")
    /\ posted \in Seq({"connected", "disconnected", "menu"})
    /\ m_devices_initialized \in BOOLEAN
    /\ \A i \in DOMAIN m_saved_commands : m_saved_commands[i].note \in Notes
    /\ result \in {"none", "ok", "not_connected", "io_error", "timeout"}
    /\ remounted \subseteq Paths

\* Two devices, or none, that are the same but for the options of the mount.
SameButOptions(a, b) == a = b \/ (a # NULL /\ b # NULL /\ [a EXCEPT !.mnt_opts = b.mnt_opts] = b)

\* When nothing is under way, the devices and the menu are what the daemon knows,
\* though the saved notifications are replayed on a list that already has them;
\* but for the options of a device that was mounted again where it is, of which
\* clients are not told.  They may be out of date if the list was stored over later
\* notifications, or saved notifications survived a disconnection.  There are none
\* at all only if the daemon was too slow with the list.
ShowsTruth ==
    Quiet =>
        /\ m_menu = m_devices
        /\ m_devices_initialized /\ ~misled =>
              \A p \in Paths :
                  IF p \in remounted THEN SameButOptions(m_devices[p], truth[p])
                  ELSE m_devices[p] = truth[p]
        /\ ~m_devices_initialized => result = "timeout" /\ m_devices = EmptyView
=============================================================================
