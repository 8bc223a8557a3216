---------------------------- MODULE DaemonMedia ----------------------------
(***************************************************************************)
(* The daemon's picture of the removable devices, daemon/daemon-main.c     *)
(* with the module daemon/modules/linux-udev: how it is built at startup,  *)
(* followed by the main loop through device events and changes of the      *)
(* mounts, and told to the clients.  Devices come and go and are mounted   *)
(* and unmounted by others at any time, also between two steps of one      *)
(* round of the loop.                                                      *)
(*                                                                         *)
(* kind stands for the type and subtype of a device, content for state,    *)
(* fstype and label.                                                       *)
(***************************************************************************)
EXTENDS MediaView

CONSTANTS
    Kinds, Contents, Dirs, Opts,
    Starts,        \* what may be plugged in and mounted when the daemon starts
    MaxChanges,    \* bound on the changes of devices and mounts after the start
    MaxEntries     \* bound on the entries of the mounts file for the devices

Attributes == [kind : Kinds, content : Contents]
Entries    == [dev : Paths, dir : Dirs, opts : Opts]
Events     == [action : {"add", "remove", "change"}, path : Paths, attr : Attributes]
Nodes      == [path : Paths, kind : Kinds, content : Contents, mnt_point : Dirs \cup {NULL},
               mnt_opts : Opts \cup {NULL}, mount_counter : {0, 1}]
Devices    == [kind : Kinds, content : Contents, mnt_point : Dirs \cup {NULL},
               mnt_opts : Opts \cup {NULL}]

ASSUME DeviceAssumption ==
    /\ NULL \notin Dirs \cup Opts
    /\ NULL \notin Attributes \cup Devices
    /\ \A p \in Paths : IsPartition(p) => Rank[ParentOf[p]] < Rank[p]
    /\ \A s \in Starts :
          /\ s.world \in [Paths -> Attributes \cup {NULL}] /\ s.mounts \in Seq(Entries)
          /\ \A p \in Paths : s.world[p] # NULL /\ IsPartition(p) => s.world[ParentOf[p]] # NULL
          /\ \A k \in DOMAIN s.mounts : s.world[s.mounts[k].dev] # NULL
    /\ MaxChanges \in Nat /\ MaxEntries \in Nat

VARIABLES
    world,         \* the devices that are plugged in
    mounts,        \* the entries of the mounts file
    queue,         \* device events not yet received from the monitor
    mount_event,   \* the mounts changed since mountfd was polled last
    pc,            \* where the daemon is
    enumeration,   \* the paths that the enumeration still has to visit
    ready,         \* what poll reported
    force_mounts_check,
    media,         \* removable_media_root
    client,        \* one client: "none", "asking" or "synced"
    view,          \* what it knows
    changes,       \* how many changes of devices and mounts there were
    duplicated,    \* history: a path was added to the list a second time
    late,          \* history: paths added, since mounts were checked last, that
                   \* had been mounted before
    fitted         \* history: all notifications to the client fitted its view

env    == <<world, mounts, queue, mount_event, changes>>
daemon == <<pc, enumeration, ready, force_mounts_check>>
told   == <<client, view, fitted>>
vars   == <<env, daemon, media, told, duplicated, late>>

\* The shape of the list, of the view of a client and of the events.
TypeOK ==
    /\ world \in [Paths -> Attributes \cup {NULL}]
    /\ mounts \in Seq(Entries)
    /\ queue \in Seq(Events)
    /\ mount_event \in BOOLEAN
    /\ pc \in {"scan", "enumerate", "poll", "monitor", "mounts", "clients", "exit"}
    /\ enumeration \in Seq(Paths)
    /\ ready \in [monitor : BOOLEAN, mounts : BOOLEAN, client : BOOLEAN]
    /\ force_mounts_check \in BOOLEAN
    /\ media \in Seq(Nodes)
    /\ client \in {"none", "asking", "synced"}
    /\ view \in [Paths -> Devices \cup {NULL}]
    /\ changes \in Nat
    /\ duplicated \in BOOLEAN /\ fitted \in BOOLEAN
    /\ late \subseteq Paths

Nothing == [monitor |-> FALSE, mounts |-> FALSE, client |-> FALSE]

\* The daemon has just started to monitor devices and mounts.
Init ==
    /\ \E s \in Starts : world = s.world /\ mounts = s.mounts
    /\ queue = <<>> /\ mount_event = FALSE
    /\ pc = "scan" /\ enumeration = <<>> /\ ready = Nothing /\ force_mounts_check = FALSE
    /\ media = <<>>
    /\ client = "none" /\ view = EmptyView
    /\ changes = 0
    /\ duplicated = FALSE /\ late = {} /\ fitted = TRUE

(***************************************************************************)
(* The environment: udev and the kernel.                                   *)
(***************************************************************************)
Emit(action, p, attr) ==
    /\ pc # "exit" /\ changes < MaxChanges /\ changes' = changes + 1
    /\ queue' = Append(queue, [action |-> action, path |-> p, attr |-> attr])
    /\ UNCHANGED <<mounts, mount_event, daemon, media, told, duplicated, late>>

Plug(p, attr) ==
    /\ world[p] = NULL
    /\ IsPartition(p) => world[ParentOf[p]] # NULL
    /\ world' = [world EXCEPT ![p] = attr]
    /\ Emit("add", p, attr)

\* Partitions go before their disk; a mounted device may be pulled out.
Unplug(p) ==
    /\ world[p] # NULL
    /\ \A q \in Paths : ParentOf[q] = p => world[q] = NULL
    /\ world' = [world EXCEPT ![p] = NULL]
    /\ Emit("remove", p, world[p])

Alter(p, attr) ==
    /\ world[p] # NULL
    /\ world' = [world EXCEPT ![p] = attr]
    /\ Emit("change", p, attr)

MountsBecome(new) ==
    /\ pc # "exit" /\ changes < MaxChanges /\ changes' = changes + 1
    /\ mounts' = new /\ mount_event' = TRUE
    /\ UNCHANGED <<world, queue, daemon, media, told, duplicated, late>>

Mount(e) ==
    /\ world[e.dev] # NULL /\ Len(mounts) < MaxEntries
    /\ MountsBecome(Append(mounts, e))

Unmount(k) == MountsBecome(RemoveAt(mounts, k))

Remount(k, opts) ==
    /\ mounts[k].opts # opts
    /\ MountsBecome([mounts EXCEPT ![k].opts = opts])

\* A client connects and sends list_all_removable_devices.
ClientAsks ==
    /\ client = "none" /\ pc # "exit"
    /\ client' = "asking"
    /\ UNCHANGED <<env, daemon, media, view, fitted, duplicated, late>>

Environment ==
    \/ \E p \in Paths, attr \in Attributes : Plug(p, attr) \/ Alter(p, attr)
    \/ \E p \in Paths : Unplug(p)
    \/ \E e \in Entries : Mount(e)
    \/ \E k \in DOMAIN mounts : Unmount(k) \/ \E opts \in Opts : Remount(k, opts)
    \/ ClientAsks

(***************************************************************************)
(* Notifications go to the connected clients.  One that has not yet listed *)
(* the devices does nothing with them.                                     *)
(***************************************************************************)
Notify(notes) ==
    /\ UNCHANGED client
    /\ IF client = "synced"
       THEN view' = Follow(view, notes) /\ fitted' = (fitted /\ AllFit(view, notes))
       ELSE UNCHANGED <<view, fitted>>

(***************************************************************************)
(* Startup.  The enumeration lists the devices, then opens one after the   *)
(* other, sorted by path; one that has gone since fails the start.         *)
(***************************************************************************)
EnumerateDevices ==
    /\ pc = "scan"
    /\ enumeration' \in Sortings({p \in Paths : world[p] # NULL}, LAMBDA p, q : Rank[p] < Rank[q])
    /\ pc' = "enumerate"
    /\ UNCHANGED <<env, ready, force_mounts_check, media, told, duplicated, late>>

\* What add_media does with a device that is reported as removable.
AddDevice(p, attr) ==
    IF HasParent(media, p)
    THEN /\ media' = add_media(media, p, attr.kind, attr.content)
         /\ Notify(<<Added(p, attr.kind, attr.content)>>)
         /\ duplicated' = (duplicated \/ find_media(media, p) # 0)
         /\ late' = IF FirstEntry(mounts, p) # 0 THEN late \cup {p} ELSE late
    ELSE UNCHANGED <<media, told, duplicated, late>>

NextEnumeratedDevice ==
    /\ pc = "enumerate" /\ enumeration # <<>>
    /\ LET p == Head(enumeration)
       IN  IF world[p] # NULL
           THEN pc' = pc /\ AddDevice(p, world[p])
           ELSE pc' = "exit" /\ media' = <<>> /\ late' = {} /\ UNCHANGED <<told, duplicated>>
    /\ enumeration' = Tail(enumeration)
    /\ UNCHANGED <<env, ready, force_mounts_check>>

CheckMounts ==
    /\ media' = check_mount_changes(media, mounts)
    /\ Notify(check_mount_changes_notes(media, mounts))
    /\ late' = {}
    /\ UNCHANGED duplicated

FirstCheck ==
    /\ pc = "enumerate" /\ enumeration = <<>>
    /\ CheckMounts
    /\ pc' = "poll"
    /\ UNCHANGED <<env, enumeration, ready, force_mounts_check>>

(***************************************************************************)
(* One round of the loop: poll, then at most one device event, then the    *)
(* mounts, then the clients.                                               *)
(***************************************************************************)
\* Mutant: poll is not asked for POLLERR on the mounts file.
Poll_NoMounts ==
    /\ pc = "poll"
    /\ ready' = [monitor |-> queue # <<>>, mounts |-> FALSE, client |-> client = "asking"]
    /\ ready' # Nothing
    /\ pc' = "monitor"
    /\ UNCHANGED <<env, enumeration, force_mounts_check, media, told, duplicated, late>>

Poll ==
    /\ pc = "poll"
    /\ ready' = [monitor |-> queue # <<>>, mounts |-> mount_event, client |-> client = "asking"]
    /\ ready' # Nothing
    /\ mount_event' = FALSE
    /\ pc' = "monitor"
    /\ UNCHANGED <<world, mounts, queue, changes, enumeration, force_mounts_check,
                   media, told, duplicated, late>>

\* device_system_fill_device and device_system_fill_partition read the sysfs of
\* the disk when the event is received: of a disk that has gone it is unknown
\* whether it was removable, and the event does not count unless it is a removal.
Removable(p) == world[DiskOf(p)] # NULL

MonitorGetDevice ==
    /\ pc = "monitor"
    /\ pc' = "mounts"
    /\ IF ~ready.monitor
       THEN UNCHANGED <<queue, media, told, force_mounts_check, duplicated, late>>
       ELSE LET e == Head(queue) IN
            /\ queue' = Tail(queue)
            /\ \/ e.action = "add" /\ Removable(e.path)
                  /\ AddDevice(e.path, e.attr)
                  /\ UNCHANGED force_mounts_check
               \/ e.action = "remove" /\ find_media(media, e.path) # 0
                  /\ media' = remove_media(media, e.path)
                  /\ Notify(remove_media_notes(media, e.path))
                  /\ late' = {q \in late : find_media(media', q) # 0}
                  /\ UNCHANGED <<force_mounts_check, duplicated>>
               \/ e.action = "change" /\ Removable(e.path)
                  /\ force_mounts_check' = TRUE
                  /\ media' = change_media(media, e.path, e.attr.kind, e.attr.content)
                  /\ Notify(change_media_notes(media, e.path, e.attr.kind, e.attr.content))
                  /\ UNCHANGED <<duplicated, late>>
               \/ /\ IF e.action = "remove" THEN find_media(media, e.path) = 0 ELSE ~Removable(e.path)
                  /\ UNCHANGED <<media, told, force_mounts_check, duplicated, late>>
    /\ UNCHANGED <<world, mounts, mount_event, changes, enumeration, ready>>

\* Mutant: a changed device does not force a check of the mounts.
HandleMounts_NoForce ==
    /\ pc = "mounts"
    /\ IF ready.mounts
       THEN CheckMounts ELSE UNCHANGED <<media, told, duplicated, late>>
    /\ force_mounts_check' = FALSE
    /\ pc' = "clients"
    /\ UNCHANGED <<env, enumeration, ready>>

HandleMounts ==
    /\ pc = "mounts"
    /\ IF ready.mounts \/ force_mounts_check
       THEN CheckMounts ELSE UNCHANGED <<media, told, duplicated, late>>
    /\ force_mounts_check' = FALSE
    /\ pc' = "clients"
    /\ UNCHANGED <<env, enumeration, ready>>

HandleClients ==
    /\ pc = "clients"
    /\ IF ready.client
       THEN client' = "synced" /\ view' = Snapshot(media) /\ fitted' = TRUE
       ELSE UNCHANGED told
    /\ ready' = Nothing
    /\ pc' = "poll"
    /\ UNCHANGED <<env, enumeration, force_mounts_check, media, duplicated, late>>

\* SIGTERM ends the loop at its top: the clients are let go before the list is.
Exit ==
    /\ pc = "poll"
    /\ pc' = "exit"
    /\ client' = "none" /\ view' = EmptyView
    /\ media' = <<>> /\ late' = {}
    /\ UNCHANGED <<env, enumeration, ready, force_mounts_check, duplicated, fitted>>

Daemon ==
    \/ EnumerateDevices \/ NextEnumeratedDevice \/ FirstCheck
    \/ Poll \/ MonitorGetDevice \/ HandleMounts \/ HandleClients

Terminated == pc = "exit" /\ UNCHANGED vars

Next == Environment \/ Daemon \/ Exit \/ Terminated

\* The daemon gets to run; nobody has to plug, mount, ask or stop it.
Spec == Init /\ [][Next]_vars /\ WF_vars(Daemon)
-----------------------------------------------------------------------------
\* The list is a tree in order: every partition follows its disk, and siblings
\* are sorted, whatever the order in which devices came and went.
ListWellFormed ==
    \A i \in DOMAIN media :
        /\ IsPartition(media[i].path) =>
              \E j \in 1..(i - 1) :
                  /\ media[j].path = ParentOf[media[i].path]
                  /\ \A k \in (j + 1)..i : IsPartition(media[k].path)
        /\ \A j \in 1..(i - 1) :
              ParentOf[media[j].path] = ParentOf[media[i].path] =>
                  Rank[media[j].path] <= Rank[media[i].path]

\* mount_counter says whether there is a mount point: process_changes_recursive
\* notifies with the mount point of every node whose counter was set, and
\* notify_removable_device_unmounted cannot do with NULL.
CounterMatchesMount ==
    \A i \in DOMAIN media :
        /\ media[i].mount_counter = 1 <=> media[i].mnt_point # NULL
        /\ media[i].mnt_point # NULL <=> media[i].mnt_opts # NULL

\* Every notification tells of a change from what the client knew: no device is
\* added twice, removed while mounted or before its partitions, mounted when it
\* is mounted, or unmounted from where it is not mounted.
NotificationsFit == ~duplicated => fitted

Agrees(a, b, field) == (a = NULL /\ b = NULL) \/ (a # NULL /\ b # NULL /\ a[field] = b[field])

\* A client that has listed the devices once and follows the notifications
\* knows what a client would be told that lists them now.
ClientFollows ==
    client = "synced" /\ ~duplicated =>
        \A p \in Paths : \A field \in {"content", "mnt_point"} :
            Agrees(view[p], Snapshot(media)[p], field)

\* Nothing is left to do until the next event.
Settled == pc = "poll" /\ queue = <<>> /\ ~mount_event

\* When the daemon has caught up, its list is the truth: the devices that are
\* plugged in, with their contents, and the first mount point of each, except
\* for a device that was mounted before the daemon got to its add event.
ListIsTrue ==
    Settled /\ ~duplicated =>
        \A p \in Paths :
            LET n == Snapshot(media)[p]
                e == FirstEntry(mounts, p)
            IN  /\ Agrees(n, world[p], "content")
                /\ n # NULL /\ p \notin late =>
                      n.mnt_point = IF e = 0 THEN NULL ELSE mounts[e].dir

\* The daemon catches up again and again, though it takes only one device event
\* in a round.
CatchesUp == []<>(Settled \/ pc = "exit")

\* README: the daemon "detects CD/DVD-ROMs and currently attached removable
\* media".  Once it has caught up, it lists nothing that is not attached.
ListedIsAttached ==
    Settled => \A p \in Paths : Snapshot(media)[p] # NULL => world[p] # NULL
=============================================================================
