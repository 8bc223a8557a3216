-------------------------- MODULE UserspaceDevices --------------------------
(***************************************************************************)
(* What the device module of daemon/modules/unix-userspace/system_module.c *)
(* reads about devices on Linux, and when: the enumeration walks through   *)
(* three directories of sysfs, the worker reads sysfs and the medium for   *)
(* every event of the kernel, and devices come and go between any two of   *)
(* these reads.  The queue from the worker to the main loop is the channel *)
(* that UserspaceMonitor implements.  The list is that of MediaList; the   *)
(* content of a node is its state, its filesystem and its sysfs path.      *)
(***************************************************************************)
EXTENDS MediaList

CONSTANTS
    Subtype,      \* what device/type says of each disk
    Bus,          \* the bus of each disk: "usb", "mmc" or "other"
    IsRemovable,  \* what the file removable of each disk says
    Numbered,     \* disks whose partitions are named by the disk and a number
    Ports,        \* the USB devices a disk can be part of
    MaxChanges    \* how many things happen in the world

Disks    == {p \in Paths : ~IsPartition(p)}

ASSUME SysfsAssumption ==
    /\ Subtype \in [Disks -> {"removable_disk", "sd_card", "cdrom", "unknown"}]
    /\ Bus \in [Disks -> {"usb", "mmc", "other"}]
    /\ IsRemovable \in [Disks -> BOOLEAN]
    /\ Numbered \subseteq Disks
    /\ \A p \in Paths : IsPartition(p) => Subtype[ParentOf[p]] # "cdrom"
    /\ MaxChanges \in Nat

Actions == {"add", "remove", "change"}   \* "online" is handled as "add", "offline" as "remove"
Event(a, p) == [action |-> a, path |-> p]

\* What an event, a device that was read, and one that is being read are.
Events   == [action : Actions, path : Paths]
Kinds    == [type : {"partition", "stateless", "stateful", "unknown"},
             subtype : {"removable_disk", "sd_card", "cdrom", "unknown"}]
Contents == [state : {"unknown", "empty", "clear", "ok"}, fstype : {NULL, "ext4"},
             sysfs : Ports \cup {NULL}]
Devices  == [path : Paths, kind : Kinds, content : Contents]
Items    == [action : Actions, path : Paths, kind : Kinds, content : Contents]
Readings == [event : Events, step : {"parent", "medium"}, sysfs : Ports \cup {NULL}]

ASSUME NullAssumption == NULL \notin Readings

VARIABLES
    attached,     \* the paths that are there
    medium,       \* what blkid finds: "none", "clear" or a filesystem
    port,         \* where each USB disk is plugged in, NULL for other disks and if it is not
    changes,
    unread,       \* events of the kernel the worker has not received
    reading,      \* the event it has at hand, and what it has read so far
    queue,        \* events for the main loop
    pc,           \* the main thread: "scan", "list", "loop" or "failed"
    scan,         \* how far the enumeration is
    enumeration,  \* what it has found
    media,        \* the list
    fromStart,    \* history: there since before monitoring started
    raced         \* history: disks that came or went during the enumeration

world  == <<attached, medium, port, changes, unread, fromStart, raced>>
vars   == <<world, reading, queue, pc, scan, enumeration, media>>

Directories == <<"block", "usb", "mmc">>
NoDisk      == [disk |-> NULL, step |-> "look", parts |-> <<>>]

Partitions(d) == {p \in Paths : ParentOf[p] = d}
InOrder(S)    == Sortings(S, LAMBDA p, q : Rank[p] < Rank[q])

\* The monitor has just been linked and the enumeration begins.  Events from before
\* that the worker has taken were posted to nobody; those it has not taken are like
\* changes at the very beginning of the scan.
Init ==
    /\ attached \in {D \cup UNION {Partitions(d) : d \in D} : D \in SUBSET Disks}
    /\ medium = [p \in Paths |-> "clear"]
    /\ \E q \in Ports : port = [d \in Disks |-> IF d \in attached /\ Bus[d] = "usb" THEN q ELSE NULL]
    /\ changes = 0
    /\ unread = <<>> /\ reading = NULL /\ queue = <<>>
    /\ pc = "scan"
    /\ scan = [directory |-> 1, seen |-> {}, at |-> NoDisk]
    /\ enumeration = <<>> /\ media = <<>>
    /\ fromStart = attached /\ raced = {}

(***************************************************************************)
(* The world.  A disk comes and goes with its partitions.                  *)
(***************************************************************************)
Change(events, d) ==
    /\ changes < MaxChanges
    /\ changes' = changes + 1
    /\ unread' = unread \o events
    /\ raced' = IF pc = "scan" THEN raced \cup {d} ELSE raced
    /\ UNCHANGED <<reading, queue, pc, scan, enumeration, media>>

Plug(d) ==
    /\ d \notin attached
    /\ attached' = attached \cup {d} \cup Partitions(d)
    /\ \E q \in Ports : port' = [port EXCEPT ![d] = IF Bus[d] = "usb" THEN q ELSE NULL]
    /\ \E parts \in InOrder(Partitions(d)) :
          Change(<<Event("add", d)>> \o [i \in DOMAIN parts |-> Event("add", parts[i])], d)
    /\ UNCHANGED <<medium, fromStart>>

Unplug(d) ==
    /\ d \in attached
    /\ attached' = attached \ ({d} \cup Partitions(d))
    /\ fromStart' = fromStart \ ({d} \cup Partitions(d))
    /\ \E parts \in InOrder(Partitions(d)) :
          Change(Append([i \in DOMAIN parts |-> Event("remove", parts[i])], Event("remove", d)), d)
    /\ port' = [port EXCEPT ![d] = NULL]
    /\ UNCHANGED medium

Media(p) == IF IsPartition(p) THEN {"clear", "ext4"}
            ELSE IF Subtype[p] = "cdrom" THEN {"none", "clear", "ext4"} ELSE {"clear"}

\* A medium changes, or the disk is only said to have changed.
Alter(p) ==
    /\ p \in attached
    /\ \E m \in Media(p) :
          /\ m # medium[p] \/ Media(p) = {m}
          /\ medium' = [medium EXCEPT ![p] = m]
    /\ changes < MaxChanges
    /\ changes' = changes + 1
    /\ unread' = Append(unread, Event("change", p))
    /\ UNCHANGED <<attached, port, fromStart, raced, reading, queue, pc, scan, enumeration, media>>

(***************************************************************************)
(* What is read about a device, as of now.                                 *)
(***************************************************************************)
device_subtype_from_string(p) == Subtype[DiskOf(p)]

MediaType(p) ==
    IF IsPartition(p) THEN "partition"
    ELSE CASE device_subtype_from_string(p) \in {"removable_disk", "sd_card"} -> "stateless"
           [] device_subtype_from_string(p) = "cdrom" -> "stateful"
           [] OTHER -> "unknown"

Kind(p)     == [type |-> MediaType(p), subtype |-> device_subtype_from_string(p)]
UnknownKind == [type |-> "unknown", subtype |-> "unknown"]

\* Mutant: the disk itself is taken for the USB device.
get_usb_parent_syspath_Itself(d) == IF port[d] = NULL THEN NULL ELSE d

get_usb_parent_syspath(d) == port[d]

\* The state of a device that has one, and the filesystem, as blkid finds them.
BlkidState(p) ==
    IF MediaType(p) # "stateful" THEN "unknown"
    ELSE IF p \notin attached \/ medium[p] = "none" THEN "empty"
    ELSE IF medium[p] = "clear" THEN "clear" ELSE "ok"

BlkidType(p) ==
    IF MediaType(p) = "stateless" \/ p \notin attached \/ medium[p] \in {"none", "clear"}
    THEN NULL ELSE medium[p]

Info(p, kind, sysfs) ==
    [path |-> p, kind |-> kind,
     content |-> [state |-> BlkidState(p), fstype |-> BlkidType(p), sysfs |-> sysfs]]

(***************************************************************************)
(* The enumeration.  Every disk of the USB and MMC directories is also in  *)
(* the directory of all block devices, where only removable ones count.    *)
(***************************************************************************)
InDirectory(d) ==
    CASE Directories[scan.directory] = "block" -> TRUE
      [] Directories[scan.directory] = "usb"   -> Bus[d] = "usb"
      [] Directories[scan.directory] = "mmc"   -> Bus[d] = "mmc"

Scanning(step) == pc = "scan" /\ scan.at.step = step

Wanted(d) ==
    /\ Directories[scan.directory] = "block" => IsRemovable[d]
    /\ device_subtype_from_string(d) # "unknown"

\* A path that has been found already is not added again.
enumeration_add_device(info) ==
    enumeration' = IF \E i \in DOMAIN enumeration : enumeration[i].path = info.path
                   THEN enumeration ELSE Append(enumeration, info)

Seen(d) == scan' = [scan EXCEPT !.seen = @ \cup {d}, !.at = NoDisk]

\* helper_read_device, up to the type of the device.
LookAt(d) ==
    /\ Scanning("look") /\ d \in attached \ scan.seen /\ InDirectory(d)
    /\ IF Wanted(d)
       THEN scan' = [scan EXCEPT !.at = [disk |-> d, step |-> "read", parts |-> <<>>]]
       ELSE Seen(d)
    /\ UNCHANGED <<world, reading, queue, pc, enumeration, media>>

\* The rest of helper_read_device, which asks for the USB device of disks, not of
\* CD-ROMs; partitions are looked for only if the disk is new.
ReadDevice ==
    /\ Scanning("read")
    /\ LET d     == scan.at.disk
           sysfs == IF MediaType(d) = "stateless" THEN get_usb_parent_syspath(d) ELSE NULL
       IN  /\ enumeration_add_device(Info(d, Kind(d), sysfs))
           /\ IF MediaType(d) = "stateful" \/ enumeration' = enumeration
              THEN Seen(d)
              ELSE scan' = [scan EXCEPT !.at.step = "probe"]
    /\ UNCHANGED <<world, reading, queue, pc, media>>

\* helper_read_device_partitions: the table of partitions is read once.
Probe ==
    /\ Scanning("probe")
    /\ LET d == scan.at.disk
       IN  \E parts \in IF d \in attached THEN InOrder(Partitions(d)) ELSE {<<>>} :
              scan' = [scan EXCEPT !.at.step = "parts", !.at.parts = parts]
    /\ UNCHANGED <<world, reading, queue, pc, enumeration, media>>

\* The node of a partition is looked for under the name of the disk and its
\* number; if it is not there, the remaining partitions are not looked for.
ReadPartition ==
    /\ Scanning("parts")
    /\ LET d == scan.at.disk
           p == Head(scan.at.parts)
       IN  IF scan.at.parts = <<>>
           THEN Seen(d) /\ UNCHANGED enumeration
           ELSE IF p \notin attached \/ d \notin Numbered
           THEN Seen(d) /\ UNCHANGED enumeration
           ELSE /\ enumeration_add_device(Info(p, Kind(p), NULL))
                /\ scan' = [scan EXCEPT !.at.parts = Tail(@)]
    /\ UNCHANGED <<world, reading, queue, pc, media>>

\* readdir shows what was there before; what comes meanwhile it may show or not.
NextDirectory ==
    /\ Scanning("look")
    /\ \A d \in fromStart \cap Disks : InDirectory(d) => d \in scan.seen
    /\ scan' = [scan EXCEPT !.directory = @ + 1, !.seen = {}]
    /\ pc' = IF scan.directory = 3 THEN "list" ELSE pc
    /\ UNCHANGED <<world, reading, queue, enumeration, media>>

AddItem(m, item) ==
    IF item.kind.type = "unknown" \/ item.kind.subtype = "unknown" \/ ~HasParent(m, item.path)
    THEN m ELSE add_media(m, item.path, item.kind, item.content)

\* What was found goes to the list, one device after the other; then the main
\* loop begins.
AddEnumerated ==
    /\ pc = "list"
    /\ IF enumeration = <<>>
       THEN pc' = "loop" /\ UNCHANGED <<enumeration, media>>
       ELSE /\ media' = AddItem(media, Head(enumeration))
            /\ enumeration' = Tail(enumeration)
            /\ UNCHANGED pc
    /\ UNCHANGED <<world, reading, queue, scan>>

Scan == (\E d \in Disks : LookAt(d)) \/ ReadDevice \/ Probe \/ ReadPartition \/ NextDirectory \/ AddEnumerated

(***************************************************************************)
(* device_system_monitor_receive_device, in the worker.                    *)
(***************************************************************************)
Post(item) == queue' = Append(queue, item) /\ reading' = NULL

Item(a, info) == [action |-> a, path |-> info.path, kind |-> info.kind, content |-> info.content]
NoContent     == [state |-> "unknown", fstype |-> NULL, sysfs |-> NULL]

\* Mutant: an event that finds no device is dropped, whatever it is.
Receive_Present ==
    /\ reading = NULL /\ unread # <<>>
    /\ unread' = Tail(unread)
    /\ LET e == Head(unread)
       IN  IF e.path \notin attached THEN UNCHANGED <<reading, queue>>
           ELSE IF e.action # "remove"
           THEN reading' = [event |-> e, step |-> "parent", sysfs |-> NULL] /\ UNCHANGED queue
           ELSE Post([action |-> "remove", path |-> e.path, kind |-> UnknownKind, content |-> NoContent])
    /\ UNCHANGED <<attached, medium, port, changes, fromStart, raced, pc, scan, enumeration, media>>

\* An event is received, and the type of the device read.  An event that finds no
\* device to read is dropped, except a change, which goes on without a type.
Receive ==
    /\ reading = NULL /\ unread # <<>>
    /\ unread' = Tail(unread)
    /\ LET e == Head(unread)
       IN  IF e.action # "remove" /\ e.path \in attached
           THEN reading' = [event |-> e, step |-> "parent", sysfs |-> NULL] /\ UNCHANGED queue
           ELSE IF e.action = "add" THEN UNCHANGED <<reading, queue>>
           ELSE Post([action |-> e.action, path |-> e.path, kind |-> UnknownKind, content |-> NoContent])
    /\ UNCHANGED <<attached, medium, port, changes, fromStart, raced, pc, scan, enumeration, media>>

\* Mutant: as in the enumeration of a CD-ROM, no USB device is looked for.
ReadParent_None ==
    /\ reading # NULL /\ reading.step = "parent"
    /\ reading' = [reading EXCEPT !.step = "medium"]
    /\ UNCHANGED <<world, queue, pc, scan, enumeration, media>>

\* The USB device of a disk is looked for, also that of a CD-ROM.
ReadParent ==
    /\ reading # NULL /\ reading.step = "parent"
    /\ reading' = [reading EXCEPT
                      !.step = "medium",
                      !.sysfs = IF IsPartition(reading.event.path) THEN NULL
                                ELSE get_usb_parent_syspath(reading.event.path)]
    /\ UNCHANGED <<world, queue, pc, scan, enumeration, media>>

ReadMedium ==
    /\ reading # NULL /\ reading.step = "medium"
    /\ LET p == reading.event.path
       IN  Post(Item(reading.event.action, Info(p, Kind(p), reading.sysfs)))
    /\ UNCHANGED <<world, pc, scan, enumeration, media>>

Worker == Receive \/ ReadParent \/ ReadMedium

(***************************************************************************)
(* The main loop.                                                          *)
(***************************************************************************)
Known(item) == item.kind.type # "unknown" /\ item.kind.subtype # "unknown"

\* change_media: "Check sysfs path, it must not change".
SysfsChanged(item) ==
    LET i == find_media(media, item.path)
    IN  i # 0 /\ media[i].content.sysfs # item.content.sysfs

\* An error of change_media ends the daemon.
Handle ==
    /\ pc = "loop" /\ queue # <<>>
    /\ LET item == Head(queue)
           fails == item.action = "change" /\ Known(item) /\ SysfsChanged(item)
       IN  /\ pc' = IF fails THEN "failed" ELSE pc
           /\ queue' = IF fails THEN queue ELSE Tail(queue)
           /\ media' =
                 CASE item.action = "add"    -> AddItem(media, item)
                   [] item.action = "remove" ->
                         IF find_media(media, item.path) = 0 THEN media
                         ELSE remove_media(media, item.path)
                   [] item.action = "change" ->
                         IF fails \/ ~Known(item) THEN media
                         ELSE change_media(media, item.path, item.kind, item.content)
    /\ UNCHANGED <<world, reading, scan, enumeration>>

Failed == pc = "failed" /\ UNCHANGED vars

Quiet == pc = "loop" /\ unread = <<>> /\ reading = NULL /\ queue = <<>>

Idle == Quiet /\ changes = MaxChanges /\ UNCHANGED vars

Next ==
    \/ \E d \in Disks : Plug(d) \/ Unplug(d)
    \/ \E p \in Paths : Alter(p)
    \/ Scan
    \/ Worker
    \/ Handle
    \/ Failed
    \/ Idle

Spec == Init /\ [][Next]_vars
-----------------------------------------------------------------------------
\* What was read about a device is a path, a kind and a content, also in the list.
TypeOK ==
    /\ attached \subseteq Paths /\ fromStart \subseteq attached /\ raced \subseteq Disks
    /\ medium \in [Paths -> {"none", "clear", "ext4"}] /\ port \in [Disks -> Ports \cup {NULL}]
    /\ changes \in 0..MaxChanges
    /\ unread \in Seq(Events) /\ reading \in Readings \cup {NULL} /\ queue \in Seq(Items)
    /\ pc \in {"scan", "list", "loop", "failed"}
    /\ scan \in [directory : 1..4, seen : SUBSET Disks,
                 at : [disk : Disks \cup {NULL}, step : {"look", "read", "probe", "parts"},
                       parts : Seq(Paths)]]
    /\ enumeration \in Seq(Devices)
    /\ \A i \in DOMAIN media :
          [path |-> media[i].path, kind |-> media[i].kind, content |-> media[i].content] \in Devices

\* Whether an enumeration shows p.
Enumerable(p) ==
    /\ IsRemovable[DiskOf(p)] \/ Bus[DiskOf(p)] # "other"
    /\ IsPartition(p) => ParentOf[p] \in Numbered

\* When all events are handled, every device of a known type that is there is in
\* the list, once and with its present medium, and no other; except for disks
\* that came or went while the enumeration ran, and for devices that were there
\* before and that the enumeration does not show.
ListIsTrue ==
    Quiet =>
        \A p \in {q \in Paths : DiskOf(q) \notin raced} :
            LET nodes == {i \in DOMAIN media : media[i].path = p}
                shown == /\ p \in attached /\ device_subtype_from_string(p) # "unknown"
                         /\ p \in fromStart => Enumerable(p)
            IN  /\ Cardinality(nodes) = IF shown THEN 1 ELSE 0
                /\ \A i \in nodes :
                      /\ media[i].kind = Kind(p)
                      /\ media[i].content.state = BlkidState(p)
                      /\ media[i].content.fstype = BlkidType(p)

\* The daemon ends itself over a changed sysfs path only for a CD-ROM at a USB
\* port, whose path the enumeration does not read, for a disk that came or went
\* while the enumeration ran, of which a node may have been left over, or if the
\* device was pulled out after the event: its removal is still on the way.
FailsForCause ==
    pc = "failed" =>
        LET p == Head(queue).path
        IN  \/ Subtype[p] = "cdrom" /\ Bus[p] = "usb"
            \/ p \in raced
            \/ \E i \in DOMAIN queue : queue[i].action = "remove" /\ queue[i].path = p
            \/ \E i \in DOMAIN unread : unread[i] = Event("remove", p)

\* lists.c: "Check sysfs path, it must not change".
SysfsPathKept ==
    pc = "loop" /\ queue # <<>> =>
        ~(Head(queue).action = "change" /\ Known(Head(queue)) /\ SysfsChanged(Head(queue)))
=============================================================================
