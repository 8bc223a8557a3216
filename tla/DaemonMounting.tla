--------------------------- MODULE DaemonMounting ---------------------------
(***************************************************************************)
(* The commands mount, unmount and poweroff, and the unmounting of         *)
(* everything on exit (Linux): daemon/filesystem_mnt.c, the list of mount  *)
(* options of daemon/filesystem_opts.c, daemon/poweroff.c, and the end of  *)
(* main in daemon/daemon-main.c.                                           *)
(*                                                                         *)
(* The daemon has one thread, so commands do not overlap; but it decides   *)
(* by its list of media, which only a check of the mounts in a later round *)
(* of the loop brings up to date, and other processes mount and unmount    *)
(* between any two of its system calls.                                    *)
(***************************************************************************)
EXTENDS MediaList

CONSTANTS
    Dirs,         \* the directories that are used as mount points
    MountDir,     \* those of them in mount_dir
    NameDir,      \* the directory in mount_dir of each device name
    LabelDir,     \* the directory in mount_dir of each label
    Filesystems,  \* filesystem_mount_options, with what the config file adds
    Requests,     \* the options that clients ask for, NULL for none
    Sysfs,        \* sysfs_path of each disk, NULL if it has none
    Attached,     \* the devices that may be plugged in, with type, filesystem and label
    Starts,       \* which of them are at the start
    Altered,      \* what a device may change to
    Configs,      \* mount_by_value, unmount_on_exit, clear_mount_dir
    MaxCommands,  \* how many commands clients send
    MaxOthers     \* how many things other processes do

Labels   == DOMAIN LabelDir
Contents == [fstype : STRING \cup {NULL}, label : Labels \cup {NULL}]

ASSUME MountingAssumption ==
    /\ MountDir \subseteq Dirs /\ NULL \notin Dirs \cup Paths
    /\ NameDir \in [Paths -> MountDir]
    /\ \A l \in Labels : LabelDir[l] \in MountDir
    /\ DOMAIN Attached \subseteq Paths
    /\ \A p \in DOMAIN Attached :
          /\ IsPartition(p) => ParentOf[p] \in DOMAIN Attached
          /\ Attached[p].content \in Contents
    /\ \A s \in Starts :
          /\ s \subseteq DOMAIN Attached
          /\ \A p \in DOMAIN Attached : p \in s <=> DiskOf(p) \in s
    /\ Altered \subseteq Contents
    /\ MaxCommands \in Nat /\ MaxOthers \in Nat

Options == [key : STRING, value : STRING]

\* Nothing in the lists of allowed options is an id of the client.
ASSUME OptionsAssumption ==
    /\ Requests \subseteq Seq(Options) \cup {NULL}
    /\ \A fs \in DOMAIN Filesystems :
          LET f == Filesystems[fs]
          IN  /\ f.allowed \subseteq Options
              /\ {f.defaults, f.mandatory, f.ids} \subseteq Seq(Options)
              /\ {f.config_defaults, f.config_mandatory} \subseteq Seq(Options) \cup {NULL}
              /\ \A i, j \in DOMAIN f.ids : f.ids[i].key = f.ids[j].key => i = j
              /\ \A i \in DOMAIN f.ids, o \in f.allowed : o.key # f.ids[i].key

VARIABLES
    attached,     \* the devices that are plugged in
    mounts,       \* the entries of the mounts file, with who mounted
    dirs,         \* the directories that exist
    queue,        \* device events not yet received
    mount_event,  \* the mounts changed since mountfd was polled last
    media,        \* removable_media_root
    config,
    continue_working,
    pc,           \* where the daemon is
    job,          \* the locals of the command at work
    rest,         \* on exit, the nodes that are still to be unmounted
    reply,        \* the error code of the last command of the round
    commands, others,
    made,         \* history: directories the daemon made that are still there
    touched,      \* history: directories where others mounted or unmounted
    refused,      \* history: devices whose unmounting failed
    late,         \* history: devices added, since mounts were checked last, that
                  \* had been mounted before
    meanwhile     \* history: devices mounted since the disk to power off was closed

world   == <<attached, dirs, queue>>
bounds  == <<commands, others>>
history == <<made, touched, refused, late, meanwhile>>
main    == <<config, continue_working, rest>>
vars    == <<world, mounts, mount_event, media, main, pc, job, reply, bounds, history>>

NoJob == [path |-> NULL, dir |-> NULL, opts |-> <<>>]

Busy(d)  == \E k \in DOMAIN mounts : mounts[k].dir = d
Count(d) == Cardinality({k \in DOMAIN mounts : mounts[k].dir = d})

\* What umount(2) of a directory takes away.
Topmost(d) == Max({k \in DOMAIN mounts : mounts[k].dir = d})

Subtree(p) == {q \in Paths : q = p \/ ParentOf[q] = p}
InUse(p)   == \E k \in DOMAIN mounts : mounts[k].dev = p

\* The order of the list: by disk, a disk before its partitions, these by name.
ListedBefore(p, q) ==
    \/ Rank[DiskOf(p)] < Rank[DiskOf(q)]
    \/ DiskOf(p) = DiskOf(q) /\ IsPartition(q) /\ (IsPartition(p) => Rank[p] < Rank[q])

\* The device modules have listed what is plugged in, each device once, and the
\* mounts have been checked.
Init ==
    /\ attached \in Starts
    /\ mounts = <<>> /\ dirs = Dirs \ MountDir
    /\ queue = <<>> /\ mount_event = FALSE
    /\ \E order \in Sortings(attached, ListedBefore) :
          media = [i \in DOMAIN order |->
                      Node(order[i], Attached[order[i]].kind, Attached[order[i]].content)]
    /\ config \in Configs /\ continue_working = TRUE
    /\ pc = "poll" /\ job = NoJob /\ rest = <<>> /\ reply = "none"
    /\ commands = 0 /\ others = 0
    /\ made = {} /\ touched = {} /\ refused = {} /\ late = {} /\ meanwhile = {}

(***************************************************************************)
(* Other processes and people.                                             *)
(***************************************************************************)
Other ==
    /\ pc # "exit" /\ others < MaxOthers /\ others' = others + 1
    /\ UNCHANGED <<media, main, pc, job, reply, commands, made, refused, late>>

MountsBecome(new) == mounts' = new /\ mount_event' = TRUE

OtherMounts(p, d) ==
    /\ Other
    /\ p \in attached /\ Attached[p].content.fstype # NULL /\ d \in dirs
    /\ MountsBecome(Append(mounts, [dev |-> p, dir |-> d, opts |-> <<>>, by |-> "other"]))
    /\ touched' = touched \cup {d}
    /\ meanwhile' = IF pc = "remove" THEN meanwhile \cup {p} ELSE meanwhile
    /\ UNCHANGED world

OtherUnmounts(d) ==
    /\ Other
    /\ Busy(d)
    /\ MountsBecome(RemoveAt(mounts, Topmost(d)))
    /\ touched' = touched \cup {d}
    /\ UNCHANGED <<world, meanwhile>>

\* Devices go, partitions before disks, and the kernel tells of it.  What is
\* mounted of them stays in the mounts file.
Detach(gone) ==
    /\ attached' = attached \ gone
    /\ \E order \in Sortings(gone, LAMBDA p, q :
             IF IsPartition(p) = IsPartition(q) THEN Rank[p] < Rank[q] ELSE IsPartition(p)) :
          queue' = queue \o [i \in DOMAIN order |->
                                [action |-> "remove", path |-> order[i], content |-> NULL]]

Unplug(p) ==
    /\ Other
    /\ p \in attached /\ ~IsPartition(p)
    /\ Detach(attached \cap Subtree(p))
    /\ UNCHANGED <<mounts, mount_event, dirs, touched, meanwhile>>

\* A disk comes with its partitions, the disk first.
Plug(p) ==
    /\ Other
    /\ p \in DOMAIN Attached \ attached /\ ~IsPartition(p)
    /\ LET new == DOMAIN Attached \cap Subtree(p)
       IN  /\ attached' = attached \cup new
           /\ \E order \in Sortings(new, ListedBefore) :
                 queue' = queue \o [i \in DOMAIN order |->
                                       [action |-> "add", path |-> order[i],
                                        content |-> Attached[order[i]].content]]
    /\ UNCHANGED <<mounts, mount_event, dirs, touched, meanwhile>>

Alter(p, content) ==
    /\ Other
    /\ p \in attached
    /\ queue' = Append(queue, [action |-> "change", path |-> p, content |-> content])
    /\ UNCHANGED <<attached, mounts, mount_event, dirs, touched, meanwhile>>

Others ==
    \/ \E p \in Paths, d \in Dirs : OtherMounts(p, d)
    \/ \E d \in Dirs : OtherUnmounts(d)
    \/ \E p \in Paths : Plug(p) \/ Unplug(p) \/ \E c \in Altered : Alter(p, c)

(***************************************************************************)
(* A round of the loop: at most one device event and then, if the mounts   *)
(* changed or the device did, a check of the mounts.  DaemonMedia has this *)
(* in detail.                                                              *)
(***************************************************************************)
\* Of a disk that has gone nobody can tell any more that it was removable.
Removable(p) == DiskOf(p) \in attached

\* What can be said of the event when it is received.
Counts(e) ==
    CASE e.action = "add"    -> Removable(e.path) /\ HasParent(media, e.path)
      [] e.action = "change" -> Removable(e.path) /\ find_media(media, e.path) # 0
      [] e.action = "remove" -> find_media(media, e.path) # 0

AfterEvent(e) ==
    IF ~Counts(e) THEN media
    ELSE CASE e.action = "add"    -> add_media(media, e.path, Attached[e.path].kind, e.content)
           [] e.action = "remove" -> remove_media(media, e.path)
           [] e.action = "change" -> change_media(media, e.path, Attached[e.path].kind, e.content)

\* The list after the event of the round, if there is one.
Updated == IF queue = <<>> THEN media ELSE AfterEvent(Head(queue))

\* Mutant: a changed device does not force a check of the mounts.
Forced_Never == FALSE

\* force_mounts_check: the event is the change of a removable device.
Forced == queue # <<>> /\ Head(queue).action = "change" /\ Removable(Head(queue).path)

\* Mutant: the mounts wait while there is a device event.
Checked_EventOnly == mount_event /\ queue = <<>>

Checked == mount_event \/ Forced

Round ==
    /\ pc = "poll"
    /\ queue # <<>> \/ mount_event \/ commands < MaxCommands
    /\ media' = IF Checked THEN check_mount_changes(Updated, mounts) ELSE Updated
    /\ late' = IF Checked THEN {}
               ELSE {p \in Paths : /\ find_media(Updated, p) # 0
                                   /\ p \in late \/ (find_media(media, p) = 0 /\ InUse(p))}
    /\ queue' = IF queue = <<>> THEN queue ELSE Tail(queue)
    /\ mount_event' = FALSE
    /\ pc' = "clients"
    /\ UNCHANGED <<attached, dirs, mounts, main, job, reply, bounds, made, touched, refused, meanwhile>>

EndRound ==
    /\ pc = "clients"
    /\ pc' = "poll" /\ reply' = "none"
    /\ UNCHANGED <<world, mounts, mount_event, media, main, job, bounds, history>>

\* A command that is answered at once, and one that goes on.
Answer(error) == pc' = "clients" /\ reply' = error /\ job' = NoJob
GoOn(step, p, d, opts) ==
    /\ pc' = step /\ reply' = "none"
    /\ job' = [path |-> p, dir |-> d, opts |-> opts]

Command ==
    /\ pc = "clients" /\ commands < MaxCommands
    /\ commands' = commands + 1

(***************************************************************************)
(* Mount options.  Of two options for one key, a flag like ro/rw or the    *)
(* name of a parameter, the later one takes the other's place, at the end. *)
(* The list is a failure if an option is not allowed.                      *)
(***************************************************************************)
get_fsopts_for_fs(fstype) ==
    IF fstype \in DOMAIN Filesystems THEN Filesystems[fstype] ELSE NULL

add_option(list, option) ==
    LET i == SelectInSeq(list, LAMBDA o : o.key = option.key)
    IN  Append(IF i = 0 THEN list ELSE RemoveAt(list, i), option)

add_options(list, options) ==
    LET after[k \in 0..Len(options)] ==
            IF k = 0 THEN list ELSE add_option(after[k - 1], options[k])
    IN  after[Len(options)]

convert_options_to_list(options, fsopts, list) ==
    IF \E k \in DOMAIN options : options[k] \notin fsopts.allowed
    THEN NULL ELSE add_options(list, options)

\* What a client asks for, or else the config file, or else the table; then what
\* is mandatory by the config file, or else by the table.  The ids of the client
\* come last.
FirstOf(a, b) == IF a # NULL THEN a ELSE b

OptionalList(requested, f) ==
    convert_options_to_list(FirstOf(requested, FirstOf(f.config_defaults, f.defaults)), f, <<>>)

\* The string of options, the ids of the client at its end.
fsopts_generate_string(list, f) == list \o f.ids

\* Mutant: what is mandatory comes before what the client asks for.
MountOptions_MandatoryFirst(requested, f) ==
    LET mandatory == convert_options_to_list(FirstOf(f.config_mandatory, f.mandatory), f, <<>>)
        optional  == FirstOf(requested, FirstOf(f.config_defaults, f.defaults))
    IN  fsopts_generate_string(convert_options_to_list(optional, f, mandatory), f)

MountOptions(requested, f) ==
    LET mandatory == FirstOf(f.config_mandatory, f.mandatory)
        list      == convert_options_to_list(mandatory, f, OptionalList(requested, f))
    IN  IF list = NULL THEN NULL ELSE fsopts_generate_string(list, f)

(***************************************************************************)
(* invoke_mount.                                                           *)
(***************************************************************************)
\* Mutant: a directory that is taken is used all the same.
MountPath_Taken(n) ==
    IF config.mount_by = "label" /\ n.content.label # NULL
    THEN LabelDir[n.content.label] ELSE NameDir[n.path]

\* calculate_path: by label, if there is one and its directory is not taken, or
\* else by name.
MountPath(n) ==
    LET by_label == config.mount_by = "label" /\ n.content.label # NULL
        choices  == (IF by_label THEN <<LabelDir[n.content.label]>> ELSE <<>>) \o <<NameDir[n.path]>>
        free     == SelectInSeq(choices, LAMBDA d : ~Busy(d))
    IN  IF free = 0 THEN NULL ELSE choices[free]

MountError(i, requested) ==
    IF i = 0 THEN "no_such_removable_device"
    ELSE LET n == media[i]
             f == get_fsopts_for_fs(n.content.fstype)
         IN  IF n.content.fstype = NULL THEN "fstype_not_recognized"
             ELSE IF n.mnt_point # NULL THEN "device_already_mounted"
             ELSE IF f = NULL           THEN "unsupported_fstype"
             ELSE IF OptionalList(requested, f) = NULL THEN "failed_parsing_mount_options"
             ELSE IF MountOptions(requested, f) = NULL THEN "generic_error"
             ELSE IF MountPath(n) = NULL THEN "mount_point_busy"
             ELSE "none"

invoke_mount(p, requested) ==
    /\ Command
    /\ LET i     == find_media(media, p)
           error == MountError(i, requested)
       IN  IF error # "none" THEN Answer(error)
           ELSE GoOn("mkdir", p, MountPath(media[i]),
                     MountOptions(requested, get_fsopts_for_fs(media[i].content.fstype)))
    /\ UNCHANGED <<world, mounts, mount_event, media, main, others, history>>

MakeDir ==
    /\ pc = "mkdir"
    /\ \/ /\ pc' = "mount" /\ UNCHANGED <<job, reply>>
          /\ dirs' = dirs \cup {job.dir}
          /\ made' = IF job.dir \in dirs THEN made ELSE made \cup {job.dir}
       \/ /\ job.dir \notin dirs
          /\ Answer("mount_point_busy")
          /\ UNCHANGED <<dirs, made>>
    /\ UNCHANGED <<attached, queue, mounts, mount_event, media, main, bounds, touched, refused, late, meanwhile>>

\* Mutant: the directory goes even if something is mounted on it.
RemoveDir_Forced(d) == dirs' = dirs \ {d} /\ made' = made \ {d} /\ touched' = touched \ {d}

\* rmdir(2), which leaves a mount point alone.
RemoveDir(d) ==
    IF Busy(d) THEN UNCHANGED <<dirs, made, touched>>
    ELSE dirs' = dirs \ {d} /\ made' = made \ {d} /\ touched' = touched \ {d}

\* mount(2), or the command mount for a filesystem that needs it.
DoMount ==
    /\ pc = "mount"
    /\ \/ /\ job.path \in attached /\ job.dir \in dirs
          /\ MountsBecome(Append(mounts, [dev |-> job.path, dir |-> job.dir,
                                          opts |-> job.opts, by |-> "daemon"]))
          /\ Answer("none")
          /\ UNCHANGED <<dirs, made, touched>>
       \/ /\ pc' = "rmdir"
          /\ UNCHANGED <<job, reply, mounts, mount_event, dirs, made, touched>>
    /\ UNCHANGED <<attached, queue, media, main, bounds, refused, late, meanwhile>>

MountFailed ==
    /\ pc = "rmdir"
    /\ RemoveDir(job.dir)
    /\ Answer("generic_error")
    /\ UNCHANGED <<attached, queue, mounts, mount_event, media, main, bounds, refused, late, meanwhile>>

(***************************************************************************)
(* invoke_unmount, and invoke_unmount_all on exit.                         *)
(***************************************************************************)
\* invoke_unmount_common, up to umount(2): only the command umount does without
\* there being one mount at the mount point.
UnmountError(n) ==
    LET f == get_fsopts_for_fs(n.content.fstype)
    IN  IF f = NULL THEN "unsupported_fstype"
        ELSE IF ~f.external /\ Count(n.mnt_point) # 1 THEN "device_not_mounted"
        ELSE "none"

invoke_unmount(p) ==
    /\ Command
    /\ LET i     == find_media(media, p)
           error == IF i = 0 THEN "no_such_removable_device"
                    ELSE IF media[i].mnt_point = NULL THEN "device_not_mounted"
                    ELSE UnmountError(media[i])
       IN  IF error # "none" THEN Answer(error) ELSE GoOn("umount", p, media[i].mnt_point, <<>>)
    /\ UNCHANGED <<world, mounts, mount_event, media, main, others, history>>

Return(error) ==
    IF continue_working THEN Answer(error) ELSE pc' = "unmount_all" /\ job' = NoJob /\ UNCHANGED reply

\* The command umount is used for the device.
External(p) == get_fsopts_for_fs(media[find_media(media, p)].content.fstype).external

\* umount(2) or the command umount; either may fail, as when a file is open, but
\* only the former says why.
DoUnmount ==
    /\ pc = "umount"
    /\ \/ /\ Busy(job.dir)
          /\ MountsBecome(RemoveAt(mounts, Topmost(job.dir)))
          /\ pc' = "tidy" /\ UNCHANGED <<job, reply, refused>>
       \/ /\ \/ Return("generic_error")
             \/ ~External(job.path) /\ Return("mount_point_busy")
          /\ refused' = refused \cup {job.path}
          /\ UNCHANGED <<mounts, mount_event>>
    /\ UNCHANGED <<world, media, main, bounds, made, touched, late, meanwhile>>

Tidy ==
    /\ pc = "tidy"
    /\ RemoveDir(job.dir)
    /\ Return("none")
    /\ UNCHANGED <<attached, queue, mounts, mount_event, media, main, bounds, refused, late, meanwhile>>

\* Mutant: only the disks are looked at.
UnmountOrders_Disks ==
    Sortings({i \in DOMAIN media : media[i].mnt_point # NULL /\ ~IsPartition(media[i].path)},
             LAMBDA i, j : i < j)

\* invoke_unmount_recursive takes the partitions of a disk before the disk.
UnmountOrders ==
    Sortings({i \in DOMAIN media : media[i].mnt_point # NULL},
             LAMBDA i, j : IF i < j THEN ParentOf[media[j].path] # media[i].path
                           ELSE ParentOf[media[i].path] = media[j].path)

\* A signal ends the loop; the clients are let go first.
Exit ==
    /\ pc = "poll"
    /\ pc' = "unmount_all"
    /\ continue_working' = FALSE
    /\ rest' \in IF config.unmount_on_exit THEN UnmountOrders ELSE {<<>>}
    /\ UNCHANGED <<world, mounts, mount_event, media, config, job, reply, bounds, history>>

invoke_unmount_all ==
    /\ pc = "unmount_all" /\ rest # <<>>
    /\ LET n == media[Head(rest)]
       IN  IF UnmountError(n) # "none" THEN UNCHANGED <<pc, job>>
           ELSE /\ pc' = "umount"
                /\ job' = [path |-> n.path, dir |-> n.mnt_point, opts |-> <<>>]
    /\ rest' = Tail(rest)
    /\ UNCHANGED <<world, mounts, mount_event, media, config, continue_working, reply, bounds, history>>

\* remove_empty_dirs and remove_all_media.
Finish ==
    /\ pc = "unmount_all" /\ rest = <<>>
    /\ pc' = "exit"
    /\ dirs' = IF config.clear_mount_dir THEN {d \in dirs : d \notin MountDir \/ Busy(d)} ELSE dirs
    /\ made' = made \cap dirs'
    /\ media' = <<>>
    /\ UNCHANGED <<attached, queue, mounts, mount_event, main, job, reply, bounds, touched, refused,
                   late, meanwhile>>

(***************************************************************************)
(* invoke_poweroff: the list says that nothing of the disk is mounted, and *)
(* so does the kernel when the disk is opened with O_EXCL; the disk is     *)
(* stopped and closed, and then the USB device removed, with all disks of  *)
(* it.                                                                     *)
(***************************************************************************)
PoweroffError(i) ==
    IF i = 0 THEN "no_such_removable_device"
    ELSE IF media[i].kind # "stateless_device" THEN "generic_error"
    ELSE IF \E j \in i..SubtreeEnd(media, i) : media[j].mnt_point # NULL THEN "mount_point_busy"
    ELSE IF Sysfs[media[i].path] = NULL THEN "generic_error"
    ELSE "none"

\* Mutant: the disk is opened without O_EXCL.
OpensExclusively_Shared(p) == p \in attached

OpensExclusively(p) == p \in attached /\ \A q \in Subtree(p) : ~InUse(q)

invoke_poweroff(p) ==
    /\ Command
    /\ LET error == PoweroffError(find_media(media, p))
       IN  IF error # "none" THEN Answer(error)
           ELSE \/ OpensExclusively(p) /\ GoOn("remove", p, NULL, <<>>)
                \/ Answer("generic_error")   \* open or fsync fails
    /\ UNCHANGED <<world, mounts, mount_event, media, main, others, history>>

PoweroffRemove ==
    /\ pc = "remove"
    /\ \/ /\ job.path \in attached
          /\ Detach({p \in attached : \E disk \in Paths :
                        p \in Subtree(disk) /\ ~IsPartition(disk) /\ Sysfs[disk] = Sysfs[job.path]})
          /\ Answer("none")
       \/ Answer("generic_error") /\ UNCHANGED <<attached, queue>>
    /\ meanwhile' = {}
    /\ UNCHANGED <<dirs, mounts, mount_event, media, main, bounds, made, touched, refused, late>>

Terminated == pc = "exit" /\ UNCHANGED vars

Daemon ==
    \/ Round \/ EndRound
    \/ \E p \in Paths : invoke_unmount(p) \/ invoke_poweroff(p) \/ \E r \in Requests : invoke_mount(p, r)
    \/ MakeDir \/ DoMount \/ MountFailed \/ DoUnmount \/ Tidy \/ PoweroffRemove
    \/ Exit \/ invoke_unmount_all \/ Finish

Next == Others \/ Daemon \/ Terminated

Spec == Init /\ [][Next]_vars
-----------------------------------------------------------------------------
Errors == {"none", "no_such_removable_device", "fstype_not_recognized", "device_already_mounted",
           "device_not_mounted", "unsupported_fstype", "failed_parsing_mount_options",
           "mount_point_busy", "generic_error"}

\* The shape of the mounts, of the list and of the command at work.
TypeOK ==
    /\ attached \subseteq Paths
    /\ \A k \in DOMAIN mounts :
          /\ mounts[k].dev \in Paths /\ mounts[k].dir \in Dirs
          /\ mounts[k].by \in {"daemon", "other"}
    /\ dirs \subseteq Dirs /\ made \subseteq dirs \cap MountDir /\ touched \subseteq Dirs
    /\ \A k \in DOMAIN mounts : mounts[k].dir \in dirs
    /\ refused \subseteq Paths /\ late \subseteq Paths /\ meanwhile \subseteq Paths
    /\ mount_event \in BOOLEAN /\ continue_working \in BOOLEAN
    /\ \A i \in DOMAIN media : media[i].path \in Paths /\ media[i].mnt_point \in Dirs \cup {NULL}
    /\ config \in Configs
    /\ pc \in {"poll", "clients", "mkdir", "mount", "rmdir", "umount", "tidy", "remove",
               "unmount_all", "exit"}
    /\ job.path \in Paths \cup {NULL} /\ job.dir \in Dirs \cup {NULL}
    /\ job # NoJob <=> pc \in {"mkdir", "mount", "rmdir", "umount", "tidy", "remove"}
    /\ rest \in Seq(DOMAIN media)
    /\ reply \in Errors
    /\ commands \in 0..MaxCommands /\ others \in 0..MaxOthers

\* Two devices that the daemon mounts never share a directory, though they may
\* have the same label, or one the label that is the other's name.
MountsApart ==
    \A j, k \in DOMAIN mounts :
        j # k /\ mounts[j].by = "daemon" /\ mounts[k].by = "daemon" => mounts[j].dir # mounts[k].dir

\* Between commands no directory that the daemon made is left behind unused, if
\* nobody else mounted or unmounted there.
DirsTidied ==
    pc \in {"poll", "clients", "unmount_all"} => \A d \in made : Busy(d) \/ d \in touched

\* The daemon makes a directory for every mount and removes it after use.
OneDirectoryEach == MountsApart /\ DirsTidied

\* What the options of a mount come to: what is mandatory holds whatever the
\* client asked for (of two mandatory options for one key the last), no key is
\* there twice, and the ids of the client are last.
MandatoryHolds ==
    pc = "mount" =>
        LET f == get_fsopts_for_fs(media[find_media(media, job.path)].content.fstype)
            m == FirstOf(f.config_mandatory, f.mandatory)
        IN  /\ \A k \in DOMAIN m :
                  (\A j \in (k + 1)..Len(m) : m[j].key # m[k].key) => m[k] \in ToSet(job.opts)
            /\ \A i, j \in DOMAIN job.opts : job.opts[i].key = job.opts[j].key => i = j
            /\ ToSet(job.opts) \subseteq f.allowed \cup ToSet(f.ids)
            /\ IsSuffix(f.ids, job.opts)

\* invoke_mount refuses a device that the list shows mounted.  It mounts a device
\* a second time only if its mount has not been seen yet, or was seen before the
\* device was added to the list.
MountsOnce ==
    pc = "mount" /\ pc' = "clients" /\ InUse(job.path) => mount_event \/ job.path \in late

\* What a client unmounts is the device it named, unless the mounts have changed
\* since they were checked, or something was mounted on top of it and the command
\* umount is used, before which nothing is counted.
UnmountsNamed ==
    pc = "umount" /\ pc' = "tidy" =>
        \/ mounts[Topmost(job.dir)].dev = job.path
        \/ mount_event
        \/ Count(job.dir) > 1 /\ External(job.path)

\* A command acts on the device it names, and once, though the list it looks at
\* is as old as the last check of the mounts.
ActsAsAsked == [][MountsOnce /\ UnmountsNamed]_vars

\* A device that is mounted is not powered off, whoever mounted it, even if its
\* mount has not been seen yet; except what was mounted after the disk was closed,
\* and what is on another disk of the USB device.
PoweroffSparesMounted ==
    [][pc = "remove" /\ pc' = "clients" =>
          \A k \in DOMAIN mounts :
              mounts[k].dev \in attached \ attached' =>
                  mounts[k].dev \in meanwhile \/ mounts[k].dev \notin Subtree(job.path)]_vars

\* On exit, what the list shows mounted is no longer mounted there by the daemon,
\* unless umount failed or was not tried: the list has lost the filesystem, or
\* others have mounted or unmounted there.
ExitUnmounts ==
    pc = "unmount_all" /\ rest = <<>> /\ config.unmount_on_exit =>
        \A i \in DOMAIN media, k \in DOMAIN mounts :
            /\ mounts[k].dev = media[i].path /\ mounts[k].dir = media[i].mnt_point
            /\ mounts[k].by = "daemon"
            => \/ media[i].path \in refused \/ mounts[k].dir \in touched
               \/ get_fsopts_for_fs(media[i].content.fstype) = NULL

\* A client is told that a device is mounted, is not mounted or does not exist
\* only when it is so, or the mounts have changed since they were checked, or were
\* checked before the device was added, or the device is still to be added, or
\* there are two mounts at the mount point.
AnswersTrue ==
    [][\A p \in Paths :
          /\ (\E r \in Requests : invoke_mount(p, r)) =>
                /\ reply' = "device_already_mounted" => InUse(p) \/ mount_event
                /\ reply' = "no_such_removable_device" =>
                      \/ p \notin attached
                      \/ \E i \in DOMAIN queue : queue[i].action = "add" /\ queue[i].path = p
          /\ invoke_unmount(p) /\ reply' = "device_not_mounted" =>
                ~InUse(p) \/ mount_event \/ p \in late \/ \E d \in Dirs : Count(d) > 1]_vars
=============================================================================
