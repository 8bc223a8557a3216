# dtmd: a verification development in TLA+

dtmd is a daemon that detects removable media, follows their changes and mounts,
and tells its clients; a client library connects programs to it. This directory
holds TLA+ modules that model its core, the TLC configurations that check them,
and proofs checked by TLAPS.

- `DtmdLibrary` the client library: two threads, one socket, a daemon that may die
- `MediaList` the daemon's list of media as operators, with the notifications of each operation
- `MediaView` what a client makes of the notifications
- `DaemonMedia` the daemon's startup and main loop around the list
- `DaemonClients` the daemon's clients: list, poll array, command buffers, answers
- `DaemonMounting` mount, unmount, poweroff and the unmounting on exit
- `UserspaceMonitor` the two threads of the userspace device module; `EventChannel`
  what it promises the main loop
- `UserspaceDevices` what that module reads about devices, and when
- `QtControl` the Qt client's picture of the devices
- `MC_*` instances of these
- `DtmdLibraryProofs`, `MediaListProofs`, `DaemonMediaProofs`, `DaemonClientsProofs`,
  `DaemonMountingProofs`, `UserspaceMonitorProofs`, `UserspaceDevicesProofs`,
  `QtControlProofs` theorems about the module of that name

`tlc -config MC_library.cfg DtmdLibrary` checks a run, `tlapm DtmdLibraryProofs.tla`
the proofs. `PROJECT.json` lists runs, mutants, the lines each definition stands
for, hazards and theorems.

## 1. Inventory

| part | source | state | operations | interacts with |
|---|---|---|---|---|
| client library | `library/dtmd-library.c` | socket, pipes, semaphore, buffer, `library_state`, `result_state` | seven calls, worker thread, `dtmd_init`, `dtmd_deinit` | daemon (socket), inotify/kevent, callbacks of the program |
| data conversion | `library/dtmd-library.c`, `dtmd-library++.cpp` | none | command line to device and back | clients |
| list of media | `daemon/lists.c`, `library/dtmd-misc.c` | tree of nodes | `add_media`, `remove_media`, `change_media`, `remove_all_media` | notifications |
| list of clients | `daemon/lists.c` | client nodes, 4 KiB buffer each | `add_client`, `remove_client` | main loop's poll array |
| mounts | `daemon/mnt_funcs.c` | `mount_counter` of nodes | `check_mount_changes`, `point_mount_count`, mtab | list, `/proc/mounts` |
| commands, notifications | `daemon/actions.c` | none | `invoke_command`, `notify_*`, `print_*` | list, clients |
| startup, main loop, exit | `daemon/daemon-main.c` | poll array, `force_mounts_check`, `pollfds_count` | one round: accept, device event, mounts, clients | everything in the daemon |
| device module, udev | `daemon/modules/linux-udev` | enumeration cursor | enumerate, monitor | udev, sysfs |
| device module, userspace | `daemon/modules/unix-userspace` | queue, recursive mutex, worker thread, pipe | enumerate, monitor | kernel uevents or devd |
| mounting | `daemon/filesystem_mnt.c` | mount directories | `invoke_mount`, `invoke_unmount`, `invoke_unmount_all` | list, mounts file |
| poweroff | `daemon/poweroff.c` | none | `invoke_poweroff` | list, sysfs |
| labels, mount options | `daemon/label.c`, `daemon/filesystem_opts.c` | none | decode, compare; match and convert | list, mounting |
| configuration | `daemon/config_file.c`, `tools/` | globals | read once at startup | mounting |
| Qt client | `client/qt/control.cpp` | `m_devices`, `m_devices_initialized`, `m_saved_commands` | `populate_devices`, `processCommand`, callbacks, slots | library |
| console client | `client/console/main.c` | none | one call, or print notifications | library |

The daemon is one process with one thread, except for the worker of the userspace
module. What is hard there is the environment: devices and mounts change at any
time, are reported through different descriptors, and are taken at different
speeds. In the library two threads share every field of a handle and a call may
time out at any of its waits, and the Qt client adds a third party, its event loop.
`hazards` in `PROJECT.json` lists 40 places where this can go wrong and which
property looks after each.

What makes each part correct:

- library: one owner of the socket at a time; nobody waits for ever; every call
  returns and with its own answer; notifications once each and in order; a timeout
  harms no later call; a restarted daemon is found again
- list and mounts: a sorted tree; counters agree with mount points; in the end the
  list is what is plugged in and mounted
- notifications: each tells of a change from what the client knew; a client that
  follows them knows what a new client would be told
- clients of the daemon: poll array and list agree; no command lost or run twice;
  nobody is dropped without cause; every command answered
- userspace module: events in order, none lost, nothing used after it was freed; what
  is read about devices that come and go is the truth in the end
- mounting, poweroff: a directory for each mount, mandatory options hold, commands act
  on the device they name, no poweroff of a mounted one
- Qt client: shows what the daemon knows
- labels: decoding against a reference definition

## 2. Plan

1. `DtmdLibrary`, its runs and the proof of the hand-off. Done.
2. `MediaList`, `MediaView`, `DaemonMedia`: the list and the loop. Done.
3. `DaemonClients`. Done.
4. `UserspaceMonitor` with `EventChannel`, and `UserspaceDevices` on top of `MediaList`. Done.
5. `DaemonMounting` on top of `MediaList`. Done.
6. `QtControl` on top of `MediaView`. Done.
7. Proofs of the safety properties of `DtmdLibrary`, `UserspaceMonitor` with its
   refinement, `DaemonClients`, `DaemonMounting` and, for what it says of the list,
   `DaemonMedia`. Done (section 9).
8. Proofs of what clients are told and make of it (`NotificationsFit`, `ClientFollows`,
   `ShowsTruth`), of the mount options (`MandatoryHolds`) and of `UserspaceDevices`.
   Done (section 9). Every invariant and action property of a passing run is proved.
9. If anything is added to the model: labels as operators in a module without
   theorems, as decoding is recursive.

## 3. DtmdLibrary

`cpc` and `wpc` say where the two threads are.

| caller | in the code | worker | in the code |
|---|---|---|---|
| idle | outside the library | loop | handling the buffer, or in `poll` |
| capture | `dtmd_helper_capture_socket`, byte written | grant | has read a 1, before its answer |
| owner | has the socket, before the request is written | wait | `sem_wait` |
| process | handling and reading the answer | fail, exit | the two labels at the end |
| error, finish | the labels of `generic_process` | done | the thread has ended |
| join, freed | `dtmd_deinit` | | |

`pipes`, `feedback` and `caller_socket` are the bytes of the two pipes and the
semaphore. A message is one line, reduced to its kind, the command (name and
parameters) it belongs to and the number of the request. `buffer` holds complete
lines: an incomplete one only waits for more input; `stream` is `buffer` and what
follows it in the socket. The actions are the branches of
the two functions, in their order: in `poll` a closed socket goes before the pipe,
the pipe before the directory watch, the watch before data. `IsStart`, `IsSuccess`,
`IsFailure` and `CallProcess` are what the seven process functions have in common;
they differ in the data they collect. `RootLists` are the commands for which the
exit function refuses a list without devices.

The daemon is modelled as the library sees it: requests are answered in order, each
answer written without a notification inside it (the daemon has one thread). It is
written line by line all the same, so a read may get any part of it and the timeout of
a call may expire in its middle;
notifications come at any time; the daemon dies, taking with it what it had not
sent, and comes back through `bind` and `listen`. The delay with which the library
works around the time between the two is a delay, so the model lets the attempt to
connect come in between.

Left out: lines that do not parse, failures of memory, clock and `poll`, removal of
the watched directory, the FreeBSD watch, and SIGPIPE: a request written to a
closed socket is modelled as the failure that a program gets that ignores the
signal. One thread calls the library, as it has to: a second caller is excluded by
the semaphore's protocol itself.

Reads are atomic steps, of the worker (`WorkerRead`) as of the caller. As long as the
hand-off is exclusive that loses nothing. After a call has given up while it waited for
the worker (`library_capture`, `library_timeout`) both threads may read into the one
buffer at once, and what two overlapping reads leave there is undefined in C. So
`OwnAnswer` and `NotificationsInOrder` are, for such handles, about executions in which
the reads do not overlap; `RequestBalance` and `NoMutualWait` do not depend on the
buffer's contents.

### Runs

| run | bounds | result |
|---|---|---|
| `library` | 2 calls, 1 list and 2 other commands, 2 notifications a connection, 1 crash; timeouts while reading | holds |
| `library_timeout` | 3 calls, 1 list and 2 other commands, 1 crash, timeouts also while waiting for the worker, empty lists of the root | holds; safety only |
| `library_capture` | 2 calls, timeouts while waiting for the worker | `MutualExclusion` violated |
| `library_nonfatal` | 2 calls, 1 crash | `NonFatalStaysUsable` violated |

Two calls are what it takes for a leftover of one (a token, half an answer, a late
answer) to meet another; the third in `library_timeout` meets what the second made
of it. Two notifications can be out of order, one crash leads through every branch
of disconnecting and reconnecting, and two commands without a list differ in their
answers. There is no symmetry to use: the commands are told apart by their sets.

- `MutualExclusion`, `HandoffInv`: the socket has one owner, and the tokens of the
  hand-off are always in one of a few positions
- `NotificationsInOrder`: what is delivered, buffered and on its way is what was
  sent, in order, whichever thread reads it
- `OwnAnswer`: a call that returns `dtmd_ok` saw the answer to itself, or, which the
  code cannot tell, one to a call of the same command that is not older than one that
  timed out. The three calls of `library_timeout` show that this goes on: once an answer
  was late, every later call of that command may take the answer of the one before
- `StaysUsable`: while the daemon lives no timeout, be it in the middle of a list, makes
  the handle invalid
- `RequestBalance`, `NoMutualWait`: as many posts as requests, and no circle of waiting,
  also with timeouts while waiting for the worker
- `CallReturns`, `DeinitReturns`, `Reconnects`: liveness

Fairness: weak fairness of the worker and of a caller inside the library (threads
are scheduled), of the daemon's answers and of its way from `bind` to `listen`.
Nobody has to call, notify, time out, crash or restart. `CallReturns` is checked
without timeouts being forced: with an answering daemon a call returns without them.

### What the violations show

- `library_capture`: a call that times out waiting for the worker leaves a grant
  behind that the next call takes for its own. Both threads then read one socket.
- `library_nonfatal`: `dtmd_io_error` from a failed write is declared non-fatal, and
  costs the handle its worker.

Not contradicted by any document, and in the model as the code has it: a list of the
root (`list_removable_device("/")`) without devices is taken for a broken connection
and is a fatal error (`EmptyRootList`).

## 4. MediaList, MediaView, DaemonMedia

The tree of nodes is the sequence of its nodes in the order `dtmd_find_media` visits
them. Paths are ordered as by `strcmp` (`Rank`), so a disk, whose path begins that of its
partitions, is before them; udev enumerates in that order. A node has a path, `kind` (type and subtype), `content` (state, file system and
label), mount point, options and `mount_counter`. Each operation of `lists.c` and
`check_mount_changes` is an operator on the list and one that gives the notifications
it sends, in order. The daemon calls `change_media` without a mount point, so that is
how it is modelled. `MediaView` is what `Control::processCommand` does with the
notifications, and what the answer to `list_all_removable_devices` amounts to.

`DaemonMedia` puts this into the main program:

| action | code |
|---|---|
| `EnumerateDevices`, `NextEnumeratedDevice` | udev module and the loop of `main` over it |
| `FirstCheck` | first `check_mount_changes` |
| `Poll`, `MonitorGetDevice`, `HandleMounts`, `HandleClients` | the parts of one round |
| `Exit` | end of the loop: clients first, then media |
| `Plug`, `Unplug`, `Alter`, `Mount`, `Unmount`, `Remount`, `ClientAsks` | environment |

The environment may act between any two of these. Events carry what udev knew when
they were sent; whether a disk is removable is read from sysfs when the event is
handled, so events of a disk that has gone by then are dropped unless they are
removals. A device is listed by the enumeration and may be gone when it is opened,
which ends the start. One client lists the devices at some point and follows the
notifications from then on.

`late` and `duplicated` are history. They mark the two cases in which the code does
not get the list right: a mount that was seen before the add event of its device is
not looked at again when the device is added, and a device that came between the start
of monitoring and the enumeration is added twice (`media_ghost`). The properties of
`media` say that it gets the list right in all others.

| run | result |
|---|---|
| `media` | holds; disk with two partitions, three starts, 3 changes, 2 entries in the mounts file |
| `media_ghost` | `ListedIsAttached` violated |

Two partitions are needed for the order of siblings and a device in the middle; three
changes are, for instance, a change of a mounted device, a mount elsewhere and an
unplug, at different moments of a round. Two entries let a device be mounted twice.
Partitions are not interchangeable, as the list is sorted, so there is no symmetry.

- `ListWellFormed`: partitions follow their disk, siblings are sorted
- `CounterMatchesMount`: a node is counted as mounted if and only if it has a mount
  point and options; an unmount is never announced without a mount point
- `NotificationsFit`: no notification contradicts what the client knew
- `ClientFollows`: following the notifications gives what listing again would
- `ListIsTrue`: when all events are handled the list is the truth
- `CatchesUp`: the daemon gets there again and again, one device event a round

Fairness: the daemon's single thread keeps running. The environment need not do
anything.

`media_ghost`: a device plugged in during the start is added twice and removed once.
`change_media` announces a new type and does not store it; the model has it so, and as a
device keeps its type while it is attached nothing follows from it.

Left out: failures of memory, `result_bug` for a changed parent or sysfs path (udev
does not change them; for the userspace module see section 7), the FreeBSD version of
`check_mount_changes`, several clients (section 5).

## 5. DaemonClients

What a client writes is a sequence of pieces of lines. A piece is the unit in which
`read` may cut the stream and in which the buffer (`MaxLength`, for 4096 bytes) is
measured; the last piece of a line says whether the command is known, unknown or the
line invalid. An answer or notification is one line, and `SocketBuffer` of them fit the
socket before the blocking `dprintf` waits.

| action | code |
|---|---|
| `Poll` | the array is filled from the list and polled |
| `Accept` | `accept`, `add_client`; the lowest free descriptor is used again |
| `Monitor`, `Notify` | one device event, told to one client after the other |
| `Skip`, `HangUp`, `ReadClient` | the slot of a client by what `poll` reported |
| `ExecuteLine`, `LinesDone`, `RemoveClient` | the lines of a buffer, and its end |
| `EndRound`, `Exit` | the array is resized; `remove_all_clients` |
| `Connect`, `Write`, `Read`, `Close` | the clients |

Run `clients`: two clients, two descriptors, a buffer of two pieces, sockets that hold
one line, one event. Two clients are needed for one to be accepted while the other is
removed, and two descriptors for the new one to get the old one's number in the same
round. The scripts are two commands of which the second comes in two pieces, a line that
fills the buffer, and an unknown command before an invalid line.

- `PollAgrees`: a client is in the list as long as its descriptor is open; there is just
  enough memory in the array when it is filled; whoever was polled is still in the list
  when his slot comes, so "BUG: could not find non-existent client" is never met
- `EachCommandOnce`: nothing is lost or taken twice between socket, buffer and commands
- `DroppedForCause`: a client is dropped for an invalid line or one that does not fit,
  however its lines are cut
- `Answered` (liveness): a client that stays gets all its answers

Fairness: the loop runs, and every client reads what it is sent. The second is an
assumption about clients that the daemon cannot do without: it writes with a blocking
call, and one client that does not read stops it, the device events and all others.

Left out: failures of memory and of the check of credentials, and a read interrupted by
a signal (after `poll` reported input the read does not wait).

## 6. DaemonMounting

The list, a short form of the round (one event, one check of the mounts), the kernel's
mounts and directories, and the commands step by step. Others mount, unmount, plug in,
pull and change devices between any two system calls of a command.

| action | code |
|---|---|
| `invoke_mount`, `MakeDir`, `DoMount`, `MountFailed` | checks, options and path; `mkdir`; `mount`; `rmdir` after a failure |
| `invoke_unmount`, `DoUnmount`, `Tidy` | checks; `umount`; `rmdir` |
| `invoke_poweroff`, `PoweroffRemove` | checks and exclusive open; removal of the USB device |
| `Exit`, `invoke_unmount_all`, `Finish` | end of `main` |
| `Round`, `EndRound` | the loop between commands |
| `Plug`, `Unplug`, `Alter`, `OtherMounts`, `OtherUnmounts` | the world: devices and other processes |

A round takes one event (`AfterEvent`: `add_media`, `remove_media` or `change_media`, or
nothing if the device is not removable, not known or gone) and then checks the mounts if
they changed or the event forces it (`Checked`, `Forced`). An added device is listed
without a mount point, and an addition forces no check. So a device that was mounted,
and whose mount was looked at, before its own event was taken is listed unmounted until
the mounts change again. `late` records these devices.

A run begins with a daemon that has done its first check, with the devices of one of
`Starts` (all of them, or none), nothing mounted and no event waiting. Mounts and events
that were there before are the same as ones that others make before the first round.

An option is a key and a value. `MountOptions` merges what the client asked for (or the
defaults of the config file, or of the table) with what is mandatory; an option of the
former that is not allowed is the client's mistake, one of the latter a generic error.
An option with the key of an earlier one takes its place, at the end of the list
(`add_option`), so of two mandatory ones for a key the last holds; the instance's `vfat`
has both `ro` and `rw` among them.
Filesystems with an external helper use the commands `mount` and `umount`.

The list that the run begins with is sorted as `add_media` sorts (`ListedBefore`), and
`UnmountOrders` is the order in which `invoke_unmount_all` walks it: a disk's partitions
after each other, the disk after them.

Run `mounting`: a USB device with two disks, a partition and a disk with the same label,
one filesystem of each sort, plugged in at the start or later, three commands, two things
done by others, both ways to name directories; 1,048,576 states. Three commands are two
mounts and an unmount or poweroff; a race takes two steps of others at most (a mount and
an unmount, a mount and a change, or plugging in and a mount). With these bounds the run
reaches late mounts, poweroffs of disks that others mounted unseen, and commands for
devices whose addition waits.

- `OneDirectoryEach`: devices the daemon mounts do not share a directory, and directories
  it made are removed again
- `MandatoryHolds`: what is mandatory is there whatever was asked for, no key twice, the
  ids last
- `ActsAsAsked`: a device is not mounted twice, and the device unmounted is the one named.
  Exceptions, as the code has them: the mounts changed since they were checked (which is
  so for two commands in one round), a device added after its mount was looked at
  (`late`), which a client can mount a second time, and the external command, before
  which mounts of the directory are not counted
- `PoweroffSparesMounted`: nothing of the disk is mounted when it is powered off, by the
  daemon or by others, whether or not the daemon has seen it. Exceptions: mounts made
  between the closing of the disk and the removal (`meanwhile`), and the other disks of
  the USB device, which are not opened
- `ExitUnmounts`: with `unmount_on_exit`, what the list shows mounted is not mounted
  afterwards. A mount the list does not show yet stays, as does one whose filesystem the
  list has lost, though the config file says "unmount all removable media on exit"
- `AnswersTrue`: error codes about the state of a device are true. Exceptions: the mounts
  changed since they were checked; a device is said not to exist while its addition waits
  in the queue, or not to be mounted when it was added late; and where something is
  mounted twice in one directory

Left out: failures of memory, FreeBSD's `nmount`, the scanning of option strings and the
tables of options, the mtab; and a device that was listed twice by a race at the start
(`media_ghost`), for which two nodes may disagree.

## 7. The userspace device module

`UserspaceMonitor` has the worker and the main thread step by step: one action for each
taking of the mutex, each change of queue and pipe, and each release of an event. Events
are numbered objects with the counter of `private_data`. The mutex is recursive, and only
the worker keeps it over several steps; where the main thread holds it for one step the
action only requires that it is free.

`EventChannel` is the abstract specification: events are posted in order while the
channel is open, and delivered in order. `ImplementsChannel` is the refinement, with
`posted <- delivered \o queue`.

Run `userspace`: 5 events and a pipe of 3 bytes, so that the pipe can run full and can
also empty again.

- `QueueSafe`: counters are the number of users; the worker never touches a monitor that
  was unlinked; there is a byte for every item
- `ImplementsChannel`: refinement
- `EventsDelivered`, `DeinitReturns` (liveness): every item is taken and the daemon can
  always end, unless the pipe runs full

`PipeFull` is a real deadlock: the worker waits for room with the mutex that the main
loop takes before it reads the pipe. It takes as many unread events as the pipe has
bytes (65536 on Linux), so it is stated as the exception of the two properties, and
`CHECK_DEADLOCK FALSE` lets the run go on beyond it. No document speaks of it.

Fairness: both threads are scheduled. A mutex is never kept for ever except by `PipeFull`,
so weak fairness of each thread is enough here; events need not happen.

`UserspaceDevices` puts the reads in place of the events: the enumeration over three
directories, with type, USB parent, partition table and medium read one after the other,
and the worker's reads for each event. Devices come, go and change between any two. What
the enumeration found goes to the list one device at a time (`AddEnumerated`) while the
worker goes on; `raced` marks the disks that came or went during the enumeration. The
queue is the channel; the list is `MediaList`'s. Reading a file of a device that has gone
gives what the code makes of the failure.

The model begins when the monitor is linked (`device_system_start_monitoring`). Socket and
worker exist a little longer, since `device_system_init`: events that the worker has taken
before are posted to nobody, and belong to the world before the start; events it has not
taken yet are the same as changes at the very beginning of the scan, where `unread` is
empty and anything may happen, and their disks are marked `raced` like those.

Run `userspace_devices`: a USB disk with a partition, an SD card with a partition, and a
USB CD-ROM; two ports, which are symmetric; 3 changes. The three disks are those for
which the code has different ways: found through the USB directory, through the MMC
directory, and as removable with a state.

- `ListIsTrue`: when all events are handled, the list is what is there. Exceptions: disks
  that came or went during the enumeration (added twice, as with udev), and partitions
  of an SD card attached at the start, whose node is looked for under a name the kernel
  does not use
- `FailsForCause`: the daemon ends itself over a changed sysfs path only in three cases:
  a USB CD-ROM (in the code as it is, one that the enumeration stored without a path;
  the property exempts any), a disk that came or went during the enumeration, and a
  removal that is still on its way

Run `userspace_sysfs`: `SysfsPathKept` is violated. A USB CD-ROM that is there when the
daemon starts is stored without a sysfs path, its first change event (a disc is put in)
has one, and `change_media` ends the daemon. The other cases of `FailsForCause` take more
steps. A device pulled between two reads is one. The other came up in the proof: a disk
plugged in during the enumeration is listed twice, its removal leaves the second node,
with the old port, and when the disk is plugged in at another port, its next change event
meets that node. It takes four changes, one more than the run has (with four it is
beyond the time of a run); the theorem covers any number.

Left out: failures of memory, the parsing of uevents, devd and GEOM on FreeBSD.

## 8. QtControl

The daemon sends the list and notifications over one connection, which the library's
worker or a call of the main thread reads (`reader`), as `DtmdLibrary` has it in detail.
Notifications go to `dtmd_callback` in either thread; connections and disconnections are
posted to the event loop and run later as slots. `populate_devices` is split where the
lock is: the call, then the storing.

What the daemon knows (`truth`) changes in two ways: `DeviceChanges` with a notification
that fits it, as `NotificationsFit` of `DaemonMedia` shows for a daemon that lists no
device twice (one that does is left out here), and `OptionsChange`, a remount where the
device is, whose options `check_mount_changes` stores and announces to nobody.
`remounted` records the devices for which that happened on the present connection.

Run `qt`: a disk with a partition, at the start not there or mounted, two sets of options,
3 changes, 2 deaths of the daemon, 1 answer too late; 10,971,940 states.
Two deaths are what it takes for notifications saved on one connection to meet the list
of another.

- `ShowsTruth`: when nothing is under way, devices and menu are what the daemon knows,
  options included; only the options of devices in `remounted` may differ, and nothing
  else of these devices.
  Exceptions: a list that is stored over notifications which came after it, when the
  client had an earlier list (`between`), and notifications of an earlier connection
  replayed on the new list, as `slotDtmdDisconnected` does not clear them (both
  `misled`); and there are no devices at all only after a list that came too late

Replaying notifications on a list that already contains them is harmless: that is what
the property shows besides.

No fairness is needed, as nothing is claimed to happen. Left out: the menu handlers,
which read `m_devices` without the mutex, and what is shown.

## 9. What is proved

Each theorem holds for all values of the constants that satisfy the assumptions named
in the module: any sets of commands, clients, devices, directories and options, any
bounds. The bounds of the models only limit how often the environment acts.

### DtmdLibraryProofs

From `LibraryAssumption`. Four groups, each with what has to be added to make it
inductive:

- The hand-off. `HandoffCorrect`, `ExclusionCorrect`: if no call gives up while it waits
  for the worker (`"capture_timeout" \notin Faults`), `HandoffInv` and `MutualExclusion`
  always hold; `library_capture` shows that the hypothesis is needed. `MutualExclusion`
  is not inductive: nothing in it says that a byte in `feedback` means a worker that
  waits, or that a post belongs to a finished call. `HandoffInv` is the table of all
  positions of the tokens, and each action leads from one row to another.
- Waiting. `BalanceCorrect`, `WaitCorrect`: `RequestBalance` and `NoMutualWait` always
  hold, with all faults. The balance is inductive by itself once it is known what adding
  and taking a byte do to the number of ones (`OnesFacts`). `WaitInv` adds that a caller
  in `capture` has a request or a grant on its way, that a worker that has ended left a 0
  or a fatal result, and that `dtmd_deinit` has a 0 in the pipe. That a blocked worker
  has a caller that will post is then the balance: its own request is still unmatched.
- The stream. `NotificationsCorrect`, `OwnAnswerCorrect`: `NotificationsInOrder` and
  `OwnAnswer` always hold, with all faults. All lemmas are about `stream`: a thread takes
  its first message, a read leaves it as it is, the daemon adds to its end, a crash cuts
  it. For `OwnAnswer` every answer and request belongs to the call in progress or comes
  late (`PendingInv`), and answers and requests are in the order of the calls, a final
  message before a greater number (`OrderInv`). So the call that takes its own answer
  leaves none behind, and what remains after it took an older one is itself late.
- The parser. `StaysUsableCorrect`: with the hypothesis of the first group, `StaysUsable`
  always holds. `GrammarInv` says that the stream is a sequence of whole answers and
  notifications of which the first may have been read in part, as `library_state` has
  it; every message is then one that the parser expects. `UsableInv` adds that a call
  whose list has started is in the state of its command, and that without a socket there
  is nothing in the stream.

`TypeCorrect` needs that a started message names a list command, since that is what ends
up in `library_state`.

### UserspaceMonitorProofs

From `MonitorAssumption`, for any number of events and any size of the pipe.

- `TypeCorrect`, `QueueSafeCorrect`: `TypeOK` and `QueueSafe`. The inductive invariant
  says what each thread holds where (`ThreadInv`), that events are passed on in the order
  of their numbers (`OrderInv`, which is why an event is never in two places at once),
  that a counter is the number of holders (`CountInv`), and that the ones in the pipe are
  the items of the queue that were signalled (`PipeInv`).
- `ChannelImplemented`: the safety part of the refinement. Appending to the queue is a
  post, taking from it a delivery, everything else a stutter of the channel.

### DaemonClientsProofs

From `ClientsAssumption`, which includes that descriptors do not run out.

- `TypeCorrect`, `PollAgreesCorrect`, `EachCommandOnceCorrect`, `DroppedForCauseCorrect`.
  The invariant: list, descriptors and backlog are disjoint and without duplicates
  (`SocketInv`); the slots still to come are of listed clients and each client has one
  slot (`SlotInv`), which is why a descriptor that is used again in mid-round does no
  harm; what the daemon has at hand at each point of its round (`RoundInv`); what a client
  wrote is what was executed, then the buffer, then the socket, cut at ends of lines, with
  one answer for each command in the first part (`StreamInv`). That `accept` finds a
  descriptor is a pigeonhole argument over the finite sets.

### MediaListProofs and DaemonMediaProofs

`MediaListProofs` has the lemmas about the operators, from `PathAssumption`:
`add_media`, `remove_media`, `change_media` and `check_mount_changes` keep a list a tree
(`Tree`), sorted (`Ordered`) and, where the path is new, without duplicates (`Distinct`),
and say which nodes are in the result. A list is a sequence, so these are lemmas about
intervals that are moved or cut. Its second part is about pictures: what a client makes
of several notifications is the last element of a course of pictures, each of which
follows from the one before (`FollowIsCourse`). A proof that names the course of an
operation's notifications needs no induction over them.

`DaemonMediaProofs`, from `PathAssumption` and `DeviceAssumption`:

- `ListWellFormedCorrect`, `CounterMatchesMountCorrect`: from `ListInv`, the type of
  nodes included; a device that was added twice is the only duplicate. That a
  partition is never added without its disk needs the order of the enumeration
  (`PhaseInv`).
- `NotificationsFitCorrect`, `ClientFollowsCorrect`: `ToldInv` says that, unless a device
  was listed twice, every notification so far fitted, and that the picture of a client
  that has listed the devices shows the list (`Shows`), node by node. For each operation
  of the list there is a lemma that its notifications lead a picture of the old list to
  one of the new.
- `ListIsTrueCorrect`: when all events are handled, the list is what is there. The queue
  of events has no inductive property of its own; `HistoryInv` says that there is a
  sequence of worlds that leads, event by event, to the world as it is (`Chain`), and that
  the list shows the first of them, up to events that are still to come (`Explained`). An
  event that is handled drops the first world, a change of the environment adds one. Facts
  along the chain (a device that is there in the first world and not in the last was
  removed in between) are proved by the least counterexample in place of induction.
  `ShownInv` says that mount points are as in the mounts file unless a check is due.

### DaemonMountingProofs

From `PathAssumption`, `MountingAssumption` and, for the options, `OptionsAssumption`, whatever others do between its steps.

- `TypeCorrect`, `OneDirectoryEachCorrect`, `ExitUnmountsCorrect` and, as action
  properties, `ActsAsAskedCorrect`, `AnswersTrueCorrect`, `PoweroffSparesMountedCorrect`.
- The invariant: what is at hand where (`PhaseInv`); a directory is the daemon's own or
  was touched by others, and no mount of the daemon is where it is about to mount
  (`PlaceInv`); the list is well formed and, unless a check is due, shows what is mounted
  of every device but those added late (`ListInv`, with the lemmas of `MediaListProofs`);
  what a command found out is still so when it acts, unless the mounts have changed
  since, and of a disk to be powered off only what came `meanwhile` is mounted (`JobInv`);
  on exit, each mount that the list shows is gone, has had its turn or is still to come
  (`ExitInv`).
- `PluggedInv` is what `AnswersTrue` needs of the events: they lead from the list to what
  is plugged in. Stated for one device (`Queues`): what is plugged in is listed with no
  removal waiting, or is added by an event with no removal after it (`Back`); what is not
  is removed after each addition (`Undone`). For this to survive the taking of the first
  event, additions of a device must be separated by removals (`Parted`) and preceded by
  one if it is listed (`Preceded`), a partition must not be added before its disk
  (`Follows`), as it would be dropped, and must come back after the removal of its disk,
  which takes it out of the list (`Returns`). Disks come and go with all their partitions
  (`WholeInv`).
- `MandatoryHoldsCorrect`: from `OptionsInv`, which says that until it mounts, a command
  has the merged options of some request and of the filesystem that the list shows, and
  from lemmas about `add_options`: no key twice, and for each key the last option that
  was given.

### UserspaceDevicesProofs

From `PathAssumption`, `SysfsAssumption` and `NullAssumption`, for any devices, ports and
number of changes: `TypeCorrect`, `ListIsTrueCorrect`, `FailsForCauseCorrect`. All three
speak of `Waiting`: the events posted, the one the worker has at hand and the unread
ones, in order.

- `WaitInv`, `WorldInv`: the waiting events lead from the list to what is there. A device
  that is there and not listed has its addition waiting, one that is listed and gone its
  removal; additions and removals of a device take turns; a disk comes before its
  partitions. Taking an event out and adding one are two lemmas about sequences that
  embed in each other.
- `ScanInv`, `EnumInv`: how far the enumeration is, and that what it has passed is either
  found or has raced.
- `ListInv`, `ItemInv`, `FreshInv`: nodes and events are what the module can have read,
  and the last that is told of a device is its present medium, unless an event is still
  to be read. This is `ListIsTrue` when nothing waits.
- `SysfsInv`, `CauseInv`: the sysfs path that a node or an event has is that of the
  device's own port, or a later removal waits; so paths that differ are one of the cases
  of `FailsForCause`.

### QtControlProofs

From `PathAssumption` and `ControlAssumption`.

- `TypeCorrect`, `ShowsTruthCorrect`. `SlotInv` is about the event loop: what is posted
  is what links and devices require, and only then may they disagree. `ShowInv` says that
  there is a history of what the daemon knew before and after each line that is under
  way (`Heard`), which ends in the truth and begins with the devices that the client has;
  and while notifications are saved, another that leads through them to the same point
  (`Saved`), on which the list to be stored lies. So replaying notifications on a
  list that contains some of them ends where the history does: each sets a device to a
  value, and the last one decides. Remounts are no part of the histories: the client's
  devices, the lists and the histories are compared up to the options of the devices in
  `remounted` (`Like`), a relation that every notification preserves.

### Only model-checked

Liveness, as fairness and ENABLED are out of the prover's reach: `CallReturns`,
`DeinitReturns`, `Reconnects` of the library, `CatchesUp` of the list, `Answered` of the
clients, `EventsDelivered` and `DeinitReturns` of the userspace module. The instances
behind them are those of the runs. Facts about sequences that would take induction are
proved along a named course or by the least counterexample.

## 10. Not modelled

- Failures of memory and of locks: almost every one ends the daemon or the call.
- FreeBSD: its watch of the socket, `check_mount_changes`, devd, GEOM and `nmount`.
  The models are of the Linux build.
- Parsing and formatting: command lines, uevents, sysfs files, option strings, labels
  (`label.c`), the mounts file. The models begin with what they yield.
- The configuration file (`config_file.c`, `dtmd-config.c`): read once; its values are
  constants of `DaemonMounting`.
- The tables of `filesystem_opts.c`: data, of which an instance has two rows.
- The C++ library and the console client: no state of their own.
- The Qt client's menu handlers: they read the devices without the mutex, a data race
  whose outcome is up to the containers.
- Options, daemonizing, logging, lock file: process setup.
