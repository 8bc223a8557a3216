-------------------------- MODULE UserspaceMonitor --------------------------
(***************************************************************************)
(* The device module that reads the events of the kernel itself,           *)
(* daemon/modules/unix-userspace/system_module.c: a worker thread receives *)
(* events, puts them into the queue of the monitor and writes a byte to    *)
(* the monitor's pipe; the main loop polls the pipe and takes the events.  *)
(* The daemon has one monitor.  Events are objects with a count of users.  *)
(***************************************************************************)
EXTENDS Naturals, SequencesExt

CONSTANTS
    NULL,
    MaxEvents,   \* how many events happen
    PipeSize     \* how many bytes a pipe holds

ASSUME MonitorAssumption ==
    /\ MaxEvents \in Nat /\ PipeSize \in Nat \ {0}
    /\ NULL \notin Nat /\ NULL # "worker"

Events == 1..MaxEvents

VARIABLES
    happened,     \* how many events there were
    unread,       \* those of them that are not yet read from events_fd
    mutex,        \* who holds control_mutex
    monitor,      \* "none", "linked" into the list of monitors, "unlinked" or "freed"
    queue,        \* its items
    pipe,         \* data_pipe
    control_pipe, \* worker_control_pipe, the number of bytes in it
    counter,      \* private_data->counter of each event
    freed,        \* events that were freed
    worker, main, \* where the two threads are
    device,       \* the event the worker has at hand
    dev_device,   \* the event the main loop has at hand
    delivered     \* history: what the main loop was given

kernel  == <<happened, unread>>
objects == <<counter, freed>>
vars    == <<kernel, mutex, monitor, queue, pipe, control_pipe, objects, worker, main,
             device, dev_device, delivered>>

Init ==
    /\ happened = 0 /\ unread = <<>>
    /\ mutex = NULL /\ monitor = "none"
    /\ queue = <<>> /\ pipe = <<>> /\ control_pipe = 0
    /\ counter = [e \in Events |-> 0] /\ freed = {}
    /\ worker = "poll" /\ main = "start"
    /\ device = NULL /\ dev_device = NULL
    /\ delivered = <<>>

\* A device comes, goes or changes.
Happen ==
    /\ happened < MaxEvents
    /\ happened' = happened + 1
    /\ unread' = Append(unread, happened')
    /\ UNCHANGED <<mutex, monitor, queue, pipe, control_pipe, objects, worker, main,
                   device, dev_device, delivered>>

(***************************************************************************)
(* device_system_copy_device and device_system_free_device.  The mutex is  *)
(* recursive.                                                              *)
(***************************************************************************)
\* Mutant: the copy does not count.
copy_device_Plain(e) == UNCHANGED objects

copy_device(e) == counter' = [counter EXCEPT ![e] = @ + 1] /\ UNCHANGED freed

free_device(thread, e) ==
    /\ mutex \in {NULL, thread}
    /\ counter' = [counter EXCEPT ![e] = @ - 1]
    /\ freed' = IF counter[e] = 1 THEN freed \cup {e} ELSE freed

(***************************************************************************)
(* The worker.  The control pipe comes first.                              *)
(***************************************************************************)
WorkerPoll ==
    /\ worker = "poll"
    /\ \/ /\ control_pipe > 0
          /\ control_pipe' = control_pipe - 1 /\ worker' = "exit"
          /\ UNCHANGED <<unread, objects, device>>
       \/ /\ control_pipe = 0 /\ unread # <<>>
          /\ unread' = Tail(unread)
          /\ \/ \* an event of a disk or partition
                /\ worker' = "lock" /\ device' = Head(unread)
                /\ counter' = [counter EXCEPT ![Head(unread)] = 1] /\ UNCHANGED freed
             \/ \* some other event, or one that is dropped
                UNCHANGED <<worker, device, objects>>
             \/ \* the socket fails
                worker' = "error" /\ UNCHANGED <<device, objects>>
          /\ UNCHANGED control_pipe
    /\ UNCHANGED <<happened, mutex, monitor, queue, pipe, main, dev_device, delivered>>

WorkerLock ==
    /\ worker = "lock" /\ mutex = NULL
    /\ mutex' = "worker"
    /\ worker' = IF monitor = "linked" THEN "append" ELSE "unlock"
    /\ UNCHANGED <<kernel, monitor, queue, pipe, control_pipe, objects, main,
                   device, dev_device, delivered>>

\* Mutant: the item goes to the front of the queue.
WorkerAppend_Front ==
    /\ worker = "append"
    /\ copy_device(device)
    /\ queue' = <<device>> \o queue
    /\ worker' = "write"
    /\ UNCHANGED <<kernel, mutex, monitor, pipe, control_pipe, main, device, dev_device, delivered>>

WorkerAppend ==
    /\ worker = "append"
    /\ copy_device(device)
    /\ queue' = Append(queue, device)
    /\ worker' = "write"
    /\ UNCHANGED <<kernel, mutex, monitor, pipe, control_pipe, main, device, dev_device, delivered>>

\* The write waits for room in the pipe, and the worker has the mutex.
WorkerWrite ==
    /\ worker = "write" /\ Len(pipe) < PipeSize
    /\ pipe' = Append(pipe, 1)
    /\ worker' = "unlock"
    /\ UNCHANGED <<kernel, mutex, monitor, queue, control_pipe, objects, main,
                   device, dev_device, delivered>>

WorkerUnlock ==
    /\ worker = "unlock"
    /\ mutex' = NULL /\ worker' = "free"
    /\ UNCHANGED <<kernel, monitor, queue, pipe, control_pipe, objects, main,
                   device, dev_device, delivered>>

WorkerFree ==
    /\ worker = "free"
    /\ free_device("worker", device)
    /\ worker' = "poll" /\ device' = NULL
    /\ UNCHANGED <<kernel, mutex, monitor, queue, pipe, control_pipe, main, dev_device, delivered>>

\* The worker ends, told to or by an error: one last byte to the monitor.
WorkerLastLock ==
    /\ worker \in {"exit", "error"} /\ mutex = NULL
    /\ mutex' = "worker"
    /\ worker' = IF worker = "exit" THEN "write_exit" ELSE "write_error"
    /\ UNCHANGED <<kernel, monitor, queue, pipe, control_pipe, objects, main,
                   device, dev_device, delivered>>

WorkerLastWrite ==
    /\ worker \in {"write_exit", "write_error"}
    /\ IF monitor = "linked"
       THEN /\ Len(pipe) < PipeSize
            /\ pipe' = Append(pipe, IF worker = "write_exit" THEN 2 ELSE 0)
       ELSE UNCHANGED pipe
    /\ mutex' = NULL
    /\ worker' = "done"
    /\ UNCHANGED <<kernel, monitor, queue, control_pipe, objects, main,
                   device, dev_device, delivered>>

Worker ==
    \/ WorkerPoll \/ WorkerLock \/ WorkerAppend \/ WorkerWrite \/ WorkerUnlock \/ WorkerFree
    \/ WorkerLastLock \/ WorkerLastWrite

(***************************************************************************)
(* The main thread.                                                        *)
(***************************************************************************)
StartMonitoring ==
    /\ main = "start" /\ mutex = NULL
    /\ monitor' = "linked"
    /\ main' = "loop"
    /\ UNCHANGED <<kernel, mutex, queue, pipe, control_pipe, objects, worker,
                   device, dev_device, delivered>>

MainPoll ==
    /\ main = "loop" /\ pipe # <<>>
    /\ main' = "get"
    /\ UNCHANGED <<kernel, mutex, monitor, queue, pipe, control_pipe, objects, worker,
                   device, dev_device, delivered>>

\* Mutant: all bytes are read for one item.
MonitorGetDevice_Drain ==
    /\ main = "get" /\ mutex = NULL /\ queue # <<>>
    /\ pipe' = <<>>
    /\ dev_device' = Head(queue) /\ delivered' = Append(delivered, Head(queue))
    /\ queue' = Tail(queue)
    /\ main' = "use"
    /\ UNCHANGED <<kernel, mutex, monitor, control_pipe, objects, worker, device>>

\* device_system_monitor_get_device takes the mutex before it reads the byte.
MonitorGetDevice ==
    /\ main = "get" /\ mutex = NULL
    /\ pipe' = Tail(pipe)
    /\ IF Head(pipe) = 1 /\ queue # <<>>
       THEN /\ dev_device' = Head(queue) /\ delivered' = Append(delivered, Head(queue))
            /\ queue' = Tail(queue)
            /\ main' = "use"
       ELSE /\ main' = IF Head(pipe) = 0 THEN "stop" ELSE "loop"
            /\ UNCHANGED <<queue, dev_device, delivered>>
    /\ UNCHANGED <<kernel, mutex, monitor, control_pipe, objects, worker, device>>

\* device_system_monitor_free_device, when the event has been handled.
MonitorFreeDevice ==
    /\ main = "use"
    /\ free_device("main", dev_device)
    /\ dev_device' = NULL /\ main' = "loop"
    /\ UNCHANGED <<kernel, mutex, monitor, queue, pipe, control_pipe, worker, device, delivered>>

\* A signal ends the loop.
Signal ==
    /\ main = "loop"
    /\ main' = "stop"
    /\ UNCHANGED <<kernel, mutex, monitor, queue, pipe, control_pipe, objects, worker,
                   device, dev_device, delivered>>

\* Mutant: the monitor is unlinked without the mutex.
StopMonitoring_Unlocked ==
    /\ main = "stop"
    /\ monitor' = "unlinked"
    /\ main' = "free"
    /\ UNCHANGED <<kernel, mutex, queue, pipe, control_pipe, objects, worker,
                   device, dev_device, delivered>>

\* device_system_stop_monitoring: the monitor leaves the list, then its items are
\* freed, then itself.
StopMonitoring ==
    /\ main = "stop" /\ mutex = NULL
    /\ monitor' = "unlinked"
    /\ main' = "free"
    /\ UNCHANGED <<kernel, mutex, queue, pipe, control_pipe, objects, worker,
                   device, dev_device, delivered>>

FreeItem ==
    /\ main = "free" /\ queue # <<>>
    /\ free_device("main", Head(queue))
    /\ queue' = Tail(queue)
    /\ UNCHANGED <<kernel, mutex, monitor, pipe, control_pipe, worker, main,
                   device, dev_device, delivered>>

FreeMonitor ==
    /\ main = "free" /\ queue = <<>>
    /\ pipe' = <<>> /\ monitor' = "freed"
    /\ main' = "deinit"
    /\ UNCHANGED <<kernel, mutex, queue, control_pipe, objects, worker,
                   device, dev_device, delivered>>

\* Mutant: the worker is not told to end.
Deinit_NoByte ==
    /\ main = "deinit"
    /\ main' = "join"
    /\ UNCHANGED <<kernel, mutex, monitor, queue, pipe, control_pipe, objects, worker,
                   device, dev_device, delivered>>

\* device_system_deinit.
Deinit ==
    /\ main = "deinit"
    /\ control_pipe' = control_pipe + 1
    /\ main' = "join"
    /\ UNCHANGED <<kernel, mutex, monitor, queue, pipe, objects, worker,
                   device, dev_device, delivered>>

Join ==
    /\ main = "join" /\ worker = "done"
    /\ main' = "done"
    /\ UNCHANGED <<kernel, mutex, monitor, queue, pipe, control_pipe, objects, worker,
                   device, dev_device, delivered>>

Main ==
    \/ StartMonitoring \/ MainPoll \/ MonitorGetDevice \/ MonitorFreeDevice
    \/ StopMonitoring \/ FreeItem \/ FreeMonitor \/ Deinit \/ Join

Terminated == main = "done" /\ UNCHANGED vars

Next == Happen \/ Worker \/ Main \/ Signal \/ Terminated

\* Both threads get to run.
Spec == Init /\ [][Next]_vars /\ WF_vars(Worker) /\ WF_vars(Main)
-----------------------------------------------------------------------------
\* The shape of the queue, the pipes and the counters.
TypeOK ==
    /\ happened \in 0..MaxEvents /\ unread \in Seq(Events)
    /\ mutex \in {NULL, "worker"}
    /\ monitor \in {"none", "linked", "unlinked", "freed"}
    /\ queue \in Seq(Events) /\ delivered \in Seq(Events)
    /\ pipe \in Seq({0, 1, 2}) /\ Len(pipe) <= PipeSize
    /\ control_pipe \in {0, 1}
    /\ counter \in [Events -> Nat] /\ freed \subseteq Events
    /\ worker \in {"poll", "lock", "append", "write", "unlock", "free",
                   "exit", "error", "write_exit", "write_error", "done"}
    /\ main \in {"start", "loop", "get", "use", "stop", "free", "deinit", "join", "done"}
    /\ device \in Events \cup {NULL} /\ dev_device \in Events \cup {NULL}

\* How many users of an event there are: the worker, the queue, the main loop.
Users(e) ==
    Cardinality({k \in DOMAIN queue : queue[k] = e})
        + (IF device = e THEN 1 ELSE 0) + (IF dev_device = e THEN 1 ELSE 0)

\* The counter of an event is the number of its users, whichever thread lets go
\* of it first, so that nothing is used after it was freed, freed twice or leaked.
CountersExact ==
    \A e \in Events :
        /\ counter[e] = Users(e)
        /\ e \in freed => Users(e) = 0

\* The worker never touches the monitor once the main loop has taken it out of
\* the list to free it.
MonitorAlive == worker \in {"append", "write"} => monitor = "linked"

\* There is a byte in the pipe for every item of the queue, so that no item waits
\* for the next event, and no byte finds the queue empty.
PipeCounts ==
    mutex = NULL /\ monitor = "linked" =>
        Cardinality({k \in DOMAIN pipe : pipe[k] = 1}) = Len(queue)

\* Two threads share events, the monitor, its queue and its pipe, and none is used
\* after it was freed, lost, or counted wrongly.
QueueSafe == CountersExact /\ MonitorAlive /\ PipeCounts

\* The two threads are a channel that delivers events in order and completely.
Channel ==
    INSTANCE EventChannel WITH
        open <- monitor = "linked",
        posted <- IF monitor = "linked" THEN delivered \o queue ELSE delivered,
        delivered <- Len(delivered)
ImplementsChannel == Channel!Spec

\* The worker waits for room in the pipe, with the mutex that the main loop needs
\* before it reads from the pipe: then both threads wait for ever.
PipeFull == Len(pipe) = PipeSize /\ worker \in {"write", "write_exit", "write_error"}

\* Every event that reached the queue reaches the main loop, or monitoring ends,
\* unless the pipe runs full.
EventsDelivered ==
    []~PipeFull => \A e \in Events : e \in ToSet(queue) ~> e \notin ToSet(queue)

\* The daemon can always end: the monitor is stopped and the worker joined,
\* whatever the worker is doing, unless the pipe runs full.
DeinitReturns == []~PipeFull => (main = "stop" ~> main = "done")
=============================================================================
