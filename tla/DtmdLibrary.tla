---------------------------- MODULE DtmdLibrary ----------------------------
(***************************************************************************)
(* The client library, library/dtmd-library.c.  A handle is shared by two  *)
(* threads: the caller, inside dtmd_helper_generic_process, and the worker, *)
(* dtmd_worker_function.  They pass the daemon socket (and with it buffer, *)
(* library_state and the callback) to each other through two pipes and a   *)
(* semaphore.  The daemon at the other end is modelled from how the        *)
(* library sees it: it answers requests in order, sends notifications, may *)
(* die and come back.                                                      *)
(*                                                                         *)
(* A message stands for one complete line.  Its text is abstracted to its  *)
(* kind and the command it answers; a command stands for its name together *)
(* with its parameters.                                                    *)
(***************************************************************************)
EXTENDS Naturals, Sequences, FiniteSets

CONSTANTS
    ListCommands,      \* commands answered by started ... finished
    RootLists,         \* of ListCommands, those that are list_removable_device("/")
    PlainCommands,     \* commands answered by succeeded (mount, unmount, poweroff)
    Faults,            \* what the environment of a run may do, see FaultKinds
    MaxCalls,          \* bound on the calls of a behaviour
    MaxNotifications,  \* bound on the notifications of one connection
    MaxCrashes         \* bound on the times the daemon dies

FaultKinds == {"capture_timeout", "read_timeout", "daemon_crash", "slow_listen"}

ASSUME LibraryAssumption ==
    /\ ListCommands \cap PlainCommands = {}
    /\ RootLists \subseteq ListCommands
    /\ "default" \notin ListCommands
    /\ Faults \subseteq FaultKinds
    /\ MaxCalls \in Nat
    /\ MaxNotifications \in Nat
    /\ MaxCrashes \in Nat

VARIABLES
    cpc, wpc,          \* where the caller and the worker are
    pipes,             \* bytes in handle->pipes, caller to worker
    feedback,          \* bytes in handle->feedback, worker to caller
    caller_socket,     \* the value of the semaphore
    socket_fd,         \* whether handle->socket_fd >= 0
    hup,               \* whether the other end of the socket is closed
    inbox, outbox,     \* bytes of the socket towards the library and the daemon
    buffer,            \* complete commands in handle->buffer
    library_state, result_state,
    command,           \* the command of the call in progress, and whether its
    got_started,       \* list has started and has had a device in it
    got_device,
    daemon,            \* the daemon: "down", "bound" or "listening"
    watch,             \* IN_CREATE events not yet read from watch_fd
    crashes,           \* how often the daemon has died
    calls, answered,   \* history: number of the last call, and of the call
                       \* whose answer the last successful call accepted
    abandoned,         \* history: the calls that ended in a timeout
    refused,           \* history: the last attempt to connect was refused
    sent, delivered    \* history: notifications sent on this connection and
                       \* handed to handle->callback

threads == <<cpc, wpc>>
handoff == <<pipes, feedback, caller_socket>>
link    == <<socket_fd, hup, inbox, outbox>>
parser  == <<buffer, library_state>>
call    == <<result_state, command, got_started, got_device>>
peer    == <<daemon, watch, crashes>>
history == <<calls, answered, abandoned, refused, sent, delivered>>
vars    == <<threads, handoff, link, parser, call, peer, history>>

Commands == ListCommands \cup PlainCommands

FatalResults == {"fatal_io_error", "invalid_state"}

Results ==
    {"ok", "command_failed", "timeout", "not_connected", "io_error"} \cup FatalResults

MessageKinds == {"started", "device", "finished", "succeeded", "failed", "notification"}

Messages ==
    {m \in [kind : MessageKinds, cmd : Commands \cup {"none"}, id : Nat] :
        m.kind = "started" => m.cmd \in ListCommands}

Requests == [cmd : Commands, id : Nat]

\* The shape of every variable of a handle and of its peer.
TypeOK ==
    /\ cpc \in {"idle", "capture", "owner", "process", "error", "finish", "join", "freed"}
    /\ wpc \in {"loop", "grant", "wait", "fail", "exit", "done"}
    /\ pipes \in Seq({0, 1})
    /\ feedback \in Seq({0, 1})
    /\ caller_socket \in Nat
    /\ socket_fd \in BOOLEAN
    /\ hup \in BOOLEAN
    /\ inbox \in Seq(Messages)
    /\ outbox \in Seq(Requests)
    /\ buffer \in Seq(Messages)
    /\ library_state \in ListCommands \cup {"default"}
    /\ result_state \in Results
    /\ command \in Commands \cup {"none"}
    /\ cpc \in {"capture", "owner", "process"} => command \in Commands
    /\ got_started \in BOOLEAN
    /\ got_device \in BOOLEAN
    /\ daemon \in {"down", "bound", "listening"}
    /\ watch \in Nat
    /\ crashes \in Nat
    /\ calls \in Nat
    /\ answered \in Nat
    /\ abandoned \subseteq Requests
    /\ refused \in BOOLEAN
    /\ sent \in Nat
    /\ delivered \in Nat

(***************************************************************************)
(* dtmd_init: the watch on the socket's directory is set up, one attempt   *)
(* to connect is made, the worker is started.                              *)
(***************************************************************************)
Init ==
    /\ cpc = "idle" /\ wpc = "loop"
    /\ pipes = <<>> /\ feedback = <<>> /\ caller_socket = 0
    /\ daemon \in {"down", "listening"} \cup (IF "slow_listen" \in Faults THEN {"bound"} ELSE {})
    /\ socket_fd = (daemon = "listening")
    /\ hup = FALSE /\ inbox = <<>> /\ outbox = <<>>
    /\ buffer = <<>> /\ library_state = "default"
    /\ result_state = "ok" /\ command = "none" /\ got_started = FALSE /\ got_device = FALSE
    /\ watch = 0 /\ crashes = 0
    /\ refused = (daemon = "bound")
    /\ calls = 0 /\ answered = 0 /\ abandoned = {} /\ sent = 0 /\ delivered = 0

(***************************************************************************)
(* dtmd_helper_handle_cmd: what a thread does with a message that is not   *)
(* the answer to a call in progress.  Accepts says whether it returns      *)
(* dtmd_ok, StateAfter is the library_state it leaves, and a notification  *)
(* accepted in the default state reaches the callback.                     *)
(***************************************************************************)
Accepts(m) ==
    IF library_state = "default"
    THEN \/ m.kind \in {"failed", "started", "notification"}
         \/ m.kind = "succeeded" /\ m.cmd \in PlainCommands
    ELSE \/ m.kind = "finished" /\ m.cmd = library_state
         \/ m.kind = "device"

\* Mutant: the end of a list nobody waits for does not reset the state.
StateAfter_NoReset(m) ==
    IF library_state = "default" /\ m.kind = "started" THEN m.cmd ELSE library_state

StateAfter(m) ==
    IF library_state = "default"
    THEN IF m.kind = "started" THEN m.cmd ELSE "default"
    ELSE IF m.kind = "finished" /\ m.cmd = library_state THEN "default" ELSE library_state

\* Mutant: a call in progress swallows the notifications it comes across.
handle_cmd_NoCallback(m) ==
    /\ library_state' = IF Accepts(m) THEN StateAfter(m) ELSE library_state
    /\ delivered' = IF m.kind = "notification" /\ cpc # "process" THEN delivered + 1 ELSE delivered

handle_cmd(m) ==
    /\ library_state' = IF Accepts(m) THEN StateAfter(m) ELSE library_state
    /\ delivered' = IF Accepts(m) /\ m.kind = "notification" THEN delivered + 1 ELSE delivered

(***************************************************************************)
(* The worker.  At the top of its loop it first empties the buffer, then   *)
(* polls: a closed socket comes before the pipe, the pipe before the       *)
(* directory watch, the watch before data on the socket.                   *)
(***************************************************************************)
WorkerHandle ==
    /\ wpc = "loop" /\ buffer # <<>>
    /\ handle_cmd(Head(buffer))
    /\ buffer' = Tail(buffer)
    /\ wpc' = IF Accepts(Head(buffer)) THEN "loop" ELSE "fail"
    /\ UNCHANGED <<cpc, handoff, link, call, peer, calls, answered, abandoned, refused, sent>>

Polling == wpc = "loop" /\ buffer = <<>>

WorkerDisconnect ==
    /\ Polling /\ socket_fd /\ hup
    /\ socket_fd' = FALSE /\ hup' = FALSE /\ inbox' = <<>> /\ outbox' = <<>>
    /\ UNCHANGED <<threads, handoff, parser, call, peer, history>>

WorkerPipe ==
    /\ Polling /\ ~(socket_fd /\ hup) /\ pipes # <<>>
    /\ pipes' = Tail(pipes)
    /\ wpc' = IF Head(pipes) = 1 THEN "grant" ELSE "exit"
    /\ UNCHANGED <<cpc, feedback, caller_socket, link, parser, call, peer, history>>

\* Mutant: the worker grants the socket and goes on without waiting.
WorkerGrant_NoWait ==
    /\ wpc = "grant"
    /\ feedback' = Append(feedback, 1)
    /\ wpc' = "loop"
    /\ UNCHANGED <<cpc, pipes, caller_socket, link, parser, call, peer, history>>

WorkerGrant ==
    /\ wpc = "grant"
    /\ feedback' = Append(feedback, 1)
    /\ wpc' = "wait"
    /\ UNCHANGED <<cpc, pipes, caller_socket, link, parser, call, peer, history>>

\* Mutant: the worker does not block on the semaphore.
WorkerWait_NoBlock ==
    /\ wpc = "wait"
    /\ caller_socket' = caller_socket - 1
    /\ wpc' = "loop"
    /\ UNCHANGED <<cpc, pipes, feedback, link, parser, call, peer, history>>

WorkerWait ==
    /\ wpc = "wait" /\ caller_socket > 0
    /\ caller_socket' = caller_socket - 1
    /\ wpc' = "loop"
    /\ UNCHANGED <<cpc, pipes, feedback, link, parser, call, peer, history>>

\* dtmd_try_connecting: the socket file exists from bind on, but connect
\* succeeds only once the daemon listens.  A refused attempt is not an error.
try_connecting ==
    IF daemon = "listening"
    THEN /\ socket_fd' = TRUE /\ hup' = FALSE /\ inbox' = <<>> /\ outbox' = <<>>
         /\ buffer' = <<>> /\ sent' = 0 /\ delivered' = 0 /\ refused' = FALSE
    ELSE refused' = TRUE /\ UNCHANGED <<link, buffer, sent, delivered>>

\* One IN_CREATE event of the socket's file: a read of watch_fd that returns
\* several of them is several steps.
\* Mutant: the directory watch is served before the closed socket.
WorkerWatch_BeforeHup ==
    /\ Polling /\ pipes = <<>> /\ watch > 0
    /\ watch' = watch - 1
    /\ IF socket_fd THEN UNCHANGED <<link, buffer, refused, sent, delivered>> ELSE try_connecting
    /\ UNCHANGED <<threads, handoff, library_state, call, daemon, crashes,
                   calls, answered, abandoned>>

WorkerWatch ==
    /\ Polling /\ ~(socket_fd /\ hup) /\ pipes = <<>> /\ watch > 0
    /\ watch' = watch - 1
    /\ IF socket_fd THEN UNCHANGED <<link, buffer, refused, sent, delivered>> ELSE try_connecting
    /\ UNCHANGED <<threads, handoff, library_state, call, daemon, crashes,
                   calls, answered, abandoned>>

\* One read returns any number of the commands that have arrived.  It is one step:
\* where a call has given up waiting for the worker, both threads may read, and what
\* overlapping reads leave in the buffer is not modelled.
ReadInput ==
    \E n \in 1..Len(inbox) :
        /\ buffer' = buffer \o SubSeq(inbox, 1, n)
        /\ inbox' = SubSeq(inbox, n + 1, Len(inbox))

WorkerRead ==
    /\ Polling /\ socket_fd /\ ~hup /\ pipes = <<>> /\ watch = 0
    /\ ReadInput
    /\ UNCHANGED <<threads, handoff, socket_fd, hup, outbox, library_state, call, peer, history>>

\* Mutant: only a failed worker tells the caller that it is gone.
WorkerExit_Silent ==
    /\ wpc \in {"fail", "exit"}
    /\ feedback' = IF wpc = "fail" THEN Append(feedback, 0) ELSE feedback
    /\ wpc' = "done"
    /\ UNCHANGED <<cpc, pipes, caller_socket, link, parser, call, peer, history>>

\* Both ends of dtmd_worker_function tell the caller that there is no worker.
WorkerExit ==
    /\ wpc \in {"fail", "exit"}
    /\ feedback' = Append(feedback, 0)
    /\ wpc' = "done"
    /\ UNCHANGED <<cpc, pipes, caller_socket, link, parser, call, peer, history>>

Worker ==
    \/ WorkerHandle \/ WorkerDisconnect \/ WorkerPipe \/ WorkerGrant
    \/ WorkerWait \/ WorkerWatch \/ WorkerRead \/ WorkerExit

(***************************************************************************)
(* The caller, dtmd_helper_generic_process and the functions it calls.  An *)
(* exit with a fatal result goes through "error", which tells the worker   *)
(* to stop; every exit ends with sem_post.                                 *)
(***************************************************************************)
Leave(res) ==
    /\ result_state' = res
    /\ cpc' = IF res \in FatalResults THEN "error" ELSE "finish"

CallBegin(c) ==
    /\ cpc = "idle" /\ calls < MaxCalls
    /\ result_state \notin FatalResults
    /\ calls' = calls + 1
    /\ command' = c /\ got_started' = FALSE /\ got_device' = FALSE
    /\ pipes' = Append(pipes, 1)
    /\ cpc' = "capture"
    /\ UNCHANGED <<wpc, feedback, caller_socket, link, parser, result_state, peer,
                   answered, abandoned, refused, sent, delivered>>

CallCapture ==
    /\ cpc = "capture" /\ feedback # <<>>
    /\ feedback' = Tail(feedback)
    /\ IF Head(feedback) = 0
       THEN Leave("fatal_io_error")
       ELSE cpc' = "owner" /\ UNCHANGED result_state
    /\ UNCHANGED <<wpc, pipes, caller_socket, link, parser, command, got_started,
                   got_device, peer, history>>

\* The timeout of the call expires before the worker has answered.
CallCaptureTimeout ==
    /\ cpc = "capture" /\ feedback = <<>> /\ "capture_timeout" \in Faults
    /\ Leave("timeout")
    /\ abandoned' = abandoned \cup {[cmd |-> command, id |-> calls]}
    /\ UNCHANGED <<wpc, handoff, link, parser, command, got_started, got_device, peer,
                   calls, answered, refused, sent, delivered>>

CallSend ==
    /\ cpc = "owner"
    /\ IF ~socket_fd
       THEN Leave("not_connected") /\ UNCHANGED outbox
       ELSE IF hup
       THEN result_state' = "io_error" /\ cpc' = "error" /\ UNCHANGED outbox
       ELSE /\ outbox' = Append(outbox, [cmd |-> command, id |-> calls])
            /\ cpc' = "process" /\ UNCHANGED result_state
    /\ UNCHANGED <<wpc, handoff, socket_fd, hup, inbox, parser, command, got_started,
                   got_device, peer, history>>

\* Mutant: an answer is not matched with the command that was sent.
IsSuccess_AnyCommand(m) ==
    \/ command \in ListCommands /\ got_started /\ m.kind = "finished"
    \/ command \in PlainCommands /\ library_state = "default" /\ m.kind = "succeeded"

\* The message that ends the call in progress, if m is one.
IsSuccess(m) ==
    /\ m.cmd = command
    /\ \/ command \in ListCommands /\ got_started /\ m.kind = "finished"
       \/ command \in PlainCommands /\ library_state = "default" /\ m.kind = "succeeded"

IsFailure(m) ==
    /\ m.cmd = command /\ m.kind = "failed"
    /\ ~got_started /\ library_state = "default"

IsStart(m) ==
    /\ m.cmd = command /\ m.kind = "started" /\ command \in ListCommands
    /\ ~got_started /\ library_state = "default"

\* The exit function of list_removable_device: a list without a device, which
\* is the answer for "/" when there are none, makes the state invalid.
EmptyRootList == command \in RootLists /\ ~got_device

\* The process functions of the seven commands.
CallProcess ==
    /\ cpc = "process" /\ buffer # <<>>
    /\ buffer' = Tail(buffer)
    /\ LET m == Head(buffer) IN
       \/ /\ IsSuccess(m)
          /\ library_state' = "default"
          /\ IF EmptyRootList
             THEN Leave("invalid_state") /\ UNCHANGED answered
             ELSE Leave("ok") /\ answered' = m.id
          /\ UNCHANGED <<got_started, got_device, delivered>>
       \/ /\ IsFailure(m)
          /\ Leave("command_failed")
          /\ UNCHANGED <<library_state, got_started, got_device, answered, delivered>>
       \/ /\ IsStart(m)
          /\ got_started' = TRUE /\ library_state' = command
          /\ UNCHANGED <<cpc, result_state, got_device, answered, delivered>>
       \/ /\ got_started /\ m.kind = "device"
          /\ got_device' = TRUE
          /\ UNCHANGED <<cpc, result_state, library_state, got_started, answered, delivered>>
       \/ /\ got_started /\ ~IsSuccess(m) /\ m.kind # "device"
          /\ Leave("invalid_state")
          /\ UNCHANGED <<library_state, got_started, got_device, answered, delivered>>
       \/ /\ ~got_started /\ ~IsSuccess(m) /\ ~IsFailure(m) /\ ~IsStart(m)
          /\ handle_cmd(m)
          /\ IF Accepts(m) THEN UNCHANGED <<cpc, result_state>> ELSE Leave("fatal_io_error")
          /\ UNCHANGED <<got_started, got_device, answered>>
    /\ UNCHANGED <<wpc, handoff, link, command, peer, calls, abandoned, refused, sent>>

Reading == cpc = "process" /\ buffer = <<>>

CallRead ==
    /\ Reading /\ ReadInput
    /\ UNCHANGED <<threads, handoff, socket_fd, hup, outbox, library_state, call, peer, history>>

CallReadEnd ==
    /\ Reading /\ inbox = <<>> /\ hup
    /\ Leave("io_error")
    /\ UNCHANGED <<wpc, handoff, link, parser, command, got_started,
                   got_device, peer, history>>

\* The timeout expires before the next line arrives, be it the first of the
\* answer or, the daemon writing a list line by line, a later one.
CallReadTimeout ==
    /\ Reading /\ ~hup /\ "read_timeout" \in Faults
    /\ Leave("timeout")
    /\ abandoned' = abandoned \cup {[cmd |-> command, id |-> calls]}
    /\ UNCHANGED <<wpc, handoff, link, parser, command, got_started, got_device, peer,
                   calls, answered, refused, sent, delivered>>

CallError ==
    /\ cpc = "error"
    /\ pipes' = Append(pipes, 0)
    /\ cpc' = "finish"
    /\ UNCHANGED <<wpc, feedback, caller_socket, link, parser, call, peer, history>>

\* Mutant: a call that times out returns without posting the semaphore.
CallFinish_NoPost ==
    /\ cpc = "finish"
    /\ caller_socket' = IF result_state = "timeout" THEN caller_socket ELSE caller_socket + 1
    /\ cpc' = "idle"
    /\ UNCHANGED <<wpc, pipes, feedback, link, parser, call, peer, history>>

CallFinish ==
    /\ cpc = "finish"
    /\ caller_socket' = caller_socket + 1
    /\ cpc' = "idle"
    /\ UNCHANGED <<wpc, pipes, feedback, link, parser, call, peer, history>>

\* dtmd_deinit: ask the worker to stop, join it, release everything.
DeinitBegin ==
    /\ cpc = "idle"
    /\ pipes' = Append(pipes, 0)
    /\ cpc' = "join"
    /\ UNCHANGED <<wpc, feedback, caller_socket, link, parser, call, peer, history>>

DeinitJoin ==
    /\ cpc = "join" /\ wpc = "done"
    /\ cpc' = "freed"
    /\ socket_fd' = FALSE /\ hup' = FALSE /\ inbox' = <<>> /\ outbox' = <<>>
    /\ UNCHANGED <<wpc, handoff, parser, call, peer, history>>

\* What the calling thread does by itself once it has entered the library.
CallerStep ==
    \/ CallCapture \/ CallSend \/ CallProcess \/ CallRead \/ CallReadEnd
    \/ CallError \/ CallFinish \/ DeinitJoin

Caller ==
    \/ \E c \in Commands : CallBegin(c)
    \/ CallerStep \/ CallCaptureTimeout \/ CallReadTimeout \/ DeinitBegin

(***************************************************************************)
(* The daemon, as the library relies on it.                                *)
(***************************************************************************)
Msg(kind, c, id) == [kind |-> kind, cmd |-> c, id |-> id]

Answers(r) ==
    {<<Msg("failed", r.cmd, r.id)>>} \cup
    IF r.cmd \in PlainCommands
    THEN {<<Msg("succeeded", r.cmd, r.id)>>}
    ELSE {<<Msg("started", r.cmd, r.id)>> \o devices \o <<Msg("finished", r.cmd, r.id)>> :
             devices \in {<<>>, <<Msg("device", r.cmd, r.id)>>}}

DaemonAnswer ==
    /\ outbox # <<>> /\ ~hup
    /\ \E a \in Answers(Head(outbox)) : inbox' = inbox \o a
    /\ outbox' = Tail(outbox)
    /\ UNCHANGED <<threads, handoff, socket_fd, hup, parser, call, peer, history>>

DaemonNotify ==
    /\ socket_fd /\ ~hup /\ sent < MaxNotifications
    /\ sent' = sent + 1
    /\ inbox' = Append(inbox, Msg("notification", "none", sent + 1))
    /\ UNCHANGED <<threads, handoff, socket_fd, hup, outbox, parser, call, peer,
                   calls, answered, abandoned, refused, delivered>>

\* The daemon dies: what it had not written yet is never sent.
DaemonCrash ==
    /\ "daemon_crash" \in Faults /\ daemon # "down" /\ crashes < MaxCrashes
    /\ crashes' = crashes + 1
    /\ daemon' = "down"
    /\ hup' = socket_fd
    /\ outbox' = <<>>
    /\ \E n \in 0..Len(inbox) : inbox' = SubSeq(inbox, 1, n)
    /\ UNCHANGED <<threads, handoff, socket_fd, parser, call, watch, history>>

\* unlink and bind create the socket file, which inotify reports; listen follows.
DaemonBind ==
    /\ daemon = "down"
    /\ daemon' = IF "slow_listen" \in Faults THEN "bound" ELSE "listening"
    /\ watch' = watch + 1
    /\ UNCHANGED <<threads, handoff, link, parser, call, crashes, history>>

DaemonListen ==
    /\ daemon = "bound"
    /\ daemon' = "listening"
    /\ UNCHANGED <<threads, handoff, link, parser, call, watch, crashes, history>>

Daemon == DaemonAnswer \/ DaemonNotify \/ DaemonCrash \/ DaemonBind \/ DaemonListen

Terminated == cpc = "freed" /\ UNCHANGED vars

Next == Worker \/ Caller \/ Daemon \/ Terminated

Spec == Init /\ [][Next]_vars

(***************************************************************************)
(* Fairness: both threads are scheduled, a call that was begun is carried  *)
(* on, and a living daemon answers and gets from bind to listen.  Nobody   *)
(* has to call, to time out, to notify, to crash or to restart.            *)
(***************************************************************************)
FairSpec ==
    /\ Spec
    /\ WF_vars(Worker)
    /\ WF_vars(CallerStep)
    /\ WF_vars(DaemonAnswer)
    /\ WF_vars(DaemonListen)

-----------------------------------------------------------------------------
\* The worker touches the socket, the buffer, library_state and the callback
\* only in its loop; the caller only once it has been granted the socket.
WorkerOwns == wpc \in {"loop", "grant"}
CallerOwns == cpc \in {"owner", "process"}

\* "release ownership of socket and wait for return" (dtmd_worker_function):
\* at no time do both threads use the socket and the parser state behind it.
MutualExclusion == ~(WorkerOwns /\ CallerOwns)

\* The messages that have arrived and are not handled yet, in order.
stream == buffer \o inbox

Notes(s, k) == Cardinality({i \in 1..k : s[i].kind = "notification"})

\* The notifications a connection carries reach the callback once each and in
\* the order the daemon sent them, whichever thread happens to read them and
\* however calls, list answers and notifications are mixed in the stream.
NotificationsInOrder ==
    (socket_fd /\ result_state \notin FatalResults /\ wpc \in {"loop", "grant", "wait"}) =>
        /\ ~hup => Notes(stream, Len(stream)) = sent - delivered
        /\ \A k \in DOMAIN stream :
              stream[k].kind = "notification" => stream[k].id = delivered + Notes(stream, k)

\* An answer to a call of this command that timed out may still come, and each
\* call after it may take the answer to the one before.
Late(c, id) == \E r \in abandoned : r.cmd = c /\ r.id <= id

\* A call that returns dtmd_ok has seen the daemon's answer to its own request,
\* unless an earlier call for the same command timed out: the answers have no
\* number, so that the late one is taken for its own.
OwnAnswer ==
    cpc = "finish" /\ result_state = "ok" => answered = calls \/ Late(command, answered)

\* As long as the daemon lives the library stays usable, unless an empty list of
\* the root is asked for: no timeout of a call,
\* at whatever point of an answer, makes a later message unacceptable
\* (dtmd_helper_handle_cmd), stops the worker or leaves a fatal result.
StaysUsable ==
    crashes = 0 /\ RootLists = {} /\ cpc \notin {"join", "freed"} =>
        wpc \in {"loop", "grant", "wait"} /\ result_state \notin FatalResults

\* dtmd-library.h lists dtmd_io_error under "non-fatal errors": after a call
\* with such a result the handle should still have a worker that will serve it.
NonFatalStaysUsable ==
    cpc = "idle" /\ result_state \notin FatalResults =>
        wpc \in {"loop", "grant", "wait"} /\ \A i \in 1..Len(pipes) : pipes[i] # 0

\* Neither thread waits for a thread that waits for it: a caller in
\* dtmd_helper_capture_socket has an answer on its way, a worker in sem_wait a
\* caller that will post, and dtmd_deinit a worker that will stop.
WorkerBlocked == wpc = "wait" /\ caller_socket = 0

NoMutualWait ==
    /\ cpc = "capture" /\ feedback = <<>> =>
          wpc # "done" /\ ~WorkerBlocked /\ (wpc \in {"loop", "wait"} => pipes # <<>>)
    /\ WorkerBlocked => cpc \in {"capture", "owner", "process", "error", "finish"}
    /\ cpc = "join" /\ wpc \in {"loop", "wait"} => pipes # <<>>

Ones(bytes) == Cardinality({i \in DOMAIN bytes : bytes[i] = 1})

\* Every byte that asks the worker for the socket is matched by exactly one
\* sem_post, the one at the end of the call that wrote it, even when that call
\* gave up long before the worker got to the byte.
RequestBalance ==
    Ones(pipes) + (IF wpc \in {"grant", "wait"} THEN 1 ELSE 0)
        = caller_socket + (IF cpc \in {"capture", "owner", "process", "error", "finish"} THEN 1 ELSE 0)

\* The states of the hand-off when no call gives up while it waits for the
\* worker: who has the socket, and which bytes and posts are on their way.
\* In Resting the worker has the socket or has been posted to take it back.
Resting == (wpc = "loop" /\ caller_socket = 0) \/ (wpc = "wait" /\ caller_socket = 1)

Stopped ==
    \/ wpc \in {"fail", "exit"} /\ cpc \in {"idle", "capture", "join"} /\ feedback = <<>>
    \/ wpc = "done" /\ cpc \in {"idle", "capture", "join", "freed"} /\ feedback = <<0>>
    \/ /\ wpc = "done" /\ cpc \in {"idle", "error", "finish", "join", "freed"}
       /\ feedback = <<>> /\ result_state \in FatalResults

HandoffInv ==
    \/ cpc = "idle" /\ Resting /\ feedback = <<>> /\ pipes \in {<<>>, <<0>>}
    \/ cpc = "join" /\ Resting /\ feedback = <<>> /\ pipes \in {<<0>>, <<0, 0>>}
    \/ cpc = "capture" /\ Resting /\ feedback = <<>> /\ pipes \in {<<1>>, <<0, 1>>}
    \/ cpc = "capture" /\ wpc = "grant" /\ caller_socket = 0 /\ feedback = <<>> /\ pipes = <<>>
    \/ cpc = "capture" /\ wpc = "wait" /\ caller_socket = 0 /\ feedback = <<1>> /\ pipes = <<>>
    \/ /\ cpc \in {"owner", "process", "error"}
       /\ wpc = "wait" /\ caller_socket = 0 /\ feedback = <<>> /\ pipes = <<>>
    \/ /\ cpc = "finish" /\ wpc = "wait" /\ caller_socket = 0
       /\ feedback = <<>> /\ pipes \in {<<>>, <<0>>}
    \/ Stopped

\* Every call returns: the caller is never left waiting for a worker that is
\* gone or that waits for it.
CallReturns == (cpc \notin {"idle", "join", "freed"}) ~> (cpc = "idle")

\* dtmd_deinit returns: the worker always gets to the byte that stops it.
DeinitReturns == (cpc = "join") ~> (cpc = "freed")

Offline == daemon = "listening" /\ ~socket_fd

\* Once the daemon listens again the library connects, unless its attempt came
\* between bind and listen and was refused, or the handle is being given up.
Reconnects ==
    Offline ~> (~Offline \/ refused \/ wpc \in {"fail", "exit", "done"})
=============================================================================
