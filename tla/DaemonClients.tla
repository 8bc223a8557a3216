---------------------------- MODULE DaemonClients ----------------------------
(***************************************************************************)
(* The clients of the daemon: the main loop of daemon/daemon-main.c as     *)
(* they meet it, the list of clients of daemon/lists.c, and the sending of *)
(* answers and notifications of daemon/actions.c.                          *)
(*                                                                         *)
(* What a client writes is a sequence of pieces; a line is some pieces, of *)
(* which the last holds the newline.  The daemon has one thread and writes *)
(* with a blocking dprintf.                                                *)
(***************************************************************************)
EXTENDS Naturals, SequencesExt

CONSTANTS
    Clients,
    Fds,            \* descriptors, numbers
    NULL,
    MaxLength,      \* dtmd_command_max_length, in pieces
    SocketBuffer,   \* how many lines a client may leave unread
    Scripts,        \* what a client may write, in pieces
    MaxEvents       \* how many events the daemon tells its clients of

ASSUME ClientsAssumption ==
    /\ Fds \subseteq Nat /\ IsFiniteSet(Fds) /\ NULL \notin Clients
    /\ IsFiniteSet(Clients) /\ Cardinality(Clients) <= Cardinality(Fds)
    /\ MaxLength \in Nat \ {0} /\ SocketBuffer \in Nat \ {0}
    /\ MaxEvents \in Nat

\* A piece without newline; the ends of a line with a command, of one whose
\* command is not known, and of one that is not valid.
Ends   == {"command", "unknown", "invalid"}
Pieces == {"part"} \cup Ends

VARIABLES
    state,         \* of each client: "new", "connected", "closed" by itself or
                   \* "dropped" by the daemon
    backlog,       \* connections that are not accepted yet
    owner,         \* the client at the other end of each descriptor of the daemon
    wrote,         \* history: all pieces that each client wrote
    unread,        \* how many of them the daemon has not read
    inbox,         \* how many lines each client has not read
    answered,      \* history: how many answers were written to each client
    client_root,   \* the list of clients, as descriptors
    buf,           \* the buffer of each client
    pollfds,       \* the slots of clients in the array, with what poll reported
    pollfds_count, \* for how many slots there is memory
    ready,         \* what poll reported of the listening socket and the devices
    pc, slot,      \* where the daemon is, and in which slot
    audience,      \* who is still to be notified
    events         \* how many events there were

sockets == <<state, backlog, owner, wrote, unread, inbox, answered>>
memory  == <<client_root, buf, pollfds, pollfds_count>>
daemon  == <<memory, ready, pc, slot, audience, events>>
vars    == <<sockets, daemon>>

Init ==
    /\ state = [c \in Clients |-> "new"] /\ backlog = <<>>
    /\ owner = [fd \in Fds |-> NULL]
    /\ wrote = [c \in Clients |-> <<>>] /\ unread = [c \in Clients |-> 0]
    /\ inbox = [c \in Clients |-> 0] /\ answered = [c \in Clients |-> 0]
    /\ client_root = <<>> /\ buf = [c \in Clients |-> <<>>]
    /\ pollfds = <<>> /\ pollfds_count = 0
    /\ ready = [accept |-> FALSE, monitor |-> FALSE]
    /\ pc = "poll" /\ slot = 0 /\ audience = <<>> /\ events = 0

(***************************************************************************)
(* The clients.                                                            *)
(***************************************************************************)
Connect(c) ==
    /\ state[c] = "new" /\ pc # "exit"
    /\ state' = [state EXCEPT ![c] = "connected"]
    /\ backlog' = Append(backlog, c)
    /\ UNCHANGED <<owner, wrote, unread, inbox, answered, daemon>>

Write(c, piece) ==
    /\ state[c] = "connected"
    /\ \E script \in Scripts : IsPrefix(Append(wrote[c], piece), script)
    /\ wrote' = [wrote EXCEPT ![c] = Append(@, piece)]
    /\ unread' = [unread EXCEPT ![c] = @ + 1]
    /\ UNCHANGED <<state, backlog, owner, inbox, answered, daemon>>

Read(c) ==
    /\ inbox[c] > 0
    /\ inbox' = [inbox EXCEPT ![c] = 0]
    /\ UNCHANGED <<state, backlog, owner, wrote, unread, answered, daemon>>

Close(c) ==
    /\ state[c] = "connected"
    /\ state' = [state EXCEPT ![c] = "closed"]
    /\ inbox' = [inbox EXCEPT ![c] = 0]
    /\ UNCHANGED <<backlog, owner, wrote, unread, answered, daemon>>

\* A dprintf that ends: the line is written, or it fails because the client has
\* hung up.  It does not end while the client leaves too much unread.
CanWrite(c)  == state[c] # "connected" \/ inbox[c] < SocketBuffer
Written(c)   == IF state[c] = "connected" THEN [inbox EXCEPT ![c] = @ + 1] ELSE inbox

(***************************************************************************)
(* The top of the loop: the array is filled from the list and polled.  A   *)
(* poll that a signal interrupts starts over and changes nothing.          *)
(***************************************************************************)
Slot(fd, revents) == [fd |-> fd, revents |-> revents]

Revents(c) ==
    CASE state[c] = "closed" -> "hup"
      [] state[c] # "closed" /\ unread[c] > 0 -> "in"
      [] OTHER -> "none"

Poll ==
    /\ pc = "poll"
    /\ \E monitor \in BOOLEAN :
          /\ monitor => events < MaxEvents
          /\ ready' = [accept |-> backlog # <<>>, monitor |-> monitor]
          /\ events' = IF monitor THEN events + 1 ELSE events
    /\ pollfds' = [i \in DOMAIN client_root |-> Slot(client_root[i], Revents(owner[client_root[i]]))]
    /\ \/ ready'.accept \/ ready'.monitor
       \/ \E i \in DOMAIN client_root : pollfds'[i].revents # "none"
    /\ pc' = "accept"
    /\ UNCHANGED <<sockets, client_root, buf, pollfds_count, slot, audience>>

(***************************************************************************)
(* accept and add_client: the kernel gives the lowest free descriptor.     *)
(***************************************************************************)
FreeFd == Min({fd \in Fds : owner[fd] = NULL})

Accept ==
    /\ pc = "accept"
    /\ IF ready.accept
       THEN /\ owner' = [owner EXCEPT ![FreeFd] = Head(backlog)]
            /\ backlog' = Tail(backlog)
            /\ client_root' = IF FreeFd \in ToSet(client_root) THEN client_root
                              ELSE Append(client_root, FreeFd)
       ELSE UNCHANGED <<owner, backlog, client_root>>
    /\ pc' = "monitor"
    /\ UNCHANGED <<state, wrote, unread, inbox, answered, buf, pollfds, pollfds_count,
                   ready, slot, audience, events>>

(***************************************************************************)
(* A device event: every client in the list is notified, a client that was *)
(* accepted in this round too.  An error is ignored.                       *)
(***************************************************************************)
ToClients(rest) ==
    IF rest = <<>> THEN pc' = "clients" /\ slot' = 1 ELSE pc' = "notify" /\ UNCHANGED slot

Monitor ==
    /\ pc = "monitor"
    /\ audience' = IF ready.monitor THEN client_root ELSE <<>>
    /\ ToClients(audience')
    /\ UNCHANGED <<sockets, memory, ready, events>>

\* Mutant: a client that cannot be notified is removed.
Notify_Remove ==
    /\ pc = "notify"
    /\ LET fd == Head(audience) IN
       /\ CanWrite(owner[fd])
       /\ IF state[owner[fd]] = "connected"
          THEN inbox' = Written(owner[fd]) /\ UNCHANGED <<client_root, owner>>
          ELSE /\ client_root' = Remove(client_root, fd)
               /\ owner' = [owner EXCEPT ![fd] = NULL]
               /\ UNCHANGED inbox
    /\ audience' = Tail(audience)
    /\ ToClients(audience')
    /\ UNCHANGED <<state, backlog, wrote, unread, answered, buf, pollfds, pollfds_count,
                   ready, events>>

Notify ==
    /\ pc = "notify"
    /\ LET c == owner[Head(audience)] IN CanWrite(c) /\ inbox' = Written(c)
    /\ audience' = Tail(audience)
    /\ ToClients(audience')
    /\ UNCHANGED <<state, backlog, owner, wrote, unread, answered, memory, ready, events>>

(***************************************************************************)
(* The clients that poll reported, one slot after the other.               *)
(***************************************************************************)
Here == pollfds[slot]

\* remove_client; of a descriptor that is not in the list nothing happens.
remove_client(fd) ==
    \/ fd \notin ToSet(client_root) /\ UNCHANGED <<client_root, owner, state>>
    \/ /\ \E i \in DOMAIN client_root : client_root[i] = fd /\ client_root' = RemoveAt(client_root, i)
       /\ owner' = [owner EXCEPT ![fd] = NULL]
       /\ state' = [state EXCEPT ![owner[fd]] = IF @ = "closed" THEN @ ELSE "dropped"]

NextSlot == pc' = "clients" /\ slot' = slot + 1

Skip ==
    /\ pc = "clients" /\ slot <= Len(pollfds) /\ Here.revents = "none"
    /\ NextSlot
    /\ UNCHANGED <<sockets, memory, ready, audience, events>>

HangUp ==
    /\ pc = "clients" /\ slot <= Len(pollfds) /\ Here.revents = "hup"
    /\ remove_client(Here.fd)
    /\ NextSlot
    /\ UNCHANGED <<backlog, wrote, unread, inbox, answered, buf, pollfds, pollfds_count,
                   ready, audience, events>>

\* Mutant: the room in the buffer is not looked at.
Received_All(c) == unread[c]

\* How much a read takes: the buffer is filled as far as it goes.
Received(c) == Min({unread[c], MaxLength - Len(buf[c])})

\* "BUG: could not find non-existent client" would end the daemon.  A client that
\* hung up after poll may fail the read, and what it wrote is lost.
ReadClient ==
    /\ pc = "clients" /\ slot <= Len(pollfds) /\ Here.revents = "in"
    /\ LET c     == owner[Here.fd]
           start == Len(wrote[c]) - unread[c]
       IN  IF Here.fd \notin ToSet(client_root)
           THEN pc' = "bug" /\ UNCHANGED <<buf, unread, client_root, owner, state, slot>>
           ELSE \/ /\ buf' = [buf EXCEPT ![c] =
                                 @ \o SubSeq(wrote[c], start + 1, start + Received(c))]
                   /\ unread' = [unread EXCEPT ![c] = @ - Received(c)]
                   /\ pc' = "lines"
                   /\ UNCHANGED <<client_root, owner, state, slot>>
                \/ /\ state[c] = "closed"
                   /\ remove_client(Here.fd) /\ NextSlot
                   /\ UNCHANGED <<buf, unread>>
    /\ UNCHANGED <<backlog, wrote, inbox, answered, pollfds, pollfds_count,
                   ready, audience, events>>

LineEnd(c) == SelectInSeq(buf[c], LAMBDA piece : piece \in Ends)

\* Mutant: the whole buffer goes with the line.
ExecuteLine_Clear ==
    /\ pc = "lines"
    /\ LET c   == owner[Here.fd]
           end == LineEnd(c)
       IN  /\ end # 0 /\ buf[c][end] = "command"
           /\ state[c] = "connected" /\ CanWrite(c)
           /\ inbox' = Written(c)
           /\ answered' = [answered EXCEPT ![c] = @ + 1]
           /\ buf' = [buf EXCEPT ![c] = <<>>]
    /\ UNCHANGED <<state, backlog, owner, wrote, unread, client_root, pollfds, pollfds_count,
                   ready, pc, slot, audience, events>>

\* A line that is valid: an answer is written if the command is known.
ExecuteLine ==
    /\ pc = "lines"
    /\ LET c   == owner[Here.fd]
           end == LineEnd(c)
       IN  /\ end # 0 /\ buf[c][end] # "invalid"
           /\ IF buf[c][end] = "unknown" THEN UNCHANGED <<inbox, answered>>
              ELSE /\ state[c] = "connected" /\ CanWrite(c)
                   /\ inbox' = Written(c)
                   /\ answered' = [answered EXCEPT ![c] = @ + 1]
           /\ buf' = [buf EXCEPT ![c] = SubSeq(@, end + 1, Len(@))]
    /\ UNCHANGED <<state, backlog, owner, wrote, unread, client_root, pollfds, pollfds_count,
                   ready, pc, slot, audience, events>>

\* Mutant: one line is taken of what was read.
LinesDone_One ==
    /\ pc = "lines"
    /\ Len(buf[owner[Here.fd]]) < MaxLength
    /\ NextSlot
    /\ UNCHANGED <<sockets, memory, ready, audience, events>>

LinesDone ==
    /\ pc = "lines"
    /\ LineEnd(owner[Here.fd]) = 0 /\ Len(buf[owner[Here.fd]]) < MaxLength
    /\ NextSlot
    /\ UNCHANGED <<sockets, memory, ready, audience, events>>

\* Mutant: a full buffer is looked at before the lines in it.
MustGo_Full(c) ==
    \/ LineEnd(c) # 0 /\ buf[c][LineEnd(c)] = "invalid"
    \/ LineEnd(c) # 0 /\ buf[c][LineEnd(c)] = "command" /\ state[c] = "closed"
    \/ Len(buf[c]) = MaxLength

\* A line that is not valid, an answer that cannot be written, a buffer that is
\* full without a line in it.
MustGo(c) ==
    \/ LineEnd(c) # 0 /\ buf[c][LineEnd(c)] = "invalid"
    \/ LineEnd(c) # 0 /\ buf[c][LineEnd(c)] = "command" /\ state[c] = "closed"
    \/ LineEnd(c) = 0 /\ Len(buf[c]) = MaxLength

RemoveClient ==
    /\ pc = "lines" /\ MustGo(owner[Here.fd])
    /\ remove_client(Here.fd)
    /\ NextSlot
    /\ UNCHANGED <<backlog, wrote, unread, inbox, answered, buf, pollfds, pollfds_count,
                   ready, audience, events>>

EndRound ==
    /\ pc = "clients" /\ slot > Len(pollfds)
    /\ pollfds_count' = Len(client_root)
    /\ pc' = "poll" /\ slot' = 0
    /\ UNCHANGED <<sockets, client_root, buf, pollfds, ready, audience, events>>

\* remove_all_clients, when a signal ends the loop.
Exit ==
    /\ pc = "poll"
    /\ pc' = "exit"
    /\ state' = [c \in Clients |-> IF state[c] = "connected" THEN "dropped" ELSE state[c]]
    /\ owner' = [fd \in Fds |-> NULL] /\ backlog' = <<>>
    /\ client_root' = <<>>
    /\ UNCHANGED <<wrote, unread, inbox, answered, buf, pollfds, pollfds_count,
                   ready, slot, audience, events>>

Loop ==
    \/ Poll \/ Accept \/ Monitor \/ Notify
    \/ Skip \/ HangUp \/ ReadClient \/ ExecuteLine \/ LinesDone \/ RemoveClient \/ EndRound

Terminated == pc \in {"exit", "bug"} /\ UNCHANGED vars

Next ==
    \/ \E c \in Clients : Connect(c) \/ Read(c) \/ Close(c) \/ \E piece \in Pieces : Write(c, piece)
    \/ Loop \/ Exit \/ Terminated

\* The daemon gets to run, and clients read what they are sent.
Spec ==
    /\ Init /\ [][Next]_vars
    /\ WF_vars(Loop) /\ \A c \in Clients : WF_vars(Read(c))
-----------------------------------------------------------------------------
\* The shape of the sockets, of the list and of the array.
TypeOK ==
    /\ state \in [Clients -> {"new", "connected", "closed", "dropped"}]
    /\ backlog \in Seq(Clients)
    /\ owner \in [Fds -> Clients \cup {NULL}]
    /\ wrote \in [Clients -> Seq(Pieces)] /\ buf \in [Clients -> Seq(Pieces)]
    /\ unread \in [Clients -> Nat]
    /\ \A c \in Clients : unread[c] <= Len(wrote[c]) /\ Len(buf[c]) <= MaxLength
    /\ inbox \in [Clients -> 0..SocketBuffer] /\ answered \in [Clients -> Nat]
    /\ client_root \in Seq(Fds) /\ audience \in Seq(Fds)
    /\ pollfds \in Seq([fd : Fds, revents : {"none", "in", "hup"}])
    /\ pollfds_count \in Nat /\ slot \in 0..(Len(pollfds) + 1) /\ events \in 0..MaxEvents
    /\ ready \in [accept : BOOLEAN, monitor : BOOLEAN]
    /\ pc \in {"poll", "accept", "monitor", "notify", "clients", "lines", "bug", "exit"}

\* A client is in the list exactly as long as its descriptor is open, and once.
ListIsOpen ==
    /\ \A fd \in Fds : owner[fd] # NULL <=> fd \in ToSet(client_root)
    /\ IsInjective(client_root)
    /\ \A fd, gd \in ToSet(client_root) : owner[fd] = owner[gd] => fd = gd

\* The array is filled without a look at its size: there is memory for just as
\* many slots as there are clients, though they come and go in mid-round.
ArrayFits == pc = "poll" => Len(client_root) = pollfds_count

\* Whoever poll reported is still in the list when his slot comes, so that
\* "BUG: could not find non-existent client" is never met.
SlotsListed ==
    /\ pc # "bug"
    /\ pc \in {"accept", "monitor", "notify", "clients", "lines"} =>
          \A i \in DOMAIN pollfds : i >= slot => pollfds[i].fd \in ToSet(client_root)

\* The list of clients, the open descriptors and the array of polled descriptors
\* agree, though each changes at a time of its own.
PollAgrees == ListIsOpen /\ ArrayFits /\ SlotsListed

Commands(s) == Cardinality({i \in DOMAIN s : s[i] = "command"})

\* What was executed of what c wrote.
Executed(c) == SubSeq(wrote[c], 1, Len(wrote[c]) - unread[c] - Len(buf[c]))

\* No piece is lost or taken twice between the socket, the buffer and the
\* commands: whole lines are executed, and each command has one answer.
EachCommandOnce ==
    \A c \in Clients :
        /\ IsPrefix(Executed(c) \o buf[c], wrote[c])
        /\ Executed(c) # <<>> => Last(Executed(c)) \in Ends
        /\ answered[c] = Commands(Executed(c))

\* A line that does not fit the buffer with its newline.
TooLong(s) == \E i \in 1..(Len(s) - MaxLength + 1) : \A k \in i..(i + MaxLength - 1) : s[k] = "part"

\* A client that does not hang up is dropped only for a line that is not valid or
\* does not fit, however its lines are cut into pieces.
DroppedForCause ==
    \A c \in Clients :
        state[c] = "dropped" /\ pc # "exit" => "invalid" \in ToSet(wrote[c]) \/ TooLong(wrote[c])

Due(c) == Commands(wrote[c]) - answered[c]

\* A client that stays gets an answer to every command, if all clients read what
\* they are sent: the daemon writes to one after the other and waits for each.
Answered == \A c \in Clients : [](Due(c) > 0 => <>(Due(c) = 0 \/ state[c] # "connected"))
=============================================================================
