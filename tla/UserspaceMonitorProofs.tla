----------------------- MODULE UserspaceMonitorProofs -----------------------
(***************************************************************************)
(* Proofs about the two threads of the userspace device module, for any    *)
(* number of events and any size of the pipe: nothing is used after it was *)
(* freed, and the threads are a channel that delivers events in order.     *)
(***************************************************************************)
EXTENDS UserspaceMonitor, SequenceTheorems, FiniteSetTheorems, TLAPS

Increasing(s) == \A i, j \in DOMAIN s : i < j => s[i] < s[j]
Before(s, t)  == \A i \in DOMAIN s, j \in DOMAIN t : s[i] < t[j]

\* Where a thread is says what it holds.
ThreadInv ==
    /\ device # NULL <=> worker \in {"lock", "append", "write", "unlock", "free"}
    /\ dev_device # NULL <=> main = "use"
    /\ mutex = "worker" <=> worker \in {"append", "write", "unlock", "write_exit", "write_error"}
    /\ monitor = "none" <=> main = "start"
    /\ monitor = "linked" <=> main \in {"loop", "get", "use", "stop"}
    /\ monitor = "unlinked" <=> main = "free"
    /\ monitor = "none" => queue = <<>> /\ pipe = <<>> /\ delivered = <<>>
    /\ worker \in {"append", "write"} => monitor = "linked"
    /\ main = "get" => pipe # <<>>
    /\ main \notin {"join", "done"} => control_pipe = 0

\* Events pass from the kernel through the worker and the queue to the main loop
\* in the order in which they happened.
OrderInv ==
    /\ Increasing(unread) /\ Increasing(queue) /\ Increasing(delivered)
    /\ Before(delivered, queue) /\ Before(delivered, unread) /\ Before(queue, unread)
    /\ \A i \in DOMAIN unread :
          /\ unread[i] <= happened
          /\ device # NULL => device < unread[i]
          /\ dev_device # NULL => dev_device < unread[i]
          /\ \A e \in freed : e < unread[i]
    /\ \A i \in DOMAIN queue : queue[i] <= happened
    /\ \A i \in DOMAIN delivered : delivered[i] <= happened
    /\ \A e \in freed : e <= happened
    /\ device # NULL => device <= happened
    /\ dev_device # NULL => dev_device <= happened
    /\ worker \in {"lock", "append"} =>
          /\ \A i \in DOMAIN queue : queue[i] < device
          /\ \A i \in DOMAIN delivered : delivered[i] < device
          /\ dev_device # device

One(b) == IF b THEN 1 ELSE 0

\* Each event is counted once for the queue, the worker and the main loop.
CountInv ==
    \A e \in Events :
        /\ counter[e] = One(e \in ToSet(queue)) + One(device = e) + One(dev_device = e)
        /\ e \in freed => counter[e] = 0

\* How many items of the queue have their byte in the pipe.
Signalled == IF worker = "write" THEN Len(queue) - 1 ELSE Len(queue)

\* The pipe holds a byte for every item and then perhaps the last byte of a
\* worker that has failed.
PipeInv ==
    /\ worker = "write" => queue # <<>>
    /\ monitor = "linked" =>
          /\ \A i \in DOMAIN pipe : pipe[i] = 1 <=> i <= Signalled
          /\ Len(pipe) = Signalled \/ Len(pipe) = Signalled + 1
          /\ Len(pipe) > Signalled => worker = "done"

Inv == TypeOK /\ ThreadInv /\ OrderInv /\ CountInv /\ PipeInv

\* What an event at the end of a sequence does to it.
LEMMA AppendFacts ==
    ASSUME NEW S, NEW s \in Seq(S), NEW e \in S
    PROVE  /\ Append(s, e) \in Seq(S) /\ Len(Append(s, e)) = Len(s) + 1
           /\ DOMAIN Append(s, e) = 1..(Len(s) + 1) /\ DOMAIN s = 1..Len(s) /\ Len(s) \in Nat
           /\ \A i \in 1..Len(s) : Append(s, e)[i] = s[i]
           /\ Append(s, e)[Len(s) + 1] = e
  OBVIOUS

\* What is left of a sequence without its first element.
LEMMA TailFacts ==
    ASSUME NEW S, NEW s \in Seq(S), s # <<>>
    PROVE  /\ Head(s) = s[1] /\ Head(s) \in S /\ 1 \in DOMAIN s
           /\ Tail(s) \in Seq(S) /\ Len(Tail(s)) = Len(s) - 1
           /\ DOMAIN Tail(s) = 1..(Len(s) - 1) /\ DOMAIN s = 1..Len(s) /\ Len(s) \in Nat \ {0}
           /\ \A i \in 1..(Len(s) - 1) : Tail(s)[i] = s[i + 1]
  OBVIOUS

\* The elements of a longer and of a shorter sequence.
LEMMA AppendElements ==
    ASSUME NEW S, NEW s \in Seq(S), NEW e \in S, NEW i \in DOMAIN Append(s, e)
    PROVE  Append(s, e)[i] = e \/ \E j \in DOMAIN s : Append(s, e)[i] = s[j]
<1>1. CASE i = Len(s) + 1
  BY <1>1, AppendFacts
<1>2. CASE i \in 1..Len(s)
  BY <1>2, AppendFacts
<1> QED
  BY <1>1, <1>2, AppendFacts

LEMMA TailElements ==
    ASSUME NEW S, NEW s \in Seq(S), s # <<>>, NEW i \in DOMAIN Tail(s)
    PROVE  \E j \in DOMAIN s : Tail(s)[i] = s[j]
<1>1. i + 1 \in DOMAIN s /\ Tail(s)[i] = s[i + 1]
  BY TailFacts
<1> QED
  BY <1>1

\* A later event at the end keeps the order.
LEMMA AppendOrder ==
    ASSUME NEW s \in Seq(Nat), NEW t \in Seq(Nat), NEW e \in Nat
    PROVE  /\ Increasing(s) /\ (\A i \in DOMAIN s : s[i] < e) => Increasing(Append(s, e))
           /\ Before(s, t) /\ (\A j \in DOMAIN t : e < t[j]) => Before(Append(s, e), t)
           /\ Before(t, s) /\ (\A j \in DOMAIN t : t[j] < e) => Before(t, Append(s, e))
<1>1. ASSUME Increasing(s), \A i \in DOMAIN s : s[i] < e
      PROVE  Increasing(Append(s, e))
  <2>1. SUFFICES ASSUME NEW i \in DOMAIN Append(s, e), NEW j \in DOMAIN Append(s, e), i < j
                 PROVE  Append(s, e)[i] < Append(s, e)[j]
    BY DEF Increasing
  <2>2. i \in DOMAIN s /\ Append(s, e)[i] = s[i] /\ (j \in DOMAIN s \/ j = Len(s) + 1)
    BY <2>1, AppendFacts
  <2>3. CASE j \in DOMAIN s
    BY <1>1, <2>1, <2>2, <2>3, AppendFacts DEF Increasing
  <2>4. CASE j = Len(s) + 1
    BY <1>1, <2>2, <2>4, AppendFacts
  <2> QED
    BY <2>2, <2>3, <2>4
<1>0. \A i \in DOMAIN Append(s, e) : Append(s, e)[i] = e \/ \E j \in DOMAIN s : Append(s, e)[i] = s[j]
  BY AppendElements
<1>2. Before(s, t) /\ (\A j \in DOMAIN t : e < t[j]) => Before(Append(s, e), t)
  BY <1>0 DEF Before
<1>3. Before(t, s) /\ (\A j \in DOMAIN t : t[j] < e) => Before(t, Append(s, e))
  BY <1>0 DEF Before
<1> QED
  BY <1>1, <1>2, <1>3

\* Taking the first element keeps the order, and the first is before the rest.
LEMMA TailOrder ==
    ASSUME NEW s \in Seq(Nat), NEW t \in Seq(Nat), s # <<>>
    PROVE  /\ Increasing(s) => Increasing(Tail(s)) /\ \A i \in DOMAIN Tail(s) : Head(s) < Tail(s)[i]
           /\ Before(s, t) => Before(Tail(s), t) /\ \A j \in DOMAIN t : Head(s) < t[j]
           /\ Before(t, s) => Before(t, Tail(s)) /\ \A j \in DOMAIN t : t[j] < Head(s)
<1>1. Increasing(s) => Increasing(Tail(s)) /\ \A i \in DOMAIN Tail(s) : Head(s) < Tail(s)[i]
  <2> SUFFICES ASSUME Increasing(s)
               PROVE  /\ Increasing(Tail(s))
                      /\ \A i \in DOMAIN Tail(s) : Head(s) < Tail(s)[i]
    OBVIOUS
  <2>1. \A i \in DOMAIN Tail(s) : i + 1 \in DOMAIN s /\ Tail(s)[i] = s[i + 1] /\ 1 < i + 1 /\ i \in Nat
    BY TailFacts
  <2>2. Increasing(Tail(s))
    BY <2>1 DEF Increasing
  <2>3. \A i \in DOMAIN Tail(s) : Head(s) < Tail(s)[i]
    BY <2>1, TailFacts DEF Increasing
  <2> QED
    BY <2>2, <2>3
<1>0. /\ 1 \in DOMAIN s /\ Head(s) = s[1]
      /\ \A i \in DOMAIN Tail(s) : i + 1 \in DOMAIN s /\ Tail(s)[i] = s[i + 1]
  BY TailFacts
<1>2. Before(s, t) => Before(Tail(s), t) /\ \A j \in DOMAIN t : Head(s) < t[j]
  BY <1>0 DEF Before
<1>3. Before(t, s) => Before(t, Tail(s)) /\ \A j \in DOMAIN t : t[j] < Head(s)
  BY <1>0 DEF Before
<1> QED
  BY <1>1, <1>2, <1>3

\* What a sequence contains after it grew and before it shrank.
LEMMA AppendContents ==
    ASSUME NEW S, NEW s \in Seq(S), NEW e \in S
    PROVE  ToSet(Append(s, e)) = ToSet(s) \cup {e}
<1>1. DOMAIN s \subseteq DOMAIN Append(s, e) /\ Len(s) + 1 \in DOMAIN Append(s, e)
  BY AppendFacts
<1>2. \A i \in DOMAIN s : Append(s, e)[i] = s[i]
  BY AppendFacts
<1>3. ToSet(s) \cup {e} \subseteq ToSet(Append(s, e))
  BY <1>1, <1>2, AppendFacts DEF ToSet
<1>4. ToSet(Append(s, e)) \subseteq ToSet(s) \cup {e}
  BY AppendElements DEF ToSet
<1> QED
  BY <1>3, <1>4

LEMMA TailContents ==
    ASSUME NEW s \in Seq(Nat), s # <<>>
    PROVE  /\ ToSet(s) = ToSet(Tail(s)) \cup {Head(s)}
           /\ Increasing(s) => Head(s) \notin ToSet(Tail(s))
<1>1. ToSet(Tail(s)) \cup {Head(s)} \subseteq ToSet(s)
  BY TailFacts, TailElements DEF ToSet
<1>2. ASSUME NEW i \in DOMAIN s
      PROVE  s[i] \in ToSet(Tail(s)) \cup {Head(s)}
  <2>1. CASE i = 1
    BY <2>1, TailFacts
  <2>2. CASE i # 1
    <3>1. i - 1 \in 1..(Len(s) - 1) /\ (i - 1) + 1 = i
      BY <2>2, TailFacts
    <3>2. i - 1 \in DOMAIN Tail(s) /\ Tail(s)[i - 1] = s[i]
      BY <3>1, TailFacts
    <3> QED
      BY <3>2 DEF ToSet
  <2> QED
    BY <2>1, <2>2
<1>3. ASSUME Increasing(s)
      PROVE  Head(s) \notin ToSet(Tail(s))
  BY <1>3, TailOrder, TailFacts DEF ToSet
<1> QED
  BY <1>1, <1>2, <1>3 DEF ToSet

\* Initially nothing has happened and the monitor does not exist.
LEMMA InvInit == Init => Inv
<1> SUFFICES ASSUME Init
             PROVE  Inv
  OBVIOUS
<1> USE MonitorAssumption DEF Init
<1>1. /\ unread \in Seq(Events) /\ queue \in Seq(Events) /\ delivered \in Seq(Events)
      /\ pipe \in Seq({0, 1, 2})
  BY EmptySeq
<1>2. TypeOK
  BY <1>1 DEF TypeOK, Events
<1>3. ThreadInv
  BY DEF ThreadInv
<1>4. OrderInv
  BY DEF OrderInv, Increasing, Before
<1>5. CountInv
  BY DEF CountInv, One, Events, ToSet
<1>6. PipeInv
  BY DEF PipeInv, Signalled
<1> QED
  BY <1>2, <1>3, <1>4, <1>5, <1>6 DEF Inv

\* Events are numbers, so that NULL is none of them.
LEMMA EventFacts == Events \subseteq Nat /\ NULL \notin Events /\ Seq(Events) \subseteq Seq(Nat)
<1>1. Events \subseteq Nat /\ NULL \notin Events
  BY MonitorAssumption DEF Events
<1>2. \A s \in Seq(Events) : s \in Seq(Nat)
  BY <1>1, SeqMonotonic
<1> QED
  BY <1>1, <1>2

\* Whoever lets go of an event has been counted.
LEMMA Counted ==
    ASSUME TypeOK, CountInv
    PROVE  /\ device # NULL => device \in Events /\ counter[device] \in Nat \ {0}
           /\ dev_device # NULL => dev_device \in Events /\ counter[dev_device] \in Nat \ {0}
           /\ queue # <<>> => Head(queue) \in Events /\ counter[Head(queue)] \in Nat \ {0}
<1>1. ASSUME NEW e \in Events,
             e \in ToSet(queue) \/ device = e \/ dev_device = e
      PROVE  counter[e] \in Nat \ {0}
  BY <1>1 DEF CountInv, One
<1>2. device # NULL => device \in Events
  BY DEF TypeOK
<1>3. dev_device # NULL => dev_device \in Events
  BY DEF TypeOK
<1>4. queue # <<>> => Head(queue) \in Events /\ Head(queue) \in ToSet(queue)
  BY TailFacts DEF TypeOK, ToSet
<1> QED
  BY <1>1, <1>2, <1>3, <1>4

\* Every step keeps the types.
LEMMA TypeStep ==
    ASSUME Inv, [Next]_vars
    PROVE  TypeOK'
<1>0. TypeOK /\ ThreadInv /\ CountInv
  BY DEF Inv
<1> USE <1>0 DEF TypeOK
<1>1. CASE Happen
  <2>1. happened + 1 \in Events /\ happened' \in 0..MaxEvents
    BY <1>1, MonitorAssumption DEF Happen, Events
  <2>2. unread' \in Seq(Events)
    BY <1>1, <2>1, AppendFacts DEF Happen
  <2> QED
    BY <1>1, <2>1, <2>2 DEF Happen, objects
<1>2. CASE WorkerPoll
  <2>1. unread # <<>> => Head(unread) \in Events /\ Tail(unread) \in Seq(Events)
    BY TailFacts
  <2>2. control_pipe' \in {0, 1}
    BY <1>2 DEF WorkerPoll
  <2>3. unread' \in Seq(Events) /\ device' \in Events \cup {NULL}
    BY <1>2, <2>1 DEF WorkerPoll
  <2>4. counter' \in [Events -> Nat] /\ freed' \subseteq Events
    <3>1. CASE UNCHANGED objects
      BY <3>1 DEF objects
    <3>2. CASE counter' = [counter EXCEPT ![Head(unread)] = 1] /\ UNCHANGED freed
      BY <3>2
    <3> QED
      BY <1>2, <3>1, <3>2 DEF WorkerPoll
  <2>5. worker' \in {"poll", "lock", "exit", "error"}
    BY <1>2 DEF WorkerPoll
  <2> QED
    BY <1>2, <2>2, <2>3, <2>4, <2>5 DEF WorkerPoll
<1>3. CASE WorkerLock
  BY <1>3 DEF WorkerLock, kernel, objects
<1>4. CASE WorkerAppend
  <2>1. device \in Events
    BY <1>4 DEF WorkerAppend, ThreadInv
  <2>2. queue' \in Seq(Events) /\ counter' \in [Events -> Nat] /\ freed' = freed
    BY <1>4, <2>1, AppendFacts DEF WorkerAppend, copy_device
  <2> QED
    BY <1>4, <2>2 DEF WorkerAppend, kernel
<1>5. CASE WorkerWrite
  <2>1. pipe' \in Seq({0, 1, 2}) /\ Len(pipe') <= PipeSize
    BY <1>5, AppendFacts, MonitorAssumption DEF WorkerWrite
  <2> QED
    BY <1>5, <2>1 DEF WorkerWrite, kernel, objects
<1>6. CASE WorkerUnlock
  BY <1>6 DEF WorkerUnlock, kernel, objects
<1>7. CASE WorkerFree
  <2>1. counter' \in [Events -> Nat] /\ freed' \subseteq Events
    BY <1>7, Counted DEF WorkerFree, free_device, ThreadInv
  <2> QED
    BY <1>7, <2>1 DEF WorkerFree, kernel
<1>8. CASE WorkerLastLock
  BY <1>8 DEF WorkerLastLock, kernel, objects
<1>9. CASE WorkerLastWrite
  <2>1. ASSUME NEW b \in {0, 1, 2}, Len(pipe) < PipeSize
        PROVE  Append(pipe, b) \in Seq({0, 1, 2}) /\ Len(Append(pipe, b)) <= PipeSize
    BY <2>1, AppendFacts, MonitorAssumption
  <2>2. pipe' \in Seq({0, 1, 2}) /\ Len(pipe') <= PipeSize
    BY <1>9, <2>1 DEF WorkerLastWrite
  <2> QED
    BY <1>9, <2>2 DEF WorkerLastWrite, kernel, objects
<1>10. CASE StartMonitoring
  BY <1>10 DEF StartMonitoring, kernel, objects
<1>11. CASE MainPoll
  BY <1>11 DEF MainPoll, kernel, objects
<1>12. CASE MonitorGetDevice
  <2>1. pipe' \in Seq({0, 1, 2}) /\ Len(pipe') <= PipeSize
    BY <1>12, TailFacts, MonitorAssumption DEF MonitorGetDevice, ThreadInv
  <2>2. queue # <<>> => /\ Head(queue) \in Events /\ Tail(queue) \in Seq(Events)
                        /\ Append(delivered, Head(queue)) \in Seq(Events)
    BY TailFacts, AppendFacts
  <2>3. /\ queue' \in Seq(Events) /\ delivered' \in Seq(Events)
        /\ dev_device' \in Events \cup {NULL} /\ main' \in {"use", "stop", "loop"}
    BY <1>12, <2>2 DEF MonitorGetDevice
  <2> QED
    BY <1>12, <2>1, <2>3 DEF MonitorGetDevice, kernel, objects
<1>13. CASE MonitorFreeDevice
  <2>1. counter' \in [Events -> Nat] /\ freed' \subseteq Events
    BY <1>13, Counted DEF MonitorFreeDevice, free_device, ThreadInv
  <2> QED
    BY <1>13, <2>1 DEF MonitorFreeDevice, kernel
<1>14. CASE StopMonitoring
  BY <1>14 DEF StopMonitoring, kernel, objects
<1>15. CASE FreeItem
  <2>1. counter' \in [Events -> Nat] /\ freed' \subseteq Events
    BY <1>15, Counted DEF FreeItem, free_device
  <2>2. queue' \in Seq(Events)
    BY <1>15, TailFacts DEF FreeItem
  <2> QED
    BY <1>15, <2>1, <2>2 DEF FreeItem, kernel
<1>16. CASE FreeMonitor
  BY <1>16, EmptySeq, MonitorAssumption DEF FreeMonitor, kernel, objects
<1>17. CASE Deinit
  BY <1>17 DEF Deinit, ThreadInv, kernel, objects
<1>18. CASE Join
  BY <1>18 DEF Join, kernel, objects
<1>19. CASE Signal
  BY <1>19 DEF Signal, kernel, objects
<1>20. CASE UNCHANGED vars
  BY <1>20 DEF vars, kernel, objects
<1> QED
  BY <1>1, <1>2, <1>3, <1>4, <1>5, <1>6, <1>7, <1>8, <1>9, <1>10, <1>11, <1>12, <1>13, <1>14,
     <1>15, <1>16, <1>17, <1>18, <1>19, <1>20 DEF Next, Worker, Main, Terminated

\* Every step leaves a thread with what its place says.
LEMMA ThreadStep ==
    ASSUME Inv, [Next]_vars
    PROVE  ThreadInv'
<1>0. TypeOK /\ ThreadInv
  BY DEF Inv
<1> USE <1>0, MonitorAssumption DEF ThreadInv
<1>1. CASE Happen
  BY <1>1 DEF Happen
<1>2. CASE WorkerPoll
  <2>1. unread # <<>> => Head(unread) # NULL
    BY TailFacts, EventFacts DEF TypeOK
  <2>2. device' # NULL <=> worker' \in {"lock", "append", "write", "unlock", "free"}
    BY <1>2, <2>1 DEF WorkerPoll
  <2>3. main \notin {"join", "done"} => control_pipe' = 0
    BY <1>2 DEF WorkerPoll, TypeOK
  <2>4. worker' \in {"poll", "lock", "exit", "error"} /\ worker = "poll"
    BY <1>2 DEF WorkerPoll
  <2> QED
    BY <1>2, <2>2, <2>3, <2>4 DEF WorkerPoll
<1>3. CASE WorkerLock
  BY <1>3 DEF WorkerLock
<1>4. CASE WorkerAppend
  BY <1>4 DEF WorkerAppend
<1>5. CASE WorkerWrite
  <2>1. pipe' # <<>>
    BY <1>5, AppendProperties DEF WorkerWrite, TypeOK
  <2> QED
    BY <1>5, <2>1 DEF WorkerWrite
<1>6. CASE WorkerUnlock
  BY <1>6 DEF WorkerUnlock
<1>7. CASE WorkerFree
  BY <1>7 DEF WorkerFree
<1>8. CASE WorkerLastLock
  BY <1>8 DEF WorkerLastLock
<1>9. CASE WorkerLastWrite
  <2>1. ASSUME NEW b \in {0, 1, 2}
        PROVE  Append(pipe, b) # <<>>
    <3>1. pipe \in Seq({0, 1, 2})
      BY DEF TypeOK
    <3> HIDE <1>0 DEF ThreadInv
    <3> QED
      BY <3>1, AppendProperties
  <2> QED
    BY <1>9, <2>1 DEF WorkerLastWrite
<1>10. CASE StartMonitoring
  BY <1>10 DEF StartMonitoring
<1>11. CASE MainPoll
  BY <1>11 DEF MainPoll
<1>12. CASE MonitorGetDevice
  <2>1. queue # <<>> => Head(queue) # NULL
    BY TailFacts, EventFacts DEF TypeOK
  <2>2. /\ dev_device' # NULL <=> main' = "use"
        /\ main' \in {"use", "stop", "loop"}
    BY <1>12, <2>1 DEF MonitorGetDevice
  <2> QED
    BY <1>12, <2>2 DEF MonitorGetDevice
<1>13. CASE MonitorFreeDevice
  BY <1>13 DEF MonitorFreeDevice
<1>14. CASE StopMonitoring
  BY <1>14 DEF StopMonitoring
<1>15. CASE FreeItem
  BY <1>15 DEF FreeItem
<1>16. CASE FreeMonitor
  BY <1>16 DEF FreeMonitor
<1>17. CASE Deinit
  BY <1>17 DEF Deinit
<1>18. CASE Join
  BY <1>18 DEF Join
<1>19. CASE Signal
  BY <1>19 DEF Signal
<1>20. CASE UNCHANGED vars
  BY <1>20 DEF vars
<1> QED
  BY <1>1, <1>2, <1>3, <1>4, <1>5, <1>6, <1>7, <1>8, <1>9, <1>10, <1>11, <1>12, <1>13, <1>14,
     <1>15, <1>16, <1>17, <1>18, <1>19, <1>20 DEF Next, Worker, Main, Terminated

\* No step overtakes an event.
LEMMA OrderStep ==
    ASSUME Inv, [Next]_vars
    PROVE  OrderInv'
<1>0. TypeOK /\ ThreadInv /\ OrderInv
  BY DEF Inv
<1>t. /\ happened \in Nat /\ freed \subseteq Nat
      /\ unread \in Seq(Nat) /\ queue \in Seq(Nat) /\ delivered \in Seq(Nat)
      /\ device # NULL => device \in Nat
      /\ dev_device # NULL => dev_device \in Nat
      /\ \A i \in DOMAIN unread : unread[i] \in Nat
      /\ \A i \in DOMAIN queue : queue[i] \in Nat
      /\ \A i \in DOMAIN delivered : delivered[i] \in Nat
  <2>1. /\ freed \subseteq Nat
        /\ device # NULL => device \in Nat
        /\ dev_device # NULL => dev_device \in Nat
    BY <1>0, EventFacts DEF TypeOK
  <2>2. unread \in Seq(Nat) /\ queue \in Seq(Nat) /\ delivered \in Seq(Nat)
    BY <1>0, EventFacts DEF TypeOK
  <2>3. happened \in Nat
    BY <1>0, MonitorAssumption DEF TypeOK
  <2> QED
    BY <2>1, <2>2, <2>3, ElementOfSeq
<1> USE <1>0, <1>t DEF OrderInv
<1>1. CASE Happen
  <2>1. happened' \in Nat /\ happened < happened' /\ unread' = Append(unread, happened')
    BY <1>1 DEF Happen
  <2>2. Increasing(unread') /\ Before(delivered, unread') /\ Before(queue, unread')
    BY <2>1, AppendOrder
  <2>3. \A i \in DOMAIN unread' :
           unread'[i] = happened' \/ \E j \in DOMAIN unread : unread'[i] = unread[j]
    <3> TAKE i \in DOMAIN unread'
    <3>1. i \in DOMAIN Append(unread, happened') /\ happened' \in Nat
      BY <2>1
    <3> QED
      BY <2>1, <3>1, AppendElements
  <2>4. \A i \in DOMAIN unread' :
          /\ unread'[i] <= happened'
          /\ device # NULL => device < unread'[i]
          /\ dev_device # NULL => dev_device < unread'[i]
          /\ \A e \in freed : e < unread'[i]
    <3> TAKE i \in DOMAIN unread'
    <3>1. CASE unread'[i] = happened'
      BY <2>1, <3>1
    <3>2. ASSUME NEW j \in DOMAIN unread, unread'[i] = unread[j]
          PROVE  /\ unread'[i] <= happened'
                 /\ device # NULL => device < unread'[i]
                 /\ dev_device # NULL => dev_device < unread'[i]
                 /\ \A e \in freed : e < unread'[i]
      BY <2>1, <3>2
    <3> QED
      BY <2>3, <3>1, <3>2
  <2>5. UNCHANGED <<queue, delivered, device, dev_device, freed, worker>>
    BY <1>1 DEF Happen, objects
  <2>6. /\ \A i \in DOMAIN queue' : queue'[i] <= happened'
        /\ \A i \in DOMAIN delivered' : delivered'[i] <= happened'
        /\ \A e \in freed' : e <= happened'
        /\ device' # NULL => device' <= happened'
        /\ dev_device' # NULL => dev_device' <= happened'
    BY <2>1, <2>5
  <2> QED
    BY <2>2, <2>4, <2>5, <2>6
<1>2. CASE WorkerPoll
  <2>1. CASE UNCHANGED <<unread, device, freed>> /\ worker' = "exit"
    BY <1>2, <2>1 DEF WorkerPoll
  <2>2. CASE unread # <<>> /\ unread' = Tail(unread)
    <3>1. /\ Increasing(unread') /\ Before(delivered, unread') /\ Before(queue, unread')
          /\ \A i \in DOMAIN delivered : delivered[i] < Head(unread)
          /\ \A i \in DOMAIN queue : queue[i] < Head(unread)
          /\ \A i \in DOMAIN unread' : Head(unread) < unread'[i]
      BY <2>2, TailOrder
    <3>2. /\ \A i \in DOMAIN unread' : \E j \in DOMAIN unread : unread'[i] = unread[j]
          /\ 1 \in DOMAIN unread /\ Head(unread) = unread[1]
      BY <2>2, TailFacts, TailElements
    <3>3. CASE worker' = "lock" /\ device' = Head(unread) /\ UNCHANGED freed
      BY <1>2, <3>1, <3>2, <3>3, MonitorAssumption DEF WorkerPoll
    <3>4. CASE worker' \in {"poll", "error"} /\ UNCHANGED <<device, freed>>
      BY <1>2, <3>1, <3>2, <3>4 DEF WorkerPoll
    <3> QED
      BY <1>2, <2>2, <3>3, <3>4 DEF WorkerPoll, objects
  <2> QED
    BY <1>2, <2>1, <2>2 DEF WorkerPoll, objects
<1>4. CASE WorkerAppend
  <2>1. device \in Nat /\ device # NULL /\ queue' = Append(queue, device)
    BY <1>4 DEF WorkerAppend, ThreadInv
  <2>2. Increasing(queue') /\ Before(delivered, queue') /\ Before(queue', unread)
    BY <1>4, <2>1, AppendOrder DEF WorkerAppend
  <2>3. \A i \in DOMAIN queue' : queue'[i] <= happened
    BY <2>1, AppendFacts
  <2> QED
    BY <1>4, <2>2, <2>3 DEF WorkerAppend, copy_device, kernel
<1>7. CASE WorkerFree
  BY <1>7 DEF WorkerFree, free_device, kernel, ThreadInv
<1>12. CASE MonitorGetDevice
  <2>1. CASE UNCHANGED <<queue, dev_device, delivered>>
    BY <1>12, <2>1 DEF MonitorGetDevice, kernel, objects
  <2>2. CASE /\ queue # <<>> /\ dev_device' = Head(queue)
             /\ delivered' = Append(delivered, Head(queue)) /\ queue' = Tail(queue)
    <3>1. /\ Increasing(queue') /\ Before(queue', unread) /\ Before(delivered, queue')
          /\ \A i \in DOMAIN queue' : Head(queue) < queue'[i]
          /\ \A i \in DOMAIN unread : Head(queue) < unread[i]
          /\ \A i \in DOMAIN delivered : delivered[i] < Head(queue)
      BY <2>2, TailOrder
    <3>2. /\ \A i \in DOMAIN queue' : \E j \in DOMAIN queue : queue'[i] = queue[j]
          /\ 1 \in DOMAIN queue /\ Head(queue) = queue[1] /\ queue' \in Seq(Nat)
      BY <2>2, TailFacts, TailElements
    <3>3. Increasing(delivered') /\ Before(delivered', queue') /\ Before(delivered', unread)
      <4>1. Head(queue) \in Nat
        BY <3>2
      <4>2. Increasing(delivered')
        BY <2>2, <3>1, <4>1, AppendOrder
      <4>3. Before(delivered', queue')
        BY <2>2, <3>1, <3>2, <4>1, AppendOrder
      <4>4. Before(delivered', unread)
        BY <2>2, <3>1, <4>1, AppendOrder
      <4> QED
        BY <4>2, <4>3, <4>4
    <3>4. \A i \in DOMAIN delivered' :
             delivered'[i] = Head(queue) \/ \E j \in DOMAIN delivered : delivered'[i] = delivered[j]
      <4> TAKE i \in DOMAIN delivered'
      <4>1. i \in DOMAIN Append(delivered, Head(queue)) /\ Head(queue) \in Nat
        BY <2>2, <3>2
      <4> QED
        BY <2>2, <4>1, AppendElements
    <3>5. /\ UNCHANGED <<happened, unread, device, freed, worker>>
          /\ worker \notin {"lock", "append"} \/ dev_device' # device
      BY <1>12, <2>2, <3>2 DEF MonitorGetDevice, kernel, objects
    <3> QED
      BY <2>2, <3>1, <3>2, <3>3, <3>4, <3>5
  <2> QED
    BY <1>12, <2>1, <2>2 DEF MonitorGetDevice
<1>13. CASE MonitorFreeDevice
  BY <1>13 DEF MonitorFreeDevice, free_device, kernel, ThreadInv
<1>15. CASE FreeItem
  <2>1. /\ Increasing(queue') /\ Before(queue', unread) /\ Before(delivered, queue')
        /\ \A i \in DOMAIN unread : Head(queue) < unread[i]
    BY <1>15, TailOrder DEF FreeItem
  <2>2. /\ \A i \in DOMAIN queue' : \E j \in DOMAIN queue : queue'[i] = queue[j]
        /\ 1 \in DOMAIN queue /\ Head(queue) = queue[1]
    BY <1>15, TailFacts, TailElements DEF FreeItem
  <2>3. freed' \subseteq freed \cup {Head(queue)}
    BY <1>15 DEF FreeItem, free_device
  <2> QED
    BY <1>15, <2>1, <2>2, <2>3 DEF FreeItem, kernel
<1>3. CASE \/ WorkerLock \/ WorkerWrite \/ WorkerUnlock \/ WorkerLastLock \/ WorkerLastWrite
           \/ StartMonitoring \/ MainPoll \/ StopMonitoring \/ FreeMonitor \/ Deinit \/ Join
           \/ Signal \/ UNCHANGED vars
  <2>1. UNCHANGED <<happened, unread, queue, delivered, device, dev_device, freed>>
    BY <1>3 DEF WorkerLock, WorkerWrite, WorkerUnlock, WorkerLastLock, WorkerLastWrite,
         StartMonitoring, MainPoll, StopMonitoring, FreeMonitor, Deinit, Join, Signal,
         vars, kernel, objects
  <2>2. worker' \in {"lock", "append"} => worker \in {"lock", "append"}
    BY <1>3 DEF WorkerLock, WorkerWrite, WorkerUnlock, WorkerLastLock, WorkerLastWrite,
         StartMonitoring, MainPoll, StopMonitoring, FreeMonitor, Deinit, Join, Signal, vars
  <2> QED
    BY <2>1, <2>2
<1> QED
  BY <1>1, <1>2, <1>3, <1>4, <1>7, <1>12, <1>13, <1>15 DEF Next, Worker, Main, Terminated

\* Every step counts.
LEMMA CountStep ==
    ASSUME Inv, [Next]_vars
    PROVE  CountInv'
<1>0. TypeOK /\ ThreadInv /\ OrderInv /\ CountInv
  BY DEF Inv
<1>t. /\ queue \in Seq(Nat) /\ unread \in Seq(Nat) /\ counter \in [Events -> Nat]
      /\ NULL \notin Events /\ Events \subseteq Nat
  BY <1>0, EventFacts DEF TypeOK
<1>2. CASE WorkerPoll
  <2>1. CASE UNCHANGED <<device, counter, freed>>
    BY <1>0, <1>2, <2>1 DEF WorkerPoll, CountInv
  <2>2. CASE /\ unread # <<>> /\ device' = Head(unread)
             /\ counter' = [counter EXCEPT ![Head(unread)] = 1] /\ UNCHANGED freed
    <3>1. /\ Head(unread) \in Nat /\ Head(unread) = unread[1] /\ 1 \in DOMAIN unread
          /\ Head(unread) \in Events
      BY <1>0, <1>t, <2>2, TailFacts DEF TypeOK
    <3>2. Head(unread) \notin ToSet(queue)
      BY <1>0, <1>t, <3>1, ElementOfSeq DEF OrderInv, Before, ToSet
    <3>3. dev_device # Head(unread) /\ Head(unread) \notin freed
      BY <1>0, <1>t, <3>1 DEF OrderInv
    <3>4. device = NULL /\ UNCHANGED <<queue, dev_device>>
      BY <1>0, <1>2 DEF WorkerPoll, ThreadInv
    <3>5. ASSUME NEW e \in Events
          PROVE  /\ counter'[e] = One(e \in ToSet(queue')) + One(device' = e) + One(dev_device' = e)
                 /\ e \in freed' => counter'[e] = 0
      <4>1. CASE e = Head(unread)
        BY <1>t, <2>2, <3>1, <3>2, <3>3, <3>4, <4>1 DEF One
      <4>2. CASE e # Head(unread)
        BY <1>0, <1>t, <2>2, <3>4, <4>2 DEF CountInv, One
      <4> QED
        BY <4>1, <4>2
    <3> QED
      BY <3>5 DEF CountInv
  <2> QED
    BY <1>2, <2>1, <2>2 DEF WorkerPoll, objects
<1>4. CASE WorkerAppend
  <2>1. device \in Events
    BY <1>0, <1>4 DEF WorkerAppend, ThreadInv, TypeOK
  <2>2. device \notin ToSet(queue)
    BY <1>0, <1>t, <1>4, <2>1, ElementOfSeq DEF WorkerAppend, OrderInv, ToSet
  <2>3. ToSet(queue') = ToSet(queue) \cup {device}
    BY <1>t, <1>4, <2>1, AppendContents DEF WorkerAppend
  <2>4. counter[device] # 0
    BY <1>0, <1>t, <2>1, Counted
  <2> QED
    BY <1>0, <1>t, <1>4, <2>1, <2>2, <2>3, <2>4 DEF WorkerAppend, copy_device, CountInv, One
<1>7. CASE WorkerFree
  <2>1. device \in Events /\ UNCHANGED <<queue, dev_device>> /\ device' = NULL
    BY <1>0, <1>7 DEF WorkerFree, ThreadInv, TypeOK
  <2>2. /\ counter' = [counter EXCEPT ![device] = @ - 1]
        /\ freed' = IF counter[device] = 1 THEN freed \cup {device} ELSE freed
    BY <1>7 DEF WorkerFree, free_device
  <2>3. counter[device] # 0
    BY <1>0, <1>t, <2>1, Counted
  <2> QED
    BY <1>0, <1>t, <2>1, <2>2, <2>3 DEF CountInv, One
<1>12. CASE MonitorGetDevice
  <2>1. CASE UNCHANGED <<queue, dev_device>>
    BY <1>0, <1>12, <2>1 DEF MonitorGetDevice, objects, CountInv
  <2>2. CASE queue # <<>> /\ dev_device' = Head(queue) /\ queue' = Tail(queue)
    <3>1. /\ Head(queue) \in Events /\ ToSet(queue) = ToSet(queue') \cup {Head(queue)}
          /\ Head(queue) \notin ToSet(queue')
      BY <1>0, <1>t, <2>2, TailFacts, TailContents DEF OrderInv, TypeOK
    <3>2. dev_device = NULL /\ UNCHANGED <<counter, freed, device>>
      BY <1>0, <1>12 DEF MonitorGetDevice, objects, ThreadInv
    <3> QED
      BY <1>0, <1>t, <2>2, <3>1, <3>2 DEF CountInv, One
  <2> QED
    BY <1>12, <2>1, <2>2 DEF MonitorGetDevice
<1>13. CASE MonitorFreeDevice
  <2>1. dev_device \in Events /\ UNCHANGED <<queue, device>> /\ dev_device' = NULL
    BY <1>0, <1>13 DEF MonitorFreeDevice, ThreadInv, TypeOK
  <2>2. /\ counter' = [counter EXCEPT ![dev_device] = @ - 1]
        /\ freed' = IF counter[dev_device] = 1 THEN freed \cup {dev_device} ELSE freed
    BY <1>13 DEF MonitorFreeDevice, free_device
  <2>3. counter[dev_device] # 0
    BY <1>0, <1>t, <2>1, Counted
  <2> QED
    BY <1>0, <1>t, <2>1, <2>2, <2>3 DEF CountInv, One
<1>15. CASE FreeItem
  <2>1. /\ Head(queue) \in Events /\ ToSet(queue) = ToSet(queue') \cup {Head(queue)}
        /\ Head(queue) \notin ToSet(queue') /\ UNCHANGED <<device, dev_device>>
    BY <1>0, <1>t, <1>15, TailFacts, TailContents DEF FreeItem, OrderInv, TypeOK
  <2>2. /\ counter' = [counter EXCEPT ![Head(queue)] = @ - 1]
        /\ freed' = IF counter[Head(queue)] = 1 THEN freed \cup {Head(queue)} ELSE freed
    BY <1>15 DEF FreeItem, free_device
  <2>3. counter[Head(queue)] # 0
    BY <1>0, <1>t, <1>15, Counted DEF FreeItem
  <2> QED
    BY <1>0, <1>t, <2>1, <2>2, <2>3 DEF CountInv, One
<1>3. CASE UNCHANGED <<queue, device, dev_device, counter, freed>>
  BY <1>0, <1>3 DEF CountInv
<1>20. \/ WorkerPoll \/ WorkerAppend \/ WorkerFree \/ MonitorGetDevice \/ MonitorFreeDevice
       \/ FreeItem \/ UNCHANGED <<queue, device, dev_device, counter, freed>>
  BY DEF Next, Worker, Main, Terminated, Happen, WorkerLock, WorkerWrite, WorkerUnlock,
     WorkerLastLock, WorkerLastWrite, StartMonitoring, MainPoll, StopMonitoring, FreeMonitor,
     Deinit, Join, Signal, vars, kernel, objects
<1> QED
  BY <1>2, <1>3, <1>4, <1>7, <1>12, <1>13, <1>15, <1>20

\* Every step keeps bytes and items together.
LEMMA PipeStep ==
    ASSUME Inv, [Next]_vars
    PROVE  PipeInv'
<1>0. TypeOK /\ ThreadInv /\ PipeInv
  BY DEF Inv
<1>t. queue \in Seq(Events) /\ pipe \in Seq({0, 1, 2}) /\ Len(queue) \in Nat /\ Len(pipe) \in Nat
  BY <1>0, LenProperties DEF TypeOK
<1>4. CASE WorkerAppend
  <2>0. /\ queue' = Append(queue, device) /\ device \in Events
        /\ UNCHANGED <<pipe, monitor>> /\ worker = "append" /\ worker' = "write"
    BY <1>0, <1>4 DEF WorkerAppend, ThreadInv, TypeOK
  <2>1. /\ queue' # <<>> /\ Len(queue') = Len(queue) + 1
        /\ UNCHANGED <<pipe, monitor>> /\ worker = "append" /\ worker' = "write"
    BY <1>t, <2>0, AppendProperties
  <2> QED
    BY <1>0, <1>t, <2>1 DEF PipeInv, Signalled
<1>5. CASE WorkerWrite
  <2>1. /\ pipe' = Append(pipe, 1) /\ UNCHANGED <<queue, monitor>>
        /\ worker = "write" /\ worker' = "unlock" /\ monitor = "linked"
    BY <1>0, <1>5 DEF WorkerWrite, ThreadInv
  <2>2. /\ Len(pipe') = Len(pipe) + 1 /\ DOMAIN pipe' = 1..(Len(pipe) + 1)
        /\ DOMAIN pipe = 1..Len(pipe) /\ pipe'[Len(pipe) + 1] = 1
        /\ \A i \in 1..Len(pipe) : pipe'[i] = pipe[i]
    BY <1>t, <2>1, AppendFacts
  <2>3. Len(pipe) = Len(queue) - 1
    BY <1>0, <1>t, <2>1 DEF PipeInv, Signalled
  <2> QED
    BY <1>0, <1>t, <2>1, <2>2, <2>3 DEF PipeInv, Signalled
<1>9. CASE WorkerLastWrite
  <2>1. CASE monitor # "linked"
    BY <1>0, <1>9, <2>1 DEF WorkerLastWrite, PipeInv
  <2>2. CASE monitor = "linked"
    <3>1. PICK b \in {0, 2} : pipe' = Append(pipe, b)
      BY <1>9, <2>2 DEF WorkerLastWrite
    <3>2. /\ Len(pipe') = Len(pipe) + 1 /\ DOMAIN pipe' = 1..(Len(pipe) + 1)
          /\ DOMAIN pipe = 1..Len(pipe) /\ pipe'[Len(pipe) + 1] # 1
          /\ \A i \in 1..Len(pipe) : pipe'[i] = pipe[i]
      BY <1>t, <3>1, AppendFacts
    <3>3. /\ UNCHANGED <<queue, monitor>> /\ worker' = "done"
          /\ worker \in {"write_exit", "write_error"}
      BY <1>9 DEF WorkerLastWrite
    <3>4. Len(pipe) = Len(queue) /\ Signalled = Len(queue) /\ Signalled' = Len(queue)
      BY <1>0, <1>t, <2>2, <3>3 DEF PipeInv, Signalled
    <3> QED
      BY <1>0, <1>t, <2>2, <3>2, <3>3, <3>4 DEF PipeInv
  <2> QED
    BY <2>1, <2>2
<1>12. CASE MonitorGetDevice
  <2>1. /\ pipe # <<>> /\ pipe' = Tail(pipe) /\ UNCHANGED <<monitor, worker>>
        /\ monitor = "linked" /\ worker # "write"
    BY <1>0, <1>12, MonitorAssumption DEF MonitorGetDevice, ThreadInv
  <2>2. /\ Len(pipe') = Len(pipe) - 1 /\ DOMAIN pipe' = 1..(Len(pipe) - 1)
        /\ DOMAIN pipe = 1..Len(pipe) /\ Head(pipe) = pipe[1] /\ 1 \in DOMAIN pipe
        /\ \A i \in 1..(Len(pipe) - 1) : pipe'[i] = pipe[i + 1]
    BY <1>t, <2>1, TailFacts
  <2>3. Signalled = Len(queue) /\ Signalled' = Len(queue')
    BY <2>1 DEF Signalled
  <2>4. Head(pipe) = 1 <=> queue # <<>>
    <3>1. queue # <<>> <=> 1 <= Len(queue)
      BY <1>t, TailFacts
    <3>2. pipe[1] = 1 <=> 1 <= Len(queue)
      BY <1>0, <2>1, <2>2, <2>3 DEF PipeInv
    <3> QED
      BY <2>2, <3>1, <3>2
  <2>5. CASE queue # <<>>
    <3>1. Len(queue') = Len(queue) - 1
      BY <1>t, <1>12, <2>4, <2>5, TailFacts DEF MonitorGetDevice
    <3>2. \A i \in DOMAIN pipe' : i + 1 \in DOMAIN pipe /\ i \in Nat /\ pipe'[i] = pipe[i + 1]
      BY <1>t, <2>2
    <3>3. \A i \in DOMAIN pipe' : pipe'[i] = 1 <=> i <= Len(queue')
      BY <1>0, <1>t, <2>1, <2>3, <3>1, <3>2 DEF PipeInv
    <3>4. /\ Len(pipe') = Len(queue') \/ Len(pipe') = Len(queue') + 1
          /\ Len(pipe') > Len(queue') => worker' = "done"
      <4>1. /\ Len(pipe) = Len(queue) \/ Len(pipe) = Len(queue) + 1
            /\ Len(pipe) > Len(queue) => worker = "done"
        BY <1>0, <2>1, <2>3 DEF PipeInv
      <4>2. \A p, q \in Nat : /\ p = q \/ p = q + 1 => p - 1 = q - 1 \/ p - 1 = (q - 1) + 1
                              /\ p - 1 > q - 1 => p > q
        OBVIOUS
      <4> QED
        BY <1>t, <2>1, <2>2, <3>1, <4>1, <4>2
    <3> QED
      BY <2>1, <2>3, <3>3, <3>4 DEF PipeInv
  <2>6. CASE queue = <<>>
    <3>1. queue' = queue /\ Len(queue) = 0
      BY <1>12, <2>6 DEF MonitorGetDevice
    <3>2. Len(pipe') = 0 /\ \A i \in DOMAIN pipe' : FALSE
      BY <1>0, <1>t, <2>1, <2>2, <2>3, <3>1 DEF PipeInv
    <3> QED
      BY <1>0, <2>1, <2>3, <3>1, <3>2 DEF PipeInv
  <2> QED
    BY <2>5, <2>6
<1>14. CASE StopMonitoring \/ FreeItem \/ FreeMonitor
  BY <1>0, <1>14 DEF StopMonitoring, FreeItem, FreeMonitor, PipeInv, ThreadInv
<1>10. CASE StartMonitoring
  BY <1>0, <1>10 DEF StartMonitoring, PipeInv, ThreadInv, Signalled
<1>3. CASE /\ UNCHANGED <<queue, pipe, monitor>>
           /\ worker' = worker \/ {worker, worker'} \cap {"write", "done"} = {}
  BY <1>0, <1>t, <1>3 DEF PipeInv, Signalled
<1>20. \/ WorkerAppend \/ WorkerWrite \/ WorkerLastWrite \/ StartMonitoring \/ MonitorGetDevice
       \/ StopMonitoring \/ FreeItem \/ FreeMonitor
       \/ /\ UNCHANGED <<queue, pipe, monitor>>
          /\ worker' = worker \/ {worker, worker'} \cap {"write", "done"} = {}
  BY DEF Next, Worker, Main, Terminated, Happen, WorkerPoll, WorkerLock, WorkerUnlock, WorkerFree,
     WorkerLastLock, MainPoll, MonitorFreeDevice, Deinit, Join, Signal, vars, kernel, objects
<1> QED
  BY <1>3, <1>4, <1>5, <1>9, <1>10, <1>12, <1>14, <1>20

LEMMA InvStep == Inv /\ [Next]_vars => Inv'
<1> SUFFICES ASSUME Inv, [Next]_vars
             PROVE  Inv'
  OBVIOUS
<1> QED
  BY TypeStep, ThreadStep, OrderStep, CountStep, PipeStep DEF Inv

LEMMA Invariance == Spec => []Inv
  BY InvInit, InvStep, PTL DEF Spec

\* The queue, the pipes and the counters of the monitor keep their shape: no
\* counter of private_data drops below zero and the pipe never holds more than
\* its size, for any number of events.
THEOREM TypeCorrect == Spec => []TypeOK
<1>1. Inv => TypeOK
  BY DEF Inv
<1> QED
  BY <1>1, Invariance, PTL

\* An event is in the queue at most once.
LEMMA QueuedOnce ==
    ASSUME Inv, NEW e \in Events
    PROVE  Cardinality({k \in DOMAIN queue : queue[k] = e}) = One(e \in ToSet(queue))
<1>1. queue \in Seq(Nat) /\ Increasing(queue)
  BY EventFacts DEF Inv, TypeOK, OrderInv
<1>2. CASE e \notin ToSet(queue)
  <2>1. {k \in DOMAIN queue : queue[k] = e} = {}
    BY <1>2 DEF ToSet
  <2> QED
    BY <1>2, <2>1, FS_EmptySet DEF One
<1>3. CASE e \in ToSet(queue)
  <2>1. PICK i \in DOMAIN queue : queue[i] = e
    BY <1>3 DEF ToSet
  <2>2. \A k \in DOMAIN queue : k \in Nat /\ queue[k] \in Nat
    BY <1>1, LenProperties, ElementOfSeq
  <2>3. \A k \in DOMAIN queue : queue[k] = e => k = i
    BY <1>1, <2>1, <2>2 DEF Increasing
  <2>4. {k \in DOMAIN queue : queue[k] = e} = {i}
    BY <2>1, <2>3
  <2> QED
    BY <1>3, <2>4, FS_Singleton DEF One
<1> QED
  BY <1>2, <1>3

\* No event is used after it was freed, freed twice or leaked, the worker never
\* touches a monitor that the main loop frees, and there is a byte in the pipe for
\* every item of the queue, whatever the two threads do and however many events
\* there are.
THEOREM QueueSafeCorrect == Spec => []QueueSafe
<1>1. ASSUME Inv
      PROVE  QueueSafe
  <2>1. CountersExact
    <3>1. ASSUME NEW e \in Events
          PROVE  counter[e] = Users(e) /\ (e \in freed => Users(e) = 0)
      BY <1>1, QueuedOnce DEF Users, Inv, CountInv, One
    <3> QED
      BY <3>1 DEF CountersExact
  <2>2. MonitorAlive
    BY <1>1 DEF Inv, ThreadInv, MonitorAlive
  <2>3. PipeCounts
    <3>1. SUFFICES ASSUME mutex = NULL, monitor = "linked"
                   PROVE  Cardinality({k \in DOMAIN pipe : pipe[k] = 1}) = Len(queue)
      BY DEF PipeCounts
    <3>2. Len(queue) \in Nat /\ Len(pipe) \in Nat /\ DOMAIN pipe = 1..Len(pipe)
      BY <1>1, LenProperties DEF Inv, TypeOK
    <3>3. worker # "write"
      BY <1>1, <3>1, MonitorAssumption DEF Inv, ThreadInv
    <3>4. \A i \in DOMAIN pipe : pipe[i] = 1 <=> i <= Len(queue)
      BY <1>1, <3>1, <3>3 DEF Inv, PipeInv, Signalled
    <3>5. {k \in DOMAIN pipe : pipe[k] = 1} = 1..Len(queue)
      <4>1. Len(queue) <= Len(pipe)
        <5>1. Len(pipe) = Len(queue) \/ Len(pipe) = Len(queue) + 1
          BY <1>1, <3>1, <3>3 DEF Inv, PipeInv, Signalled
        <5>2. \A p, q \in Nat : p = q \/ p = q + 1 => q <= p
          OBVIOUS
        <5> QED
          BY <3>2, <5>1, <5>2
      <4>2. \A k : k \in 1..Len(queue) <=> k \in 1..Len(pipe) /\ k <= Len(queue)
        BY <3>2, <4>1
      <4> QED
        BY <3>2, <3>4, <4>2
    <3>6. Cardinality(1..Len(queue)) = Len(queue)
      <4>1. 1 \in Int /\ Len(queue) \in Int /\ (IF 1 > Len(queue) THEN 0 ELSE Len(queue) - 1 + 1) = Len(queue)
        BY <3>2
      <4> QED
        BY <4>1, FS_Interval
    <3> QED
      BY <3>5, <3>6
  <2> QED
    BY <2>1, <2>2, <2>3 DEF QueueSafe
<1> QED
  BY <1>1, Invariance, PTL

\* The two threads, their queue and their pipe are the channel that the main loop
\* relies on: events are delivered in the order in which they happened, none twice
\* and none skipped, until monitoring stops.
THEOREM ChannelImplemented == Spec => ImplementsChannel
<1> USE DEF Channel!vars
<1>1. Init => Channel!Init
  BY DEF Init, Channel!Init
<1>2. ASSUME Inv, [Next]_vars
      PROVE  [Channel!Next]_(Channel!vars)
  <2>0. TypeOK /\ ThreadInv /\ OrderInv
    BY <1>2 DEF Inv
  <2>t. /\ queue \in Seq(Events) /\ delivered \in Seq(Events)
        /\ Len(queue) \in Nat /\ Len(delivered) \in Nat
    BY <2>0, LenProperties DEF TypeOK
  <2>1. CASE StartMonitoring
    <3>1. /\ monitor = "none" /\ monitor' = "linked" /\ delivered' = <<>> /\ queue' = <<>>
          /\ delivered = <<>>
      BY <2>0, <2>1 DEF StartMonitoring, ThreadInv
    <3>2. delivered' \o queue' = <<>>
      BY <3>1
    <3>3. Channel!Open
      BY <3>1, <3>2 DEF Channel!Open
    <3> QED
      BY <3>3 DEF Channel!Next
  <2>2. CASE WorkerAppend
    <3>1. /\ device \in Events /\ monitor = "linked" /\ monitor' = "linked"
          /\ queue' = Append(queue, device) /\ delivered' = delivered
      BY <2>0, <2>2 DEF WorkerAppend, ThreadInv, TypeOK
    <3>2. delivered \o queue' = Append(delivered \o queue, device)
      BY <2>t, <3>1, AppendIsConcat, ConcatAssociative, ConcatProperties
    <3>3. \A i \in DOMAIN (delivered \o queue) : (delivered \o queue)[i] < device
      <4>1. /\ \A i \in DOMAIN queue : queue[i] < device
            /\ \A i \in DOMAIN delivered : delivered[i] < device
        BY <2>0, <2>2 DEF WorkerAppend, OrderInv
      <4> QED
        BY <2>t, <4>1, ConcatProperties
    <3>4. Channel!Post(device)
      BY <3>1, <3>2, <3>3 DEF Channel!Post
    <3> QED
      BY <3>1, <3>4 DEF Channel!Next
  <2>3. CASE MonitorGetDevice
    <3>1. monitor = "linked" /\ monitor' = "linked"
      BY <2>0, <2>3 DEF MonitorGetDevice, ThreadInv
    <3>2. CASE UNCHANGED <<queue, delivered>>
      BY <3>1, <3>2
    <3>3. CASE /\ queue # <<>> /\ delivered' = Append(delivered, Head(queue))
               /\ queue' = Tail(queue)
      <4>1. /\ Head(queue) \in Events /\ Tail(queue) \in Seq(Events)
            /\ queue = <<Head(queue)>> \o Tail(queue)
            /\ Len(queue) > 0
        BY <2>t, <3>3
      <4>2. delivered' \o queue' = delivered \o queue
        BY <2>t, <3>3, <4>1, AppendIsConcat, ConcatAssociative
      <4>3. Len(delivered') = Len(delivered) + 1 /\ Len(delivered) < Len(delivered \o queue)
        BY <2>t, <3>3, <4>1, AppendProperties, ConcatProperties
      <4>4. Channel!Deliver
        BY <3>1, <4>2, <4>3 DEF Channel!Deliver
      <4> QED
        BY <4>4 DEF Channel!Next
    <3> QED
      BY <2>3, <3>2, <3>3 DEF MonitorGetDevice
  <2>4. CASE StopMonitoring
    <3>1. monitor = "linked" /\ monitor' = "unlinked" /\ delivered' = delivered
      BY <2>0, <2>4 DEF StopMonitoring, ThreadInv
    <3>2. SubSeq(delivered \o queue, 1, Len(delivered)) = delivered
      BY <2>t, SubSeqOfConcat1, SubSeqFull
    <3>3. Channel!Close
      BY <3>1, <3>2 DEF Channel!Close
    <3> QED
      BY <3>3 DEF Channel!Next
  <2>5. CASE /\ UNCHANGED delivered
             /\ \/ UNCHANGED <<queue, monitor>>
                \/ monitor # "linked" /\ monitor' # "linked"
    BY <2>5
  <2>6. \/ StartMonitoring \/ WorkerAppend \/ MonitorGetDevice \/ StopMonitoring
        \/ /\ UNCHANGED delivered
           /\ \/ UNCHANGED <<queue, monitor>>
              \/ monitor # "linked" /\ monitor' # "linked"
    BY <1>2, <2>0 DEF Next, Worker, Main, Terminated, Happen, WorkerPoll, WorkerLock, WorkerWrite,
       WorkerUnlock, WorkerFree, WorkerLastLock, WorkerLastWrite, MainPoll, MonitorFreeDevice,
       FreeItem, FreeMonitor, Deinit, Join, Signal, vars, kernel, objects, ThreadInv
  <2> QED
    BY <2>1, <2>2, <2>3, <2>4, <2>5, <2>6
<1> QED
  BY <1>1, <1>2, Invariance, PTL DEF Spec, ImplementsChannel, Channel!Spec
=============================================================================
