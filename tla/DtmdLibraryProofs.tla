------------------------- MODULE DtmdLibraryProofs -------------------------
(***************************************************************************)
(* Proofs about the two threads of a handle: the hand-off of the socket    *)
(* and what the messages on it lead to, for every set of commands and every *)
(* number of calls, notifications and crashes.                             *)
(***************************************************************************)
EXTENDS DtmdLibrary, SequenceTheorems, FiniteSetTheorems, TLAPS

\* Facts about the sequences that stand for pipes, buffers and streams.
LEMMA SequenceFacts ==
    ASSUME NEW S, NEW s \in Seq(S)
    PROVE  /\ \A e \in S : Append(s, e) \in Seq(S)
           /\ s # <<>> => Head(s) \in S /\ Tail(s) \in Seq(S)
           /\ \A t \in Seq(S) : s \o t \in Seq(S)
           /\ \A n \in 0..Len(s) : SubSeq(s, 1, n) \in Seq(S) /\ SubSeq(s, n + 1, Len(s)) \in Seq(S)
  OBVIOUS

\* Two bytes in a pipe: what a second write leaves there and what a first read
\* takes out.
LEMMA TwoBytes ==
    ASSUME NEW S, NEW x \in S, NEW y \in S
    PROVE  /\ Append(<<x>>, y) = <<x, y>>
           /\ Tail(<<x, y>>) = <<y>> /\ Head(<<x, y>>) = x
<1> DEFINE s == Append(<<x>>, y)
           t == <<x, y>>
<1>1. s \in Seq(S) /\ Len(s) = 2 /\ s[1] = x /\ s[2] = y
  OBVIOUS
<1>2. t \in Seq(S) /\ Len(t) = 2 /\ t[1] = x /\ t[2] = y
  OBVIOUS
<1>3. \A i \in 1..Len(s) : s[i] = t[i]
  BY <1>1, <1>2
<1>4. s = t
  <2> HIDE DEF s, t
  <2> QED
    BY <1>1, <1>2, <1>3, SeqEqual
<1> QED
  BY <1>4

\* The bytes that the hand-off leaves in a pipe.
LEMMA PipeFacts ==
    /\ \A b \in {0, 1} : Append(<<>>, b) = <<b>> /\ Tail(<<b>>) = <<>> /\ Head(<<b>>) = b
    /\ \A a, b \in {0, 1} : /\ Append(<<a>>, b) = <<a, b>>
                            /\ Tail(<<a, b>>) = <<b>> /\ Head(<<a, b>>) = a
<1>1. ASSUME NEW b \in {0, 1}
      PROVE  Append(<<>>, b) = <<b>> /\ Tail(<<b>>) = <<>> /\ Head(<<b>>) = b
  OBVIOUS
<1>2. ASSUME NEW a \in {0, 1}, NEW b \in {0, 1}
      PROVE  Append(<<a>>, b) = <<a, b>> /\ Tail(<<a, b>>) = <<b>> /\ Head(<<a, b>>) = a
  BY TwoBytes
<1> QED
  BY <1>1, <1>2

\* Initially every variable has its type.
LEMMA TypeInit == Init => TypeOK
<1> SUFFICES ASSUME Init
             PROVE  TypeOK
  OBVIOUS
<1>1. /\ pipes \in Seq({0, 1}) /\ feedback \in Seq({0, 1})
      /\ inbox \in Seq(Messages) /\ outbox \in Seq(Requests) /\ buffer \in Seq(Messages)
  BY EmptySeq DEF Init
<1>2. daemon \in {"down", "bound", "listening"}
  BY DEF Init
<1>3. /\ socket_fd \in BOOLEAN /\ hup \in BOOLEAN /\ got_started \in BOOLEAN /\ got_device \in BOOLEAN
      /\ refused \in BOOLEAN
  BY DEF Init
<1> QED
  BY <1>1, <1>2, <1>3 DEF Init, TypeOK, Results

\* What a thread does with a message that is no answer keeps library_state a
\* list command or "default", and counts the notification or not.
LEMMA HandleType ==
    ASSUME TypeOK, NEW m \in Messages, handle_cmd(m)
    PROVE  library_state' \in ListCommands \cup {"default"} /\ delivered' \in Nat
  BY DEF TypeOK, handle_cmd, Accepts, StateAfter, Messages

\* One read moves messages from the socket to the buffer.
LEMMA ReadType ==
    ASSUME TypeOK, ReadInput
    PROVE  buffer' \in Seq(Messages) /\ inbox' \in Seq(Messages)
<1>1. PICK n \in 1..Len(inbox) : /\ buffer' = buffer \o SubSeq(inbox, 1, n)
                                /\ inbox' = SubSeq(inbox, n + 1, Len(inbox))
  BY DEF ReadInput
<1>2. inbox \in Seq(Messages) /\ buffer \in Seq(Messages) /\ n \in 0..Len(inbox)
  BY DEF TypeOK
<1> QED
  BY <1>1, <1>2, SequenceFacts

\* The daemon's answers are sequences of messages.
LEMMA AnswersType ==
    ASSUME NEW r \in Requests, NEW a \in Answers(r)
    PROVE  a \in Seq(Messages)
<1>1. /\ \A kind \in {"failed", "succeeded", "device", "finished"} : Msg(kind, r.cmd, r.id) \in Messages
      /\ r.cmd \notin PlainCommands => Msg("started", r.cmd, r.id) \in Messages
  BY DEF Requests, Messages, MessageKinds, Commands, Msg
<1>2. CASE a = <<Msg("failed", r.cmd, r.id)>>
  BY <1>1, <1>2
<1>3. CASE r.cmd \in PlainCommands /\ a = <<Msg("succeeded", r.cmd, r.id)>>
  BY <1>1, <1>3
<1>4. ASSUME r.cmd \notin PlainCommands,
             NEW devices \in {<<>>, <<Msg("device", r.cmd, r.id)>>},
             a = <<Msg("started", r.cmd, r.id)>> \o devices \o <<Msg("finished", r.cmd, r.id)>>
      PROVE  a \in Seq(Messages)
  <2>1. /\ Msg("started", r.cmd, r.id) \in Messages
        /\ Msg("finished", r.cmd, r.id) \in Messages
        /\ Msg("device", r.cmd, r.id) \in Messages
    BY <1>1, <1>4
  <2>2. \A m \in Messages : <<m>> \in Seq(Messages)
    OBVIOUS
  <2>3. /\ <<Msg("started", r.cmd, r.id)>> \in Seq(Messages)
        /\ <<Msg("finished", r.cmd, r.id)>> \in Seq(Messages)
        /\ devices \in Seq(Messages)
    BY <1>4, <2>1, <2>2, EmptySeq, Zenon
  <2> QED
    BY <1>4, <2>3, SequenceFacts
<1> QED
  BY <1>2, <1>3, <1>4 DEF Answers

\* Every step of the worker, the caller and the daemon keeps the types.
LEMMA TypeStep ==
    ASSUME TypeOK, [Next]_vars
    PROVE  TypeOK'
<1> USE DEF TypeOK
<1>1. CASE WorkerHandle
  <2>1. Head(buffer) \in Messages /\ Tail(buffer) \in Seq(Messages)
    BY <1>1, SequenceFacts DEF WorkerHandle
  <2>2. library_state' \in ListCommands \cup {"default"} /\ delivered' \in Nat
    BY <1>1, <2>1, HandleType DEF WorkerHandle
  <2> QED
    BY <1>1, <2>1, <2>2 DEF WorkerHandle, handoff, link, call, peer
<1>2. CASE WorkerDisconnect
  <2>1. inbox' \in Seq(Messages) /\ outbox' \in Seq(Requests)
    BY <1>2, EmptySeq DEF WorkerDisconnect
  <2>2. socket_fd' \in BOOLEAN /\ hup' \in BOOLEAN
    BY <1>2 DEF WorkerDisconnect
  <2> QED
    BY <1>2, <2>1, <2>2 DEF WorkerDisconnect, threads, handoff, parser, call, peer, history
<1>3. CASE WorkerPipe
  BY <1>3, SequenceFacts DEF WorkerPipe, link, parser, call, peer, history
<1>4. CASE WorkerGrant
  BY <1>4, SequenceFacts DEF WorkerGrant, link, parser, call, peer, history
<1>5. CASE WorkerWait
  BY <1>5 DEF WorkerWait, link, parser, call, peer, history
<1>6. CASE WorkerWatch
  <2>1. sent' \in Nat /\ delivered' \in Nat
    BY <1>6 DEF WorkerWatch, try_connecting
  <2>2. socket_fd' \in BOOLEAN /\ hup' \in BOOLEAN /\ refused' \in BOOLEAN
    BY <1>6, Zenon DEF WorkerWatch, try_connecting, link
  <2>3. inbox' \in Seq(Messages) /\ outbox' \in Seq(Requests) /\ buffer' \in Seq(Messages)
    BY <1>6, EmptySeq DEF WorkerWatch, try_connecting, link
  <2> QED
    BY <1>6, <2>1, <2>2, <2>3 DEF WorkerWatch, threads, handoff, call
<1>7. CASE WorkerRead
  <2>1. buffer' \in Seq(Messages) /\ inbox' \in Seq(Messages)
    BY <1>7, ReadType DEF WorkerRead
  <2> QED
    BY <1>7, <2>1 DEF WorkerRead, threads, handoff, call, peer, history
<1>8. CASE WorkerExit
  BY <1>8, SequenceFacts DEF WorkerExit, link, parser, call, peer, history
<1>9. ASSUME NEW c \in Commands, CallBegin(c)
      PROVE  TypeOK'
  <2>1. pipes' \in Seq({0, 1})
    BY <1>9, SequenceFacts DEF CallBegin
  <2>2. /\ calls' \in Nat /\ cpc' = "capture" /\ command' \in Commands
        /\ got_started' = FALSE /\ got_device' = FALSE
    BY <1>9 DEF CallBegin
  <2>3. UNCHANGED <<wpc, feedback, caller_socket, link, parser, result_state, peer,
                    answered, abandoned, refused, sent, delivered>>
    BY <1>9 DEF CallBegin
  <2> QED
    BY <2>1, <2>2, <2>3 DEF link, parser, peer
<1>10. CASE CallCapture
  <2>1. Tail(feedback) \in Seq({0, 1})
    BY <1>10, SequenceFacts DEF CallCapture
  <2>2. /\ result_state' \in Results
        /\ cpc' \in {"owner", "error", "finish"}
    BY <1>10 DEF CallCapture, Leave, Results, FatalResults
  <2> QED
    BY <1>10, <2>1, <2>2 DEF CallCapture, link, parser, peer, history
<1>11. CASE CallCaptureTimeout
  <2>1. result_state' = "timeout" /\ cpc' \in {"error", "finish"} /\ "timeout" \in Results
    BY <1>11 DEF CallCaptureTimeout, Leave, Results
  <2>2. [cmd |-> command, id |-> calls] \in Requests
    BY <1>11 DEF CallCaptureTimeout, Requests
  <2> QED
    BY <1>11, <2>1, <2>2 DEF CallCaptureTimeout, handoff, link, parser, peer
<1>12. CASE CallSend
  <2>1. [cmd |-> command, id |-> calls] \in Requests
    BY <1>12 DEF CallSend, Requests
  <2>2. outbox' \in Seq(Requests)
    <3>1. Append(outbox, [cmd |-> command, id |-> calls]) \in Seq(Requests)
      BY <2>1, SequenceFacts
    <3> QED
      BY <1>12, <3>1 DEF CallSend
  <2>3. /\ result_state' \in Results
        /\ cpc' \in {"process", "error", "finish"}
    BY <1>12 DEF CallSend, Leave, Results, FatalResults
  <2> QED
    BY <1>12, <2>2, <2>3 DEF CallSend, handoff, parser, peer, history
<1>13. CASE CallProcess
  <2>1. Head(buffer) \in Messages /\ Tail(buffer) \in Seq(Messages)
    BY <1>13, SequenceFacts DEF CallProcess
  <2>2. /\ result_state' \in Results
        /\ cpc' \in {"process", "error", "finish"}
    BY <1>13 DEF CallProcess, Leave, Results, FatalResults
  <2>3. handle_cmd(Head(buffer)) => library_state' \in ListCommands \cup {"default"} /\ delivered' \in Nat
    BY <2>1, HandleType
  <2>4. /\ library_state' \in ListCommands \cup {"default"}
        /\ delivered' \in Nat /\ answered' \in Nat /\ got_started' \in BOOLEAN /\ got_device' \in BOOLEAN
    BY <1>13, <2>1, <2>3 DEF CallProcess, IsStart, Messages
  <2> QED
    BY <1>13, <2>1, <2>2, <2>4 DEF CallProcess, handoff, link, peer
<1>14. CASE CallRead
  <2>1. buffer' \in Seq(Messages) /\ inbox' \in Seq(Messages)
    BY <1>14, ReadType DEF CallRead
  <2> QED
    BY <1>14, <2>1 DEF CallRead, threads, handoff, call, peer, history
<1>15. CASE CallReadEnd
  <2>1. result_state' = "io_error" /\ cpc' \in {"error", "finish"} /\ "io_error" \in Results
    BY <1>15 DEF CallReadEnd, Leave, Results
  <2> QED
    BY <1>15, <2>1 DEF CallReadEnd, handoff, link, parser, peer, history
<1>16. CASE CallReadTimeout
  <2>1. result_state' = "timeout" /\ cpc' \in {"error", "finish"} /\ "timeout" \in Results
    BY <1>16 DEF CallReadTimeout, Leave, Results
  <2>2. [cmd |-> command, id |-> calls] \in Requests
    BY <1>16 DEF CallReadTimeout, Reading, Requests
  <2> QED
    BY <1>16, <2>1, <2>2 DEF CallReadTimeout, handoff, link, parser, peer
<1>17. CASE CallError
  BY <1>17, SequenceFacts DEF CallError, link, parser, call, peer, history
<1>18. CASE CallFinish
  BY <1>18 DEF CallFinish, link, parser, call, peer, history
<1>19. CASE DeinitBegin
  BY <1>19, SequenceFacts DEF DeinitBegin, link, parser, call, peer, history
<1>20. CASE DeinitJoin
  <2>1. inbox' \in Seq(Messages) /\ outbox' \in Seq(Requests)
    BY <1>20, EmptySeq DEF DeinitJoin
  <2>2. socket_fd' \in BOOLEAN /\ hup' \in BOOLEAN
    BY <1>20 DEF DeinitJoin
  <2> QED
    BY <1>20, <2>1, <2>2 DEF DeinitJoin, handoff, parser, call, peer, history
<1>21. CASE DaemonAnswer
  <2>1. Head(outbox) \in Requests /\ Tail(outbox) \in Seq(Requests)
    BY <1>21, SequenceFacts DEF DaemonAnswer
  <2>2. PICK a \in Answers(Head(outbox)) : inbox' = inbox \o a
    BY <1>21 DEF DaemonAnswer
  <2>3. inbox' \in Seq(Messages)
    BY <2>1, <2>2, AnswersType, SequenceFacts
  <2> QED
    BY <1>21, <2>1, <2>3 DEF DaemonAnswer, threads, handoff, parser, call, peer, history
<1>22. CASE DaemonNotify
  <2>1. Msg("notification", "none", sent + 1) \in Messages
    BY DEF Msg, Messages, MessageKinds
  <2>2. inbox' \in Seq(Messages)
    BY <1>22, <2>1, SequenceFacts DEF DaemonNotify
  <2> QED
    BY <1>22, <2>2 DEF DaemonNotify, threads, handoff, parser, call, peer
<1>23. CASE DaemonCrash
  <2>1. inbox' \in Seq(Messages)
    BY <1>23, SequenceFacts DEF DaemonCrash
  <2> QED
    BY <1>23, <2>1 DEF DaemonCrash, threads, handoff, parser, call, history
<1>24. CASE DaemonBind
  BY <1>24 DEF DaemonBind, threads, handoff, link, parser, call, history
<1>25. CASE DaemonListen
  BY <1>25 DEF DaemonListen, threads, handoff, link, parser, call, history
<1>26. CASE UNCHANGED vars
  BY <1>26 DEF vars, threads, handoff, link, parser, call, peer, history
<1> QED
  BY <1>1, <1>2, <1>3, <1>4, <1>5, <1>6, <1>7, <1>8, <1>9, <1>10, <1>11, <1>12, <1>13,
     <1>14, <1>15, <1>16, <1>17, <1>18, <1>19, <1>20, <1>21, <1>22, <1>23, <1>24, <1>25, <1>26
     DEF Next, Worker, Caller, CallerStep, Daemon, Terminated

\* Every variable of a handle keeps its type, for any commands, faults and
\* bounds: what a started message puts into library_state is a list command, no
\* request is sent or given up without a command, and sem_wait never goes
\* below zero.
THEOREM TypeCorrect == Spec => []TypeOK
<1>1. TypeOK /\ [Next]_vars => TypeOK'
  BY TypeStep
<1> QED
  BY <1>1, TypeInit, PTL DEF Spec

\* Initially the worker is in its loop and nothing is on its way.
LEMMA HandoffInit == Init => HandoffInv
  BY DEF Init, HandoffInv, Resting

\* No step of the worker, the caller or the daemon leaves the table of the
\* hand-off, provided no call gives up while it waits for the worker.
LEMMA HandoffStep ==
    ASSUME HandoffInv, [Next]_vars, "capture_timeout" \notin Faults
    PROVE  HandoffInv'
<1> USE DEF HandoffInv, Resting, Stopped
<1>1. CASE WorkerHandle
  BY <1>1 DEF WorkerHandle, handoff, call
<1>2. CASE WorkerDisconnect
  BY <1>2 DEF WorkerDisconnect, threads, handoff, call
<1>3. CASE WorkerPipe
  BY <1>3, PipeFacts DEF WorkerPipe, Polling, call
<1>4. CASE WorkerGrant
  BY <1>4, PipeFacts DEF WorkerGrant, call
<1>5. CASE WorkerWait
  BY <1>5 DEF WorkerWait, call
<1>6. CASE WorkerWatch
  BY <1>6 DEF WorkerWatch, threads, handoff, call
<1>7. CASE WorkerRead
  BY <1>7 DEF WorkerRead, threads, handoff, call
<1>8. CASE WorkerExit
  BY <1>8, PipeFacts DEF WorkerExit, call
<1>9. ASSUME NEW c \in Commands, CallBegin(c)
      PROVE  HandoffInv'
  BY <1>9, PipeFacts DEF CallBegin
<1>10. CASE CallCapture
  BY <1>10, PipeFacts DEF CallCapture, Leave, FatalResults
<1>11. CASE CallCaptureTimeout
  BY <1>11 DEF CallCaptureTimeout
<1>12. CASE CallSend
  BY <1>12 DEF CallSend, Leave, handoff
<1>13. CASE CallProcess
  BY <1>13 DEF CallProcess, Leave, handoff
<1>14. CASE CallRead
  BY <1>14 DEF CallRead, threads, handoff, call
<1>15. CASE CallReadEnd
  BY <1>15 DEF CallReadEnd, Reading, Leave, handoff
<1>16. CASE CallReadTimeout
  BY <1>16 DEF CallReadTimeout, Reading, Leave, handoff
<1>17. CASE CallError
  BY <1>17, PipeFacts DEF CallError, call
<1>18. CASE CallFinish
  BY <1>18 DEF CallFinish, call
<1>19. CASE DeinitBegin
  BY <1>19, PipeFacts DEF DeinitBegin, call
<1>20. CASE DeinitJoin
  BY <1>20 DEF DeinitJoin, handoff, call
<1>21. CASE Daemon
  BY <1>21 DEF Daemon, DaemonAnswer, DaemonNotify, DaemonCrash, DaemonBind, DaemonListen,
               threads, handoff, call
<1>22. CASE UNCHANGED vars
  BY <1>22 DEF vars, threads, handoff, call
<1> QED
  BY <1>1, <1>2, <1>3, <1>4, <1>5, <1>6, <1>7, <1>8, <1>9, <1>10, <1>11, <1>12, <1>13,
     <1>14, <1>15, <1>16, <1>17, <1>18, <1>19, <1>20, <1>21, <1>22
     DEF Next, Worker, Caller, CallerStep, Terminated

\* HandoffInv holds of every behaviour in which no call gives up while it waits
\* for the worker.
THEOREM HandoffCorrect ==
    ASSUME "capture_timeout" \notin Faults
    PROVE  Spec => []HandoffInv
<1>1. HandoffInv /\ [Next]_vars => HandoffInv'
  BY HandoffStep
<1> QED
  BY <1>1, HandoffInit, PTL DEF Spec

\* The two threads never use the socket and the parser state at the same time,
\* for any commands and any number of calls, notifications and daemon crashes.
THEOREM ExclusionCorrect ==
    ASSUME "capture_timeout" \notin Faults
    PROVE  Spec => []MutualExclusion
<1>1. HandoffInv => MutualExclusion
  BY DEF HandoffInv, Resting, Stopped, MutualExclusion, WorkerOwns, CallerOwns
<1> QED
  BY <1>1, HandoffCorrect, PTL

(***************************************************************************)
(* Counting the bytes of the hand-off, with timeouts at any wait.          *)
(***************************************************************************)
One(b) == IF b THEN 1 ELSE 0

\* Numbers moved down by one are as many as before, without the first.
LEMMA ShiftedCount ==
    ASSUME NEW n \in Nat, NEW P \in SUBSET (1..n)
    PROVE  /\ IsFiniteSet({i \in 1..(n - 1) : i + 1 \in P})
           /\ Cardinality(P) \in Nat
           /\ Cardinality({i \in 1..(n - 1) : i + 1 \in P}) = Cardinality(P) - One(1 \in P)
<1> DEFINE S == P \ {1}
           T == {i \in 1..(n - 1) : i + 1 \in P}
           f == [i \in S |-> i - 1]
<1>1. IsFiniteSet(P) /\ Cardinality(P) \in Nat
  <2>1. IsFiniteSet(1..n)
    BY FS_Interval
  <2> QED
    BY <2>1, FS_Subset, FS_CardinalityType
<1>2. IsFiniteSet(S) /\ Cardinality(S) = Cardinality(P) - One(1 \in P)
  BY <1>1, FS_RemoveElement DEF One
<1>3. f \in Bijection(S, T)
  <2>1. f \in [S -> T]
    OBVIOUS
  <2>2. \A i, j \in S : f[i] = f[j] => i = j
    OBVIOUS
  <2>3. \A t \in T : t + 1 \in S /\ f[t + 1] = t
    OBVIOUS
  <2> QED
    BY <2>1, <2>2, <2>3 DEF Bijection, Injection, Surjection, IsInjective
<1>4. IsFiniteSet(T) /\ Cardinality(T) = Cardinality(S)
  <2>1. ExistsBijection(S, T)
    BY <1>3 DEF ExistsBijection
  <2> HIDE DEF S, T
  <2> QED
    BY <1>2, <2>1, FS_Bijection
<1> QED
  BY <1>1, <1>2, <1>4

\* What a write to a pipe and a read from it do to the number of ones in it.
LEMMA OnesFacts ==
    ASSUME NEW s \in Seq({0, 1})
    PROVE  /\ Ones(s) \in Nat
           /\ Ones(s) # 0 => s # <<>>
           /\ \A b \in {0, 1} : Ones(Append(s, b)) = Ones(s) + b
           /\ s # <<>> => Ones(Tail(s)) = Ones(s) - Head(s)
<1> DEFINE P == {i \in DOMAIN s : s[i] = 1}
<1>1. /\ Len(s) \in Nat /\ DOMAIN s = 1..Len(s) /\ P \in SUBSET (1..Len(s))
      /\ \A i \in 1..Len(s) : s[i] \in {0, 1}
  OBVIOUS
<1>2. IsFiniteSet(P) /\ Cardinality(P) \in Nat
  <2>1. IsFiniteSet(1..Len(s))
    BY <1>1, FS_Interval
  <2> HIDE DEF P
  <2> QED
    BY <1>1, <2>1, FS_Subset, FS_CardinalityType
<1>3. Ones(s) = Cardinality(P)
  BY DEF Ones
<1>4. s = <<>> => Ones(s) = 0
  <2>1. s = <<>> => P = {}
    BY <1>1
  <2> QED
    BY <1>3, <2>1, FS_EmptySet
<1>5. ASSUME NEW b \in {0, 1}
      PROVE  Ones(Append(s, b)) = Ones(s) + b
  <2> DEFINE a == Append(s, b)
             Q == {i \in DOMAIN a : a[i] = 1}
  <2>1. DOMAIN a = 1..(Len(s) + 1) /\ a[Len(s) + 1] = b /\ \A i \in 1..Len(s) : a[i] = s[i]
    BY <1>1
  <2>2. CASE b = 1
    <3>1. Q = P \cup {Len(s) + 1} /\ Len(s) + 1 \notin P
      BY <1>1, <2>1, <2>2
    <3>2. Cardinality(Q) = Cardinality(P) + 1
      BY <1>2, <3>1, FS_AddElement
    <3> QED
      BY <1>3, <2>2, <3>2 DEF Ones
  <2>3. CASE b = 0
    <3>1. Q = P
      BY <1>1, <2>1, <2>3
    <3>2. Ones(a) = Cardinality(P)
      BY <3>1 DEF Ones
    <3> QED
      BY <1>2, <1>3, <2>3, <3>2
  <2> QED
    BY <2>2, <2>3
<1>6. ASSUME s # <<>>
      PROVE  Ones(Tail(s)) = Ones(s) - Head(s)
  <2> DEFINE t == Tail(s)
  <2>1. /\ DOMAIN t = 1..(Len(s) - 1) /\ \A i \in 1..(Len(s) - 1) : t[i] = s[i + 1]
        /\ Head(s) = s[1] /\ 1 \in 1..Len(s) /\ Head(s) \in {0, 1}
    BY <1>1, <1>6
  <2>2. {i \in DOMAIN t : t[i] = 1} = {i \in 1..(Len(s) - 1) : i + 1 \in P}
    BY <1>1, <2>1
  <2>3. Cardinality({i \in 1..(Len(s) - 1) : i + 1 \in P}) = Cardinality(P) - One(1 \in P)
    <3> HIDE DEF P
    <3> QED
      BY <1>1, ShiftedCount
  <2>4. One(1 \in P) = Head(s)
    BY <1>1, <2>1 DEF One
  <2> QED
    BY <1>3, <2>2, <2>3, <2>4 DEF Ones
<1> QED
  BY <1>2, <1>3, <1>4, <1>5, <1>6

\* A call that waits has its request on its way or a grant to take; a worker that
\* has ended says so until the caller knows; and dtmd_deinit has asked it to end.
WaitInv ==
    /\ cpc = "capture" => Ones(pipes) + Ones(feedback) + One(wpc = "grant") > 0
    /\ cpc \in {"capture", "owner", "process"} => result_state \notin FatalResults
    /\ wpc = "done" => result_state \in FatalResults \/ \E i \in DOMAIN feedback : feedback[i] = 0
    /\ cpc = "join" /\ wpc \in {"loop", "grant", "wait"} => \E i \in DOMAIN pipes : pipes[i] = 0

\* Initially nothing is on its way.
LEMMA BalanceInit == Init => RequestBalance /\ WaitInv
<1>1. Init => Ones(pipes) = 0 /\ Ones(feedback) = 0
  <2>1. {i \in DOMAIN <<>> : <<>>[i] = 1} = {}
    OBVIOUS
  <2> QED
    BY <2>1, FS_EmptySet DEF Init, Ones
<1> QED
  BY <1>1 DEF Init, RequestBalance, WaitInv

\* Of the hand-off, the environment and the handling of messages change nothing.
LEMMA HandoffCases ==
    ASSUME [Next]_vars
    PROVE  \/ WorkerPipe \/ WorkerGrant \/ WorkerWait \/ WorkerExit
           \/ (\E c \in Commands : CallBegin(c)) \/ CallCapture \/ CallCaptureTimeout \/ CallSend
           \/ CallReadEnd \/ CallReadTimeout \/ CallError \/ CallFinish \/ DeinitBegin \/ DeinitJoin
           \/ CallProcess
           \/ WorkerHandle /\ UNCHANGED <<cpc, handoff, call>>
           \/ UNCHANGED <<threads, handoff, call>>
<1>1. CASE Daemon
  BY <1>1 DEF Daemon, DaemonAnswer, DaemonNotify, DaemonCrash, DaemonBind, DaemonListen
<1>2. CASE WorkerDisconnect \/ WorkerWatch \/ WorkerRead \/ CallRead
  BY <1>2 DEF WorkerDisconnect, WorkerWatch, WorkerRead, CallRead
<1>3. CASE UNCHANGED vars
  BY <1>3 DEF vars
<1>4. WorkerHandle => UNCHANGED <<cpc, handoff, call>>
  BY DEF WorkerHandle
<1> QED
  BY <1>1, <1>2, <1>3, <1>4 DEF Next, Worker, Caller, CallerStep, Terminated

\* Each step keeps the balance: a request is written where a call begins, and a
\* post made where it ends.
LEMMA BalanceStep ==
    ASSUME TypeOK, RequestBalance, [Next]_vars
    PROVE  RequestBalance'
<1>1. /\ Ones(pipes) \in Nat /\ caller_socket \in Nat
      /\ \A b \in {0, 1} : Ones(Append(pipes, b)) = Ones(pipes) + b
      /\ pipes # <<>> => Ones(Tail(pipes)) = Ones(pipes) - Head(pipes) /\ Head(pipes) \in {0, 1}
  BY OnesFacts, SequenceFacts DEF TypeOK
<1> USE DEF RequestBalance
<1>2. CASE WorkerPipe
  BY <1>1, <1>2 DEF WorkerPipe, Polling
<1>3. CASE WorkerGrant
  BY <1>1, <1>3 DEF WorkerGrant
<1>4. CASE WorkerWait
  BY <1>1, <1>4 DEF WorkerWait
<1>5. CASE WorkerExit
  BY <1>1, <1>5 DEF WorkerExit
<1>6. CASE \E c \in Commands : CallBegin(c)
  BY <1>1, <1>6 DEF CallBegin
<1>7. CASE CallCapture
  BY <1>1, <1>7 DEF CallCapture, Leave
<1>8. CASE CallCaptureTimeout \/ CallSend \/ CallReadEnd \/ CallReadTimeout \/ CallProcess
  BY <1>1, <1>8 DEF CallCaptureTimeout, CallSend, CallReadEnd, CallReadTimeout, CallProcess, Reading,
                    Leave, handoff
<1>9. CASE CallError
  BY <1>1, <1>9 DEF CallError
<1>10. CASE CallFinish
  BY <1>1, <1>10 DEF CallFinish
<1>11. CASE DeinitBegin
  BY <1>1, <1>11 DEF DeinitBegin
<1>12. CASE DeinitJoin
  BY <1>1, <1>12 DEF DeinitJoin, handoff
<1>13. CASE WorkerHandle /\ UNCHANGED <<cpc, handoff, call>>
  BY <1>1, <1>13 DEF WorkerHandle, handoff
<1>14. CASE UNCHANGED <<threads, handoff, call>>
  BY <1>1, <1>14 DEF threads, handoff
<1> QED
  BY <1>2, <1>3, <1>4, <1>5, <1>6, <1>7, <1>8, <1>9, <1>10, <1>11, <1>12, <1>13, <1>14, HandoffCases

\* Each step keeps what those who wait rely on.
LEMMA WaitStep ==
    ASSUME TypeOK, WaitInv, [Next]_vars
    PROVE  WaitInv'
<1>1. /\ Ones(pipes) \in Nat /\ Ones(feedback) \in Nat
      /\ \A b \in {0, 1} : /\ Ones(Append(pipes, b)) = Ones(pipes) + b
                           /\ Ones(Append(feedback, b)) = Ones(feedback) + b
      /\ pipes # <<>> => Ones(Tail(pipes)) = Ones(pipes) - Head(pipes) /\ Head(pipes) \in {0, 1}
      /\ feedback # <<>> =>
            Ones(Tail(feedback)) = Ones(feedback) - Head(feedback) /\ Head(feedback) \in {0, 1}
  BY OnesFacts, SequenceFacts DEF TypeOK
<1>2. \A s \in Seq({0, 1}), b \in {0, 1} :
          /\ \A i \in DOMAIN s : i \in DOMAIN Append(s, b) /\ Append(s, b)[i] = s[i]
          /\ \E i \in DOMAIN Append(s, b) : Append(s, b)[i] = b
          /\ s # <<>> /\ Head(s) # 0 /\ (\E i \in DOMAIN s : s[i] = 0) =>
                \E i \in DOMAIN Tail(s) : Tail(s)[i] = 0
  <2> TAKE s \in Seq({0, 1}), b \in {0, 1}
  <2>1. \E i \in DOMAIN Append(s, b) : Append(s, b)[i] = b
    <3>1. Len(s) + 1 \in DOMAIN Append(s, b) /\ Append(s, b)[Len(s) + 1] = b
      OBVIOUS
    <3> QED
      BY <3>1
  <2>2. ASSUME s # <<>>, Head(s) # 0, NEW i \in DOMAIN s, s[i] = 0
        PROVE  \E j \in DOMAIN Tail(s) : Tail(s)[j] = 0
    <3>1. i # 1 /\ i - 1 \in DOMAIN Tail(s) /\ Tail(s)[i - 1] = s[i]
      BY <2>2
    <3> QED
      BY <2>2, <3>1
  <2> QED
    BY <2>1, <2>2
<1>3. pipes \in Seq({0, 1}) /\ feedback \in Seq({0, 1})
  BY DEF TypeOK
<1> USE DEF WaitInv, One
<1>4. CASE WorkerPipe
  <2>1. /\ pipes # <<>> /\ pipes' = Tail(pipes) /\ wpc = "loop"
        /\ wpc' = IF Head(pipes) = 1 THEN "grant" ELSE "exit"
        /\ UNCHANGED <<cpc, feedback, result_state>>
    BY <1>4 DEF WorkerPipe, Polling, call
  <2>2. ASSUME cpc = "join", wpc' = "grant"
        PROVE  \E i \in DOMAIN pipes' : pipes'[i] = 0
    <3>1. Head(pipes) # 0 /\ \E i \in DOMAIN pipes : pipes[i] = 0
      BY <2>1, <2>2
    <3> QED
      BY <1>2, <1>3, <2>1, <3>1
  <2>3. cpc = "capture" => Ones(pipes') + Ones(feedback) + One(wpc' = "grant") > 0
    BY <1>1, <2>1
  <2> QED
    BY <2>1, <2>2, <2>3
<1>5. CASE WorkerGrant
  BY <1>1, <1>5 DEF WorkerGrant, call
<1>6. CASE WorkerWait
  BY <1>1, <1>6 DEF WorkerWait, call
<1>7. CASE WorkerExit
  <2>1. \E i \in DOMAIN feedback' : feedback'[i] = 0
    BY <1>2, <1>3, <1>7 DEF WorkerExit
  <2> QED
    BY <1>1, <1>7, <2>1 DEF WorkerExit, call
<1>8. CASE \E c \in Commands : CallBegin(c)
  BY <1>1, <1>8 DEF CallBegin
<1>9. CASE CallCapture
  BY <1>1, <1>2, <1>3, <1>9 DEF CallCapture, Leave, FatalResults
<1>10. CASE CallCaptureTimeout \/ CallSend \/ CallReadEnd \/ CallReadTimeout \/ CallProcess
  BY <1>1, <1>10 DEF CallCaptureTimeout, CallSend, CallReadEnd, CallReadTimeout, CallProcess, Reading,
                     Leave, handoff
<1>11. CASE CallError
  BY <1>1, <1>11 DEF CallError, call
<1>12. CASE CallFinish
  BY <1>1, <1>12 DEF CallFinish, call
<1>13. CASE DeinitBegin
  BY <1>1, <1>2, <1>3, <1>13 DEF DeinitBegin, call
<1>14. CASE DeinitJoin
  BY <1>1, <1>14 DEF DeinitJoin, handoff, call
<1>15. CASE WorkerHandle /\ UNCHANGED <<cpc, handoff, call>>
  BY <1>1, <1>15 DEF WorkerHandle, handoff, call
<1>16. CASE UNCHANGED <<threads, handoff, call>>
  BY <1>1, <1>16 DEF threads, handoff, call
<1> QED
  BY <1>4, <1>5, <1>6, <1>7, <1>8, <1>9, <1>10, <1>11, <1>12, <1>13, <1>14, <1>15, <1>16, HandoffCases

\* As many posts as requests, for any number of calls, though every call may give
\* up at any of its waits: the semaphore never lets the worker take back a socket
\* early for good, nor leaves it waiting for a post that was made.
THEOREM BalanceCorrect == Spec => []RequestBalance
<1>1. TypeOK /\ RequestBalance /\ [Next]_vars => RequestBalance'
  BY BalanceStep
<1> QED
  BY <1>1, BalanceInit, TypeCorrect, PTL DEF Spec

\* Neither thread ever waits for a thread that waits for it: whoever waits in
\* dtmd_helper_capture_socket, sem_wait or pthread_join has what it waits for
\* on its way, also after calls that gave up while they waited for the worker.
THEOREM WaitCorrect == Spec => []NoMutualWait
<1>1. TypeOK /\ WaitInv /\ [Next]_vars => WaitInv'
  BY WaitStep
<1>2. TypeOK /\ RequestBalance /\ WaitInv => NoMutualWait
  <2> SUFFICES ASSUME TypeOK, RequestBalance, WaitInv
               PROVE  NoMutualWait
    OBVIOUS
  <2>1. /\ Ones(pipes) \in Nat /\ Ones(feedback) \in Nat /\ caller_socket \in Nat
        /\ Ones(pipes) # 0 => pipes # <<>>
        /\ Ones(feedback) # 0 => feedback # <<>>
    BY OnesFacts DEF TypeOK
  <2>2. /\ pipes = <<>> => DOMAIN pipes = {}
        /\ feedback = <<>> => DOMAIN feedback = {}
    OBVIOUS
  <2>3. ASSUME cpc = "capture", feedback = <<>>
        PROVE  wpc # "done" /\ ~WorkerBlocked /\ (wpc \in {"loop", "wait"} => pipes # <<>>)
    BY <2>1, <2>2, <2>3 DEF WaitInv, RequestBalance, WorkerBlocked, One
  <2>4. ASSUME WorkerBlocked
        PROVE  cpc \in {"capture", "owner", "process", "error", "finish"}
    BY <2>1, <2>4 DEF RequestBalance, WorkerBlocked
  <2>5. ASSUME cpc = "join", wpc \in {"loop", "wait"}
        PROVE  pipes # <<>>
    BY <2>2, <2>5 DEF WaitInv
  <2> QED
    BY <2>3, <2>4, <2>5 DEF NoMutualWait
<1> QED
  BY <1>1, <1>2, BalanceInit, BalanceCorrect, TypeCorrect, PTL DEF Spec

(***************************************************************************)
(* The messages that have arrived.                                         *)
(***************************************************************************)
LEMMA StreamFacts ==
    ASSUME TypeOK
    PROVE  /\ stream \in Seq(Messages) /\ Len(stream) = Len(buffer) + Len(inbox)
           /\ Len(stream) \in Nat /\ DOMAIN stream = 1..Len(stream)
           /\ \A k \in 1..Len(stream) :
                 /\ stream[k] \in Messages /\ stream[k].kind \in MessageKinds
                 /\ stream[k].id \in Nat /\ stream[k].cmd \in Commands \cup {"none"}
  BY DEF TypeOK, stream, Messages

\* What it does to the stream that a thread takes the first message of the buffer.
LEMMA TakeFacts ==
    ASSUME TypeOK, buffer # <<>>, buffer' = Tail(buffer), inbox' = inbox
    PROVE  /\ Len(stream) > 0 /\ stream[1] = Head(buffer)
           /\ Len(stream') = Len(stream) - 1 /\ DOMAIN stream' = 1..(Len(stream) - 1)
           /\ \A k \in 1..(Len(stream) - 1) : stream'[k] = stream[k + 1]
  BY DEF TypeOK, stream

\* A read moves messages to the buffer and leaves the stream as it is.
LEMMA ReadFacts ==
    ASSUME TypeOK, buffer = <<>>, ReadInput
    PROVE  stream' = stream
<1>1. PICK n \in 1..Len(inbox) : /\ buffer' = buffer \o SubSeq(inbox, 1, n)
                                /\ inbox' = SubSeq(inbox, n + 1, Len(inbox))
  BY DEF ReadInput
<1>2. inbox \in Seq(Messages) /\ buffer \in Seq(Messages) /\ Len(inbox) \in Nat
  BY DEF TypeOK
<1>3. /\ buffer' \in Seq(Messages) /\ Len(buffer') = n
      /\ \A k \in 1..n : buffer'[k] = inbox[k]
  BY <1>1, <1>2
<1>4. /\ inbox' \in Seq(Messages) /\ Len(inbox') = Len(inbox) - n
      /\ \A k \in 1..(Len(inbox) - n) : inbox'[k] = inbox[n + k]
  BY <1>1, <1>2
<1>5. /\ stream' \in Seq(Messages) /\ Len(stream') = Len(inbox)
      /\ \A k \in 1..Len(inbox) : stream'[k] = inbox[k]
  BY <1>2, <1>3, <1>4 DEF stream
<1>6. stream \in Seq(Messages) /\ Len(stream) = Len(inbox) /\ \A k \in 1..Len(inbox) : stream[k] = inbox[k]
  BY <1>2 DEF stream
<1> QED
  BY <1>5, <1>6, SeqEqual

\* What the daemon writes comes after what has arrived.
LEMMA ArriveFacts ==
    ASSUME TypeOK, NEW a \in Seq(Messages), buffer' = buffer, inbox' = inbox \o a
    PROVE  /\ Len(stream') = Len(stream) + Len(a) /\ DOMAIN stream' = 1..(Len(stream) + Len(a))
           /\ \A k \in 1..Len(stream) : stream'[k] = stream[k]
           /\ \A k \in 1..Len(a) : stream'[Len(stream) + k] = a[k]
<1>1. /\ buffer \in Seq(Messages) /\ inbox \in Seq(Messages) /\ Len(a) \in Nat
      /\ Len(buffer) \in Nat /\ Len(inbox) \in Nat
  BY DEF TypeOK
<1>2. /\ inbox' \in Seq(Messages) /\ Len(inbox') = Len(inbox) + Len(a)
      /\ \A k \in 1..Len(inbox) : inbox'[k] = inbox[k]
      /\ \A k \in 1..Len(a) : inbox'[Len(inbox) + k] = a[k]
  BY <1>1
<1>3. /\ stream \in Seq(Messages) /\ Len(stream) = Len(buffer) + Len(inbox)
      /\ \A k \in 1..Len(buffer) : stream[k] = buffer[k]
      /\ \A k \in 1..Len(inbox) : stream[Len(buffer) + k] = inbox[k]
  BY <1>1 DEF stream
<1>4. /\ stream' \in Seq(Messages) /\ Len(stream') = Len(buffer) + Len(inbox')
      /\ \A k \in 1..Len(buffer) : stream'[k] = buffer[k]
      /\ \A k \in 1..Len(inbox') : stream'[Len(buffer) + k] = inbox'[k]
  BY <1>1, <1>2 DEF stream
<1>5. ASSUME NEW k \in 1..Len(stream)
      PROVE  stream'[k] = stream[k]
  <2>1. CASE k <= Len(buffer)
    BY <1>1, <1>3, <1>4, <2>1
  <2>2. CASE k > Len(buffer)
    <3>1. PICK j \in 1..Len(inbox) : Len(buffer) + j = k
      <4>1. k - Len(buffer) \in 1..Len(inbox) /\ Len(buffer) + (k - Len(buffer)) = k
        BY <1>1, <1>3, <2>2
      <4> QED
        BY <4>1
    <3>2. j \in 1..Len(inbox')
      BY <1>1, <1>2, <3>1
    <3> QED
      BY <1>2, <1>3, <1>4, <3>1, <3>2
  <2> QED
    BY <1>1, <1>3, <2>1, <2>2
<1>6. ASSUME NEW k \in 1..Len(a)
      PROVE  stream'[Len(stream) + k] = a[k]
  <2>1. Len(inbox) + k \in 1..Len(inbox') /\ Len(buffer) + (Len(inbox) + k) = Len(stream) + k
    BY <1>1, <1>2, <1>3
  <2> QED
    BY <1>2, <1>4, <2>1
<1> QED
  BY <1>1, <1>2, <1>3, <1>4, <1>5, <1>6

\* What is lost with a connection is the end of the stream.
LEMMA CutFacts ==
    ASSUME TypeOK, NEW n \in 0..Len(inbox), buffer' = buffer, inbox' = SubSeq(inbox, 1, n)
    PROVE  /\ Len(stream') \in 0..Len(stream) /\ DOMAIN stream' = 1..Len(stream')
           /\ \A k \in 1..Len(stream') : stream'[k] = stream[k]
  BY DEF TypeOK, stream

\* A message ends an answer.
Final(m) == m.kind \in {"finished", "succeeded", "failed"}

\* The state of the parser after a message, and the messages it then expects.
After(m)   == IF m.kind \in {"started", "device"} THEN m.cmd ELSE "default"
Opening(m) == m.kind \in {"failed", "started", "notification"} \/ (m.kind = "succeeded" /\ m.cmd \in PlainCommands)
Inside(m, c) == m.kind \in {"device", "finished"} /\ m.cmd = c
Expected(m, state) == IF state = "default" THEN Opening(m) ELSE Inside(m, state)

\* What an answer consists of.
LEMMA AnswerFacts ==
    ASSUME NEW r \in Requests, NEW a \in Answers(r)
    PROVE  /\ a \in Seq(Messages) /\ Len(a) \in Nat \ {0} /\ Opening(a[1])
           /\ \A k \in 1..Len(a) :
                 /\ a[k].kind # "notification" /\ a[k].cmd = r.cmd /\ a[k].id = r.id
                 /\ Final(a[k]) <=> k = Len(a)
           /\ \A k \in 1..(Len(a) - 1) : Expected(a[k + 1], After(a[k]))
<1>1. a \in Seq(Messages)
  BY AnswersType
<1>2. \A kind : LET m == Msg(kind, r.cmd, r.id)
                IN  m.kind = kind /\ m.cmd = r.cmd /\ m.id = r.id
  BY DEF Msg
<1>3. r.cmd \in Commands /\ (r.cmd \notin PlainCommands => r.cmd # "default")
  BY LibraryAssumption DEF Requests, Commands
<1>4. CASE a = <<Msg("failed", r.cmd, r.id)>>
  <2>1. Len(a) = 1 /\ a[1] = Msg("failed", r.cmd, r.id)
    BY <1>4
  <2> QED
    BY <1>1, <1>2, <2>1 DEF Opening, Final
<1>5. CASE r.cmd \in PlainCommands /\ a = <<Msg("succeeded", r.cmd, r.id)>>
  <2>1. Len(a) = 1 /\ a[1] = Msg("succeeded", r.cmd, r.id)
    BY <1>5
  <2> QED
    BY <1>1, <1>2, <1>5, <2>1 DEF Opening, Final
<1>6. CASE r.cmd \notin PlainCommands
           /\ a = <<Msg("started", r.cmd, r.id)>> \o <<>> \o <<Msg("finished", r.cmd, r.id)>>
  <2>1. Len(a) = 2 /\ a[1] = Msg("started", r.cmd, r.id) /\ a[2] = Msg("finished", r.cmd, r.id)
    BY <1>6
  <2> QED
    BY <1>1, <1>2, <1>3, <1>6, <2>1 DEF Opening, Final, Expected, After, Inside
<1>7. CASE r.cmd \notin PlainCommands
           /\ a = <<Msg("started", r.cmd, r.id)>> \o <<Msg("device", r.cmd, r.id)>>
                     \o <<Msg("finished", r.cmd, r.id)>>
  <2>1. /\ Len(a) = 3 /\ a[1] = Msg("started", r.cmd, r.id) /\ a[2] = Msg("device", r.cmd, r.id)
        /\ a[3] = Msg("finished", r.cmd, r.id)
    BY <1>7
  <2> QED
    BY <1>1, <1>2, <1>3, <1>7, <2>1 DEF Opening, Final, Expected, After, Inside
<1> QED
  BY <1>4, <1>5, <1>6, <1>7 DEF Answers

\* What steps other than those of a call do to the stream.
LEMMA StreamCases ==
    ASSUME TypeOK, Worker \/ Daemon \/ CallRead \/ UNCHANGED vars
    PROVE  /\ UNCHANGED <<cpc, call, calls, answered, abandoned>>
           /\ \/ UNCHANGED <<stream, outbox, hup, socket_fd, library_state, sent, delivered>>
              \/ WorkerHandle
              \/ /\ stream' = <<>> /\ outbox' = <<>> /\ ~hup' /\ UNCHANGED library_state
                 /\ socket_fd' => ~socket_fd /\ sent' = 0 /\ delivered' = 0
                 /\ ~socket_fd' => hup
              \/ DaemonAnswer \/ DaemonNotify \/ DaemonCrash
<1>1. CASE WorkerHandle \/ DaemonAnswer \/ DaemonNotify \/ DaemonCrash
  BY <1>1 DEF WorkerHandle, DaemonAnswer, DaemonNotify, DaemonCrash, threads, history
<1>2. CASE WorkerPipe \/ WorkerGrant \/ WorkerWait \/ WorkerExit
  BY <1>2 DEF WorkerPipe, WorkerGrant, WorkerWait, WorkerExit, link, parser, history, stream
<1>3. CASE DaemonBind \/ DaemonListen \/ UNCHANGED vars
  BY <1>3 DEF DaemonBind, DaemonListen, vars, threads, link, parser, history, stream
<1>4. CASE WorkerRead \/ CallRead
  <2>1. stream' = stream
    BY <1>4, ReadFacts DEF WorkerRead, CallRead, Polling, Reading
  <2> QED
    BY <1>4, <2>1 DEF WorkerRead, CallRead, threads, history
<1>5. CASE WorkerDisconnect
  <2>1. stream' = <<>>
    BY <1>5 DEF WorkerDisconnect, Polling, parser, stream
  <2> QED
    BY <1>5, <2>1 DEF WorkerDisconnect, Polling, parser, threads, history
<1>6. CASE WorkerWatch /\ socket_fd
  BY <1>6 DEF WorkerWatch, link, stream, threads
<1>7. CASE WorkerWatch /\ ~socket_fd
  <2>1. UNCHANGED <<cpc, call, calls, answered, abandoned, library_state>>
    BY <1>7 DEF WorkerWatch, threads
  <2>2. CASE daemon = "listening"
    <3>1. /\ socket_fd' /\ ~hup' /\ inbox' = <<>> /\ outbox' = <<>> /\ buffer' = <<>>
          /\ sent' = 0 /\ delivered' = 0
      BY <1>7, <2>2 DEF WorkerWatch, try_connecting
    <3>2. stream' = <<>>
      BY <3>1 DEF stream
    <3> QED
      BY <1>7, <2>1, <3>1, <3>2, Zenon
  <2>3. CASE daemon # "listening"
    BY <1>7, <2>1, <2>3 DEF WorkerWatch, try_connecting, link, stream
  <2> QED
    BY <2>2, <2>3
<1> QED
  BY <1>1, <1>2, <1>3, <1>4, <1>5, <1>6, <1>7 DEF Worker, Daemon

\* What the steps of a call do to the stream.
LEMMA CallCases ==
    ASSUME TypeOK, [Next]_vars
    PROVE  \/ Worker \/ Daemon \/ CallRead \/ UNCHANGED vars
           \/ CallProcess
           \/ CallSend /\ UNCHANGED <<wpc, stream, hup, socket_fd, library_state, sent, delivered>>
           \/ DeinitJoin
           \/ /\ UNCHANGED <<wpc, stream, outbox, hup, socket_fd, library_state, sent, delivered>>
              /\ \/ (\E c \in Commands : CallBegin(c)) \/ CallCapture \/ CallCaptureTimeout
                 \/ CallReadEnd \/ CallReadTimeout \/ CallError \/ CallFinish \/ DeinitBegin
<1>1. CASE \E c \in Commands : CallBegin(c)
  BY <1>1 DEF CallBegin, link, parser, stream
<1>2. CASE CallCapture \/ CallCaptureTimeout \/ CallReadEnd \/ CallReadTimeout
  BY <1>2 DEF CallCapture, CallCaptureTimeout, CallReadEnd, CallReadTimeout, link, parser, history, stream
<1>3. CASE CallError \/ CallFinish \/ DeinitBegin
  BY <1>3 DEF CallError, CallFinish, DeinitBegin, link, parser, history, stream
<1>4. CASE CallSend
  BY <1>4 DEF CallSend, parser, history, stream
<1> QED
  BY <1>1, <1>2, <1>3, <1>4 DEF Next, Caller, CallerStep, Terminated

\* Counting notifications: in a sequence that lost its first message, in a longer
\* one, and in the same.
LEMMA NotesFacts ==
    ASSUME NEW s, NEW k \in Nat
    PROVE  /\ Notes(s, k) \in Nat /\ Notes(s, 0) = 0
           /\ Notes(s, k + 1) = Notes(s, k) + One(s[k + 1].kind = "notification")
<1> DEFINE P == {i \in 1..k : s[i].kind = "notification"}
           Q == {i \in 1..(k + 1) : s[i].kind = "notification"}
<1>1. IsFiniteSet(P) /\ Cardinality(P) \in Nat
  <2>1. P \in SUBSET (1..k) /\ IsFiniteSet(1..k)
    BY FS_Interval
  <2> HIDE DEF P
  <2> QED
    BY <2>1, FS_Subset, FS_CardinalityType
<1>2. Notes(s, 0) = 0
  <2>1. {i \in 1..0 : s[i].kind = "notification"} = {}
    OBVIOUS
  <2> QED
    BY <2>1, FS_EmptySet DEF Notes
<1>3. CASE s[k + 1].kind = "notification"
  <2>1. Q = P \cup {k + 1} /\ k + 1 \notin P
    BY <1>3
  <2>2. Cardinality(Q) = Cardinality(P) + 1
    BY <1>1, <2>1, FS_AddElement
  <2> QED
    BY <1>1, <1>2, <1>3, <2>2 DEF Notes, One
<1>4. CASE s[k + 1].kind # "notification"
  <2>1. Q = P
    BY <1>4
  <2>2. Notes(s, k + 1) = Cardinality(P) /\ Notes(s, k) = Cardinality(P)
    BY <2>1 DEF Notes
  <2> QED
    BY <1>1, <1>2, <1>4, <2>2 DEF One
<1> QED
  BY <1>3, <1>4

LEMMA NotesTail ==
    ASSUME NEW s, NEW t, NEW k \in Nat, \A i \in 1..k : t[i] = s[i + 1]
    PROVE  Notes(t, k) = Notes(s, k + 1) - One(s[1].kind = "notification")
<1> DEFINE P == {i \in 1..(k + 1) : s[i].kind = "notification"}
<1>1. {i \in 1..k : t[i].kind = "notification"} = {i \in 1..((k + 1) - 1) : i + 1 \in P}
  OBVIOUS
<1>2. k + 1 \in Nat /\ P \in SUBSET (1..(k + 1)) /\ (1 \in P <=> s[1].kind = "notification")
  OBVIOUS
<1>3. Cardinality({i \in 1..((k + 1) - 1) : i + 1 \in P}) = Cardinality(P) - One(1 \in P)
  <2> HIDE DEF P
  <2> QED
    BY <1>2, ShiftedCount
<1> QED
  BY <1>1, <1>2, <1>3 DEF Notes, One

LEMMA NotesSame ==
    ASSUME NEW s, NEW t, NEW k \in Nat, \A i \in 1..k : t[i] = s[i]
    PROVE  Notes(t, k) = Notes(s, k)
<1>1. {i \in 1..k : t[i].kind = "notification"} = {i \in 1..k : s[i].kind = "notification"}
  OBVIOUS
<1> QED
  BY <1>1 DEF Notes

LEMMA NotesLonger ==
    ASSUME NEW s, NEW k \in Nat, NEW l \in Nat, k <= l,
           \A i \in (k + 1)..l : s[i].kind # "notification"
    PROVE  Notes(s, l) = Notes(s, k)
<1>1. {i \in 1..l : s[i].kind = "notification"} = {i \in 1..k : s[i].kind = "notification"}
  OBVIOUS
<1> QED
  BY <1>1 DEF Notes

\* A thread that handles a message tells the program of a notification, or the
\* handle is given up.
LEMMA TakeNotes ==
    ASSUME WorkerHandle \/ CallProcess
    PROVE  \/ wpc' = "fail" \/ result_state' \in FatalResults
           \/ delivered' = IF Head(buffer).kind = "notification" THEN delivered + 1 ELSE delivered
<1>1. CASE WorkerHandle
  BY <1>1 DEF WorkerHandle, handle_cmd
<1>2. CASE CallProcess
  BY <1>2 DEF CallProcess, IsSuccess, IsFailure, IsStart, handle_cmd, Leave, FatalResults
<1> QED
  BY <1>1, <1>2

\* Each step keeps the notifications in order.
LEMMA NotesStep ==
    ASSUME TypeOK, WaitInv, NotificationsInOrder, [Next]_vars
    PROVE  NotificationsInOrder'
<1> SUFFICES ASSUME socket_fd', result_state' \notin FatalResults, wpc' \in {"loop", "grant", "wait"}
             PROVE  /\ ~hup' => Notes(stream', Len(stream')) = sent' - delivered'
                    /\ \A k \in DOMAIN stream' :
                          stream'[k].kind = "notification" => stream'[k].id = delivered' + Notes(stream', k)
  BY DEF NotificationsInOrder
<1>0. /\ socket_fd /\ result_state \notin FatalResults /\ wpc \in {"loop", "grant", "wait"} =>
            /\ ~hup => Notes(stream, Len(stream)) = sent - delivered
            /\ \A k \in DOMAIN stream :
                  stream[k].kind = "notification" => stream[k].id = delivered + Notes(stream, k)
      /\ Len(stream) \in Nat /\ DOMAIN stream = 1..Len(stream)
      /\ delivered \in Nat /\ sent \in Nat
  BY StreamFacts DEF NotificationsInOrder, TypeOK
<1>n. \A k \in Nat : Notes(stream, k) \in Nat
  BY NotesFacts
<1>w. wpc \in {"loop", "grant", "wait"}
  <2>1. wpc' = wpc \/ wpc \in {"loop", "grant", "wait"} \/ wpc' = "done"
    <3>1. CASE Worker
      BY <3>1 DEF Worker, WorkerHandle, WorkerDisconnect, WorkerPipe, WorkerGrant, WorkerWait, WorkerWatch,
                  WorkerRead, WorkerExit, Polling, threads
    <3>2. CASE Daemon \/ CallRead \/ UNCHANGED vars
      BY <3>2 DEF Daemon, DaemonAnswer, DaemonNotify, DaemonCrash, DaemonBind, DaemonListen, CallRead, vars, threads
    <3>3. CASE CallProcess \/ CallSend \/ DeinitJoin
      BY <3>3 DEF CallProcess, CallSend, DeinitJoin
    <3> QED
      BY <3>1, <3>2, <3>3, CallCases
  <2> QED
    BY <2>1
<1>1. CASE WorkerHandle \/ CallProcess
  <2>1. /\ buffer # <<>> /\ buffer' = Tail(buffer) /\ inbox' = inbox
        /\ UNCHANGED <<socket_fd, hup, sent>>
    BY <1>1 DEF WorkerHandle, CallProcess, link
  <2>2. result_state \notin FatalResults
    BY <1>1 DEF WorkerHandle, CallProcess, call, WaitInv
  <2>3. /\ Len(stream) > 0 /\ stream[1] = Head(buffer)
        /\ Len(stream') = Len(stream) - 1 /\ DOMAIN stream' = 1..(Len(stream) - 1)
        /\ \A k \in 1..(Len(stream) - 1) : stream'[k] = stream[k + 1]
    BY <2>1, TakeFacts
  <2>4. delivered' = delivered + One(stream[1].kind = "notification")
    BY <1>0, <1>1, <2>3, TakeNotes DEF One
  <2>5. ASSUME NEW k \in 0..(Len(stream) - 1)
        PROVE  Notes(stream', k) = Notes(stream, k + 1) - One(stream[1].kind = "notification")
    <3>1. k \in Nat /\ \A j \in 1..k : stream'[j] = stream[j + 1]
      BY <1>0, <2>3
    <3> QED
      BY <3>1, NotesTail
  <2>6. \A b \in BOOLEAN : One(b) \in Nat
    BY DEF One
  <2>7. ~hup' => Notes(stream', Len(stream')) = sent' - delivered'
    <3>1. /\ Len(stream) - 1 \in 0..(Len(stream) - 1) /\ (Len(stream) - 1) + 1 = Len(stream)
      BY <1>0, <2>3
    <3>2. Notes(stream', Len(stream')) = Notes(stream, Len(stream)) - One(stream[1].kind = "notification")
      BY <2>3, <2>5, <3>1
    <3>3. One(stream[1].kind = "notification") \in Nat
      BY <2>6
    <3> HIDE DEF One
    <3> QED
      BY <1>0, <1>w, <2>1, <2>2, <2>4, <3>2, <3>3
  <2>8. ASSUME NEW k \in DOMAIN stream', stream'[k].kind = "notification"
        PROVE  stream'[k].id = delivered' + Notes(stream', k)
    <3>1. k \in 0..(Len(stream) - 1) /\ k + 1 \in DOMAIN stream /\ stream'[k] = stream[k + 1] /\ k + 1 \in Nat
      BY <1>0, <2>3
    <3>2. stream[k + 1].id = delivered + Notes(stream, k + 1)
      BY <1>0, <1>w, <2>1, <2>2, <2>8, <3>1
    <3>3. Notes(stream, k + 1) \in Nat /\ One(stream[1].kind = "notification") \in Nat
      BY <1>n, <2>6, <3>1
    <3> QED
      BY <1>0, <2>4, <2>5, <3>1, <3>2, <3>3
  <2> QED
    BY <2>7, <2>8
<1>2. CASE UNCHANGED <<stream, hup, socket_fd, sent, delivered>> /\ result_state \notin FatalResults
  BY <1>0, <1>w, <1>2
<1>3. CASE stream' = <<>> /\ (socket_fd' => ~socket_fd /\ sent' = 0 /\ delivered' = 0)
  <2>1. Notes(stream', 0) = 0 /\ Len(stream') = 0 /\ DOMAIN stream' = {}
    BY <1>3, NotesFacts
  <2> QED
    BY <1>3, <2>1
<1>4. CASE DaemonAnswer
  <2>1. /\ outbox # <<>> /\ Head(outbox) \in Requests
        /\ UNCHANGED <<buffer, hup, socket_fd, sent, delivered, result_state>>
    BY <1>4, SequenceFacts DEF DaemonAnswer, TypeOK, parser, call, history
  <2>2. PICK a \in Answers(Head(outbox)) : inbox' = inbox \o a
    BY <1>4 DEF DaemonAnswer
  <2>3. a \in Seq(Messages) /\ Len(a) \in Nat /\ \A k \in 1..Len(a) : a[k].kind # "notification"
    BY <2>1, <2>2, AnswerFacts
  <2>4. /\ Len(stream') = Len(stream) + Len(a) /\ DOMAIN stream' = 1..(Len(stream) + Len(a))
        /\ \A k \in 1..Len(stream) : stream'[k] = stream[k]
        /\ \A k \in 1..Len(a) : stream'[Len(stream) + k] = a[k]
    BY <2>1, <2>2, <2>3, ArriveFacts
  <2>5. ASSUME NEW k \in (Len(stream) + 1)..(Len(stream) + Len(a))
        PROVE  stream'[k].kind # "notification"
    <3>1. k - Len(stream) \in 1..Len(a) /\ Len(stream) + (k - Len(stream)) = k
      BY <1>0, <2>3
    <3> QED
      BY <2>3, <2>4, <3>1
  <2>6. \A k \in 0..Len(stream) : Notes(stream', k) = Notes(stream, k)
    <3> TAKE k \in 0..Len(stream)
    <3>1. k \in Nat /\ \A j \in 1..k : stream'[j] = stream[j]
      BY <1>0, <2>4
    <3> QED
      BY <3>1, NotesSame
  <2>7. Notes(stream', Len(stream')) = Notes(stream', Len(stream))
    <3>1. Len(stream') \in Nat /\ Len(stream) <= Len(stream')
      BY <1>0, <2>3, <2>4
    <3> QED
      BY <1>0, <2>4, <2>5, <3>1, NotesLonger
  <2>8. ~hup' => Notes(stream', Len(stream')) = sent' - delivered'
    BY <1>0, <1>w, <2>1, <2>6, <2>7
  <2>9. ASSUME NEW k \in DOMAIN stream', stream'[k].kind = "notification"
        PROVE  stream'[k].id = delivered' + Notes(stream', k)
    <3>1. k \in 1..Len(stream)
      BY <1>0, <2>3, <2>4, <2>5, <2>9
    <3>2. stream'[k] = stream[k] /\ k \in 0..Len(stream) /\ k \in DOMAIN stream
      BY <1>0, <2>4, <3>1
    <3> QED
      BY <1>0, <1>w, <2>1, <2>6, <2>9, <3>2
  <2> QED
    BY <2>8, <2>9
<1>5. CASE DaemonNotify
  <2> DEFINE m == Msg("notification", "none", sent + 1)
             n == Len(stream)
  <2>1. /\ ~hup /\ sent' = sent + 1 /\ inbox' = Append(inbox, m)
        /\ UNCHANGED <<buffer, hup, socket_fd, delivered, result_state>>
    BY <1>5 DEF DaemonNotify, parser, call
  <2>2. m \in Messages /\ m.kind = "notification" /\ m.id = sent + 1
    BY <1>0 DEF Msg, Messages, MessageKinds
  <2> HIDE DEF m
  <2>3. <<m>> \in Seq(Messages) /\ Len(<<m>>) = 1 /\ <<m>>[1] = m /\ inbox' = inbox \o <<m>>
    BY <2>1, <2>2 DEF TypeOK
  <2>4. /\ Len(stream') = n + 1 /\ DOMAIN stream' = 1..(n + 1)
        /\ \A k \in 1..n : stream'[k] = stream[k]
        /\ stream'[n + 1] = m
    <3>1. PICK a \in Seq(Messages) : a = <<m>>
      BY <2>3
    <3>2. Len(a) = 1 /\ a[1] = m /\ 1 \in 1..Len(a) /\ inbox' = inbox \o a /\ buffer' = buffer
      BY <2>1, <2>3, <3>1
    <3>3. /\ Len(stream') = Len(stream) + Len(a) /\ DOMAIN stream' = 1..(Len(stream) + Len(a))
          /\ \A k \in 1..Len(stream) : stream'[k] = stream[k]
          /\ \A k \in 1..Len(a) : stream'[Len(stream) + k] = a[k]
      BY <3>2, ArriveFacts
    <3> QED
      BY <3>2, <3>3
  <2>5. \A k \in 0..n : Notes(stream', k) = Notes(stream, k)
    <3> TAKE k \in 0..n
    <3>1. k \in Nat /\ \A j \in 1..k : stream'[j] = stream[j]
      BY <1>0, <2>4
    <3> QED
      BY <3>1, NotesSame
  <2>6. Notes(stream', n + 1) = Notes(stream, n) + 1
    <3>1. Notes(stream', n + 1) = Notes(stream', n) + One(stream'[n + 1].kind = "notification")
      BY <1>0, NotesFacts
    <3> QED
      BY <1>0, <2>2, <2>4, <2>5, <3>1 DEF One
  <2>7. Notes(stream, n) = sent - delivered /\ Notes(stream, n) \in Nat
    BY <1>0, <1>n, <1>w, <2>1
  <2>8. Notes(stream', Len(stream')) = sent' - delivered'
    BY <1>0, <2>1, <2>4, <2>6, <2>7
  <2>9. ASSUME NEW k \in DOMAIN stream', stream'[k].kind = "notification"
        PROVE  stream'[k].id = delivered' + Notes(stream', k)
    <3>1. CASE k = n + 1
      BY <1>0, <2>1, <2>2, <2>4, <2>6, <2>7, <3>1
    <3>2. CASE k # n + 1
      <4>1. k \in DOMAIN stream /\ k \in 0..n /\ stream'[k] = stream[k]
        BY <1>0, <2>4, <3>2
      <4> QED
        BY <1>0, <1>w, <2>1, <2>5, <2>9, <4>1
    <3> QED
      BY <3>1, <3>2
  <2> QED
    BY <2>8, <2>9
<1>6. CASE DaemonCrash
  <2>1. PICK n \in 0..Len(inbox) : inbox' = SubSeq(inbox, 1, n)
    BY <1>6 DEF DaemonCrash
  <2>2. /\ hup' = socket_fd /\ UNCHANGED <<buffer, socket_fd, sent, delivered, result_state>>
    BY <1>6 DEF DaemonCrash, parser, call, history
  <2>3. /\ Len(stream') \in 0..Len(stream) /\ DOMAIN stream' = 1..Len(stream')
        /\ \A k \in 1..Len(stream') : stream'[k] = stream[k]
    BY <2>1, <2>2, CutFacts
  <2>4. ASSUME NEW k \in DOMAIN stream', stream'[k].kind = "notification"
        PROVE  stream'[k].id = delivered' + Notes(stream', k)
    <3>1. k \in Nat /\ k \in DOMAIN stream /\ \A j \in 1..k : stream'[j] = stream[j]
      BY <1>0, <2>3
    <3>2. Notes(stream', k) = Notes(stream, k) /\ stream'[k] = stream[k]
      BY <2>3, <3>1, NotesSame
    <3> QED
      BY <1>0, <1>w, <2>2, <2>4, <3>1, <3>2
  <2> QED
    BY <2>2, <2>4
<1>7. CASE DeinitJoin
  BY <1>7 DEF DeinitJoin
<1>8. CASE Worker \/ Daemon \/ CallRead \/ UNCHANGED vars
  <2>1. result_state' = result_state
    BY <1>8, StreamCases DEF call
  <2> QED
    BY <1>1, <1>2, <1>3, <1>4, <1>5, <1>6, <1>8, <2>1, StreamCases
<1>9. ASSUME \/ CallSend
             \/ (\E c \in Commands : CallBegin(c)) \/ CallCapture \/ CallCaptureTimeout
             \/ CallReadEnd \/ CallReadTimeout \/ CallError \/ CallFinish \/ DeinitBegin
      PROVE  result_state \notin FatalResults
  <2>1. CASE CallSend \/ CallCapture \/ CallCaptureTimeout \/ CallReadEnd \/ CallReadTimeout
    BY <2>1 DEF CallSend, CallCapture, CallCaptureTimeout, CallReadEnd, CallReadTimeout, Reading, WaitInv
  <2>2. CASE CallError \/ CallFinish \/ DeinitBegin \/ \E c \in Commands : CallBegin(c)
    BY <2>2 DEF CallError, CallFinish, DeinitBegin, CallBegin, call
  <2> QED
    BY <1>9, <2>1, <2>2
<1> QED
  BY <1>1, <1>2, <1>7, <1>8, <1>9, CallCases

\* The notifications of a connection reach the callback once each and in order,
\* as long as the handle has a worker and no fatal result: for any number of
\* notifications, calls and crashes, whichever thread reads them, and also when a
\* call gave up while it waited for the worker.
THEOREM NotificationsCorrect == Spec => []NotificationsInOrder
<1>1. Init => NotificationsInOrder
  <2> SUFFICES ASSUME Init
               PROVE  NotificationsInOrder
    OBVIOUS
  <2>1. stream = <<>> /\ sent = 0 /\ delivered = 0
    BY DEF Init, stream
  <2>2. Notes(stream, 0) = 0 /\ Len(stream) = 0 /\ DOMAIN stream = {}
    BY <2>1, NotesFacts
  <2> QED
    BY <2>1, <2>2 DEF NotificationsInOrder
<1>2. TypeOK /\ WaitInv /\ NotificationsInOrder /\ [Next]_vars => NotificationsInOrder'
  BY NotesStep
<1>3. TypeOK /\ WaitInv /\ [Next]_vars => WaitInv'
  BY WaitStep
<1> QED
  BY <1>1, <1>2, <1>3, BalanceInit, TypeCorrect, PTL DEF Spec

(***************************************************************************)
(* Whose answer a call takes.                                              *)
(***************************************************************************)
\* A request is that of the call in progress, or one that comes too late.
Pending(c, id) ==
    \/ id = calls /\ cpc = "process" /\ c = command
    \/ Late(c, id) /\ id <= calls /\ (cpc \in {"capture", "owner"} => id < calls)

\* Answers come in the order of the requests, and none after its end.
InOrder(m, n) == m.kind # "notification" /\ n.kind # "notification" =>
                     IF Final(m) THEN m.id < n.id ELSE m.id <= n.id

PendingInv ==
    /\ \A k \in DOMAIN stream : stream[k].kind # "notification" => Pending(stream[k].cmd, stream[k].id)
    /\ \A k \in DOMAIN outbox : Pending(outbox[k].cmd, outbox[k].id)

OrderInv ==
    /\ \A j, k \in DOMAIN stream : j < k => InOrder(stream[j], stream[k])
    /\ \A j \in DOMAIN stream, k \in DOMAIN outbox :
          stream[j].kind # "notification" => stream[j].id < outbox[k].id
    /\ \A j, k \in DOMAIN outbox : j < k => outbox[j].id < outbox[k].id

AnswerInv ==
    /\ hup => outbox = <<>>
    /\ cpc = "error" => result_state # "ok"
    /\ result_state \notin FatalResults => PendingInv /\ OrderInv

\* A fatal result stays: no call is made after it.
LEMMA FatalStays ==
    ASSUME TypeOK, WaitInv, [Next]_vars, result_state \in FatalResults
    PROVE  result_state' \in FatalResults
<1>1. CASE Worker \/ Daemon \/ CallRead \/ UNCHANGED vars
  BY <1>1, StreamCases DEF call
<1>2. CASE CallProcess \/ CallSend \/ CallCapture \/ CallCaptureTimeout \/ CallReadEnd \/ CallReadTimeout
  BY <1>2 DEF CallProcess, CallSend, CallCapture, CallCaptureTimeout, CallReadEnd, CallReadTimeout,
              Reading, WaitInv
<1>3. CASE DeinitJoin \/ CallError \/ CallFinish \/ DeinitBegin \/ \E c \in Commands : CallBegin(c)
  BY <1>3 DEF DeinitJoin, CallError, CallFinish, DeinitBegin, CallBegin, call
<1> QED
  BY <1>1, <1>2, <1>3, CallCases

\* What is left of a stream and of the requests is part of what was there.
Shrinks ==
    /\ outbox' = outbox \/ outbox' = <<>>
    /\ \E f \in [DOMAIN stream' -> DOMAIN stream] :
          /\ \A k \in DOMAIN stream' : stream'[k] = stream[f[k]]
          /\ \A j, k \in DOMAIN stream' : j < k => f[j] < f[k]

LEMMA ShrinkCases ==
    ASSUME TypeOK, [Next]_vars
    PROVE  DaemonAnswer \/ DaemonNotify \/ CallSend \/ Shrinks
<1>0. Len(stream) \in Nat /\ DOMAIN stream = 1..Len(stream)
  BY StreamFacts
<1>1. ASSUME outbox' = outbox \/ outbox' = <<>>, stream' = stream
      PROVE  Shrinks
  <2> DEFINE f == [k \in DOMAIN stream |-> k]
  <2>1. /\ f \in [DOMAIN stream' -> DOMAIN stream]
        /\ \A k \in DOMAIN stream' : stream'[k] = stream[f[k]]
        /\ \A j, k \in DOMAIN stream' : j < k => f[j] < f[k]
    BY <1>0, <1>1
  <2> HIDE DEF f
  <2> QED
    BY <1>1, <2>1 DEF Shrinks
<1>2. ASSUME stream' = <<>>, outbox' = <<>>
      PROVE  Shrinks
  <2> DEFINE f == [k \in {} |-> 1]
  <2>1. DOMAIN stream' = {} /\ f \in [DOMAIN stream' -> DOMAIN stream]
    BY <1>2
  <2> HIDE DEF f
  <2> QED
    BY <1>2, <2>1 DEF Shrinks
<1>3. CASE WorkerHandle \/ CallProcess
  <2> DEFINE f == [k \in 1..(Len(stream) - 1) |-> k + 1]
  <2>1. buffer # <<>> /\ buffer' = Tail(buffer) /\ inbox' = inbox /\ outbox' = outbox
    BY <1>3 DEF WorkerHandle, CallProcess, link
  <2>2. /\ Len(stream) > 0 /\ DOMAIN stream' = 1..(Len(stream) - 1)
        /\ \A k \in 1..(Len(stream) - 1) : stream'[k] = stream[k + 1]
    BY <2>1, TakeFacts
  <2>3. /\ f \in [DOMAIN stream' -> DOMAIN stream]
        /\ \A k \in DOMAIN stream' : stream'[k] = stream[f[k]]
        /\ \A j, k \in DOMAIN stream' : j < k => f[j] < f[k]
    BY <1>0, <2>2
  <2> HIDE DEF f
  <2> QED
    BY <2>1, <2>3 DEF Shrinks
<1>4. CASE DaemonCrash \/ DeinitJoin
  <2>1. PICK n \in 0..Len(inbox) : inbox' = SubSeq(inbox, 1, n)
    <3>1. 0 \in 0..Len(inbox) /\ SubSeq(inbox, 1, 0) = <<>>
      BY DEF TypeOK
    <3>2. CASE DaemonCrash
      BY <3>2 DEF DaemonCrash
    <3>3. CASE DeinitJoin
      BY <3>1, <3>3 DEF DeinitJoin
    <3> QED
      BY <1>4, <3>2, <3>3
  <2>2. buffer' = buffer /\ outbox' = <<>>
    BY <1>4 DEF DaemonCrash, DeinitJoin, parser
  <2> DEFINE f == [k \in 1..Len(stream') |-> k]
  <2>3. /\ Len(stream') \in 0..Len(stream) /\ DOMAIN stream' = 1..Len(stream')
        /\ \A k \in 1..Len(stream') : stream'[k] = stream[k]
    BY <2>1, <2>2, CutFacts
  <2>4. /\ f \in [DOMAIN stream' -> DOMAIN stream]
        /\ \A k \in DOMAIN stream' : stream'[k] = stream[f[k]]
        /\ \A j, k \in DOMAIN stream' : j < k => f[j] < f[k]
    BY <1>0, <2>3
  <2> HIDE DEF f
  <2> QED
    BY <2>2, <2>4 DEF Shrinks
<1>5. CASE Worker \/ Daemon \/ CallRead \/ UNCHANGED vars
  BY <1>1, <1>2, <1>3, <1>4, <1>5, StreamCases
<1> QED
  BY <1>1, <1>3, <1>4, <1>5, CallCases

\* The facts about requests and messages that the steps below use.
LEMMA RequestFacts ==
    ASSUME TypeOK
    PROVE  /\ Len(stream) \in Nat /\ DOMAIN stream = 1..Len(stream)
           /\ \A k \in DOMAIN stream : stream[k].id \in Nat
           /\ Len(outbox) \in Nat /\ DOMAIN outbox = 1..Len(outbox)
           /\ \A k \in DOMAIN outbox : outbox[k] \in Requests /\ outbox[k].id \in Nat
           /\ outbox # <<>> => /\ Head(outbox) = outbox[1] /\ 1 \in DOMAIN outbox
                               /\ DOMAIN Tail(outbox) = 1..(Len(outbox) - 1)
                               /\ \A k \in 1..(Len(outbox) - 1) : Tail(outbox)[k] = outbox[k + 1]
           /\ \A r \in Requests : /\ DOMAIN Append(outbox, r) = 1..(Len(outbox) + 1)
                                  /\ Append(outbox, r)[Len(outbox) + 1] = r
                                  /\ \A k \in 1..Len(outbox) : Append(outbox, r)[k] = outbox[k]
           /\ calls \in Nat
<1>1. outbox \in Seq(Requests) /\ Len(outbox) \in Nat /\ calls \in Nat
  BY DEF TypeOK
<1>2. \A r \in Requests : r.id \in Nat
  BY DEF Requests
<1>3. \A k \in DOMAIN outbox : outbox[k] \in Requests
  BY <1>1
<1>4. outbox # <<>> => /\ Head(outbox) = outbox[1] /\ 1 \in DOMAIN outbox
                       /\ DOMAIN Tail(outbox) = 1..(Len(outbox) - 1)
                       /\ \A k \in 1..(Len(outbox) - 1) : Tail(outbox)[k] = outbox[k + 1]
  BY <1>1
<1>5. ASSUME NEW r \in Requests
      PROVE  /\ DOMAIN Append(outbox, r) = 1..(Len(outbox) + 1)
             /\ Append(outbox, r)[Len(outbox) + 1] = r
             /\ \A k \in 1..Len(outbox) : Append(outbox, r)[k] = outbox[k]
  BY <1>1
<1>6. /\ Len(stream) \in Nat /\ DOMAIN stream = 1..Len(stream)
      /\ \A k \in DOMAIN stream : stream[k].id \in Nat
  BY StreamFacts
<1> QED
  BY <1>1, <1>2, <1>3, <1>4, <1>5, <1>6

\* What an answer adds to the stream.
LEMMA AnswerArrives ==
    ASSUME TypeOK, DaemonAnswer
    PROVE  /\ outbox # <<>> /\ outbox' = Tail(outbox) /\ Head(outbox) \in Requests
           /\ UNCHANGED <<threads, handoff, socket_fd, hup, parser, call, peer, history>>
           /\ \E a \in Answers(Head(outbox)) :
                 /\ Len(a) \in Nat /\ Len(stream') = Len(stream) + Len(a)
                 /\ DOMAIN stream' = 1..(Len(stream) + Len(a))
                 /\ \A k \in 1..Len(stream) : stream'[k] = stream[k]
                 /\ \A k \in 1..Len(a) : stream'[Len(stream) + k] = a[k]
                 /\ \A k \in DOMAIN stream' : k \in 1..Len(stream) \/ \E j \in 1..Len(a) : k = Len(stream) + j
<1>1. /\ outbox # <<>> /\ outbox' = Tail(outbox) /\ Head(outbox) \in Requests
      /\ UNCHANGED <<threads, handoff, socket_fd, hup, parser, call, peer, history>>
  BY RequestFacts DEF DaemonAnswer
<1>2. PICK a \in Answers(Head(outbox)) : inbox' = inbox \o a
  BY DEF DaemonAnswer
<1>3. a \in Seq(Messages) /\ Len(a) \in Nat /\ buffer' = buffer
  BY <1>1, <1>2, AnswerFacts DEF parser
<1>4. /\ Len(stream') = Len(stream) + Len(a)
      /\ DOMAIN stream' = 1..(Len(stream) + Len(a))
      /\ \A k \in 1..Len(stream) : stream'[k] = stream[k]
      /\ \A k \in 1..Len(a) : stream'[Len(stream) + k] = a[k]
  BY <1>2, <1>3, ArriveFacts
<1>5. ASSUME NEW k \in DOMAIN stream', k \notin 1..Len(stream)
      PROVE  \E j \in 1..Len(a) : k = Len(stream) + j
  <2>1. k - Len(stream) \in 1..Len(a) /\ k = Len(stream) + (k - Len(stream))
    BY <1>3, <1>4, <1>5, RequestFacts
  <2> QED
    BY <2>1
<1> QED
  BY <1>1, <1>2, <1>3, <1>4, <1>5

\* What a notification adds to the stream.
LEMMA NotificationArrives ==
    ASSUME TypeOK, DaemonNotify
    PROVE  /\ outbox' = outbox /\ Len(stream') = Len(stream) + 1
           /\ DOMAIN stream' = 1..(Len(stream) + 1)
           /\ \A k \in 1..Len(stream) : stream'[k] = stream[k]
           /\ stream'[Len(stream) + 1].kind = "notification"
           /\ \A k \in DOMAIN stream' : k \in 1..Len(stream) \/ k = Len(stream) + 1
<1> DEFINE m == Msg("notification", "none", sent + 1)
<1>1. m \in Messages /\ m.kind = "notification"
  BY DEF Msg, Messages, MessageKinds, TypeOK
<1>2. inbox' = Append(inbox, m) /\ buffer' = buffer /\ outbox' = outbox
  BY DEF DaemonNotify, parser
<1> HIDE DEF m
<1>3. PICK a \in Seq(Messages) : a = <<m>>
  <2>1. <<m>> \in Seq(Messages)
    BY <1>1
  <2> QED
    BY <2>1
<1>4. Len(a) = 1 /\ a[1] = m /\ 1 \in 1..Len(a) /\ inbox' = inbox \o a
  BY <1>1, <1>2, <1>3 DEF TypeOK
<1>5. /\ Len(stream') = Len(stream) + Len(a) /\ DOMAIN stream' = 1..(Len(stream) + Len(a))
      /\ \A k \in 1..Len(stream) : stream'[k] = stream[k]
      /\ \A k \in 1..Len(a) : stream'[Len(stream) + k] = a[k]
  BY <1>2, <1>4, ArriveFacts
<1>6. Len(stream) \in Nat
  BY StreamFacts
<1> QED
  BY <1>1, <1>2, <1>4, <1>5, <1>6

\* Every step keeps requests and answers in order.
LEMMA OrderStep ==
    ASSUME TypeOK, AnswerInv, result_state \notin FatalResults, [Next]_vars
    PROVE  OrderInv'
<1>0. /\ PendingInv /\ OrderInv
      /\ Len(stream) \in Nat /\ DOMAIN stream = 1..Len(stream)
      /\ \A k \in DOMAIN stream : stream[k].id \in Nat
      /\ Len(outbox) \in Nat /\ DOMAIN outbox = 1..Len(outbox)
      /\ \A k \in DOMAIN outbox : outbox[k].id \in Nat
      /\ calls \in Nat
  BY RequestFacts DEF AnswerInv
<1>1. CASE Shrinks
  <2>1. outbox' = <<>> => DOMAIN outbox' = {}
    OBVIOUS
  <2> QED
    BY <1>0, <1>1, <2>1 DEF Shrinks, OrderInv
<1>2. CASE DaemonNotify
  BY <1>0, <1>2, NotificationArrives DEF OrderInv, InOrder
<1>3. CASE CallSend
  <2>1. cpc = "owner" /\ stream' = stream
    BY <1>3 DEF CallSend, parser, stream
  <2>2. CASE outbox' = outbox
    BY <1>0, <2>1, <2>2 DEF OrderInv
  <2>3. CASE outbox' = Append(outbox, [cmd |-> command, id |-> calls])
    <3> DEFINE r == [cmd |-> command, id |-> calls]
    <3>1. r \in Requests /\ r.id = calls
      BY <1>0, <2>1 DEF TypeOK, Requests
    <3> HIDE DEF r
    <3>2. /\ DOMAIN outbox' = 1..(Len(outbox) + 1) /\ outbox'[Len(outbox) + 1] = r
          /\ \A k \in 1..Len(outbox) : outbox'[k] = outbox[k]
      BY <2>3, <3>1, RequestFacts DEF r
    <3>3. /\ \A k \in DOMAIN outbox : outbox[k].id < calls
          /\ \A k \in DOMAIN stream : stream[k].kind # "notification" => stream[k].id < calls
      BY <1>0, <2>1 DEF PendingInv, Pending
    <3>4. \A j, k \in DOMAIN stream' : j < k => InOrder(stream'[j], stream'[k])
      BY <1>0, <2>1 DEF OrderInv
    <3>5. \A k \in DOMAIN outbox' : k \in DOMAIN outbox \/ k = Len(outbox) + 1
      BY <1>0, <3>2
    <3>6. \A j \in DOMAIN stream', k \in DOMAIN outbox' :
              stream'[j].kind # "notification" => stream'[j].id < outbox'[k].id
      BY <1>0, <2>1, <3>1, <3>2, <3>3, <3>5 DEF OrderInv
    <3>7. \A j, k \in DOMAIN outbox' : j < k => outbox'[j].id < outbox'[k].id
      <4> TAKE j, k \in DOMAIN outbox'
      <4> HAVE j < k
      <4>1. j \in DOMAIN outbox
        BY <1>0, <3>2, <3>5
      <4>2. CASE k \in DOMAIN outbox
        BY <1>0, <3>2, <4>1, <4>2 DEF OrderInv
      <4>3. CASE k = Len(outbox) + 1
        BY <1>0, <3>1, <3>2, <3>3, <4>1, <4>3
      <4> QED
        BY <3>5, <4>2, <4>3
    <3> QED
      BY <3>4, <3>6, <3>7 DEF OrderInv
  <2> QED
    BY <1>3, <2>2, <2>3 DEF CallSend
<1>4. CASE DaemonAnswer
  <2>1. /\ outbox # <<>> /\ outbox' = Tail(outbox) /\ Head(outbox) \in Requests /\ Head(outbox) = outbox[1]
        /\ DOMAIN outbox' = 1..(Len(outbox) - 1) /\ 1 \in DOMAIN outbox
        /\ \A k \in 1..(Len(outbox) - 1) : outbox'[k] = outbox[k + 1]
    BY <1>4, AnswerArrives, RequestFacts
  <2>2. PICK a \in Answers(Head(outbox)) :
                 /\ Len(a) \in Nat /\ DOMAIN stream' = 1..(Len(stream) + Len(a))
                 /\ \A k \in 1..Len(stream) : stream'[k] = stream[k]
                 /\ \A k \in 1..Len(a) : stream'[Len(stream) + k] = a[k]
                 /\ \A k \in DOMAIN stream' : k \in 1..Len(stream) \/ \E j \in 1..Len(a) : k = Len(stream) + j
    BY <1>4, AnswerArrives
  <2>3. \A j \in 1..Len(a) : a[j].id = outbox[1].id /\ (Final(a[j]) <=> j = Len(a))
    BY <2>1, <2>2, AnswerFacts
  <2>4. \A j \in DOMAIN stream : stream[j].kind # "notification" => stream[j].id < outbox[1].id
    BY <1>0, <2>1 DEF OrderInv
  <2>5. \A k \in DOMAIN outbox' : k + 1 \in DOMAIN outbox /\ outbox'[k] = outbox[k + 1]
                                  /\ outbox[1].id < outbox[k + 1].id
    BY <1>0, <2>1 DEF OrderInv
  <2>6. ASSUME NEW j \in DOMAIN stream', NEW k \in DOMAIN stream', j < k
        PROVE  InOrder(stream'[j], stream'[k])
    <3>1. CASE k \in 1..Len(stream)
      <4>1. j \in 1..Len(stream)
        BY <1>0, <2>2, <2>6, <3>1
      <4> QED
        BY <1>0, <2>2, <2>6, <3>1, <4>1 DEF OrderInv
    <3>2. ASSUME j \in 1..Len(stream), NEW l \in 1..Len(a), k = Len(stream) + l
          PROVE  InOrder(stream'[j], stream'[k])
      <4>1. stream'[j] = stream[j] /\ stream'[k] = a[l] /\ a[l].id = outbox[1].id
        BY <2>2, <2>3, <3>2
      <4>2. stream[j].kind # "notification" => stream[j].id < outbox[1].id /\ stream[j].id \in Nat
        BY <1>0, <2>4, <3>2
      <4>3. outbox[1].id \in Nat
        BY <1>0, <2>1
      <4> QED
        BY <4>1, <4>2, <4>3 DEF InOrder
    <3>3. ASSUME NEW i \in 1..Len(a), j = Len(stream) + i, NEW l \in 1..Len(a), k = Len(stream) + l
          PROVE  InOrder(stream'[j], stream'[k])
      <4>a. i < l
        BY <1>0, <2>2, <2>6, <3>3
      <4>0. i # Len(a)
        BY <2>2, <4>a
      <4>b. outbox[1].id \in Nat
        BY <1>0, <2>1
      <4>1. ~Final(a[i]) /\ a[i].id = outbox[1].id /\ a[l].id = outbox[1].id /\ outbox[1].id \in Nat
        BY <2>3, <4>0, <4>b
      <4> QED
        BY <2>2, <3>3, <4>1 DEF InOrder
    <3> QED
      BY <1>0, <2>2, <2>6, <3>1, <3>2, <3>3
  <2>7. ASSUME NEW j \in DOMAIN stream', NEW k \in DOMAIN outbox', stream'[j].kind # "notification"
        PROVE  stream'[j].id < outbox'[k].id
    <3>1. CASE j \in 1..Len(stream)
      BY <1>0, <2>2, <2>5, <2>7, <3>1 DEF OrderInv
    <3>2. ASSUME NEW i \in 1..Len(a), j = Len(stream) + i
          PROVE  stream'[j].id < outbox'[k].id
      BY <2>2, <2>3, <2>5, <2>7, <3>2
    <3> QED
      BY <2>2, <3>1, <3>2
  <2>8. ASSUME NEW j \in DOMAIN outbox', NEW k \in DOMAIN outbox', j < k
        PROVE  outbox'[j].id < outbox'[k].id
    <3>1. j + 1 \in DOMAIN outbox /\ k + 1 \in DOMAIN outbox /\ j + 1 < k + 1
      BY <1>0, <2>1, <2>8
    <3> QED
      BY <1>0, <2>5, <3>1 DEF OrderInv
  <2> QED
    BY <2>6, <2>7, <2>8 DEF OrderInv
<1> QED
  BY <1>1, <1>2, <1>3, <1>4, ShrinkCases

\* The answer that ends a call is its own or a late one.
LEMMA TakenAnswer ==
    ASSUME TypeOK, AnswerInv, CallProcess, cpc' # "process", result_state' \notin FatalResults,
           result_state \notin FatalResults
    PROVE  /\ cpc' = "finish" /\ Head(buffer).cmd = command /\ Final(Head(buffer))
           /\ Head(buffer).id \in Nat /\ Head(buffer).id <= calls
           /\ Head(buffer).id = calls \/ Late(command, Head(buffer).id)
           /\ result_state' = "ok" => answered' = Head(buffer).id
<1> DEFINE m == Head(buffer)
<1>1. cpc = "process" /\ buffer # <<>> /\ buffer' = Tail(buffer) /\ inbox' = inbox
  BY DEF CallProcess, link
<1>2. stream[1] = m /\ Len(stream) > 0 /\ 1 \in DOMAIN stream
  BY <1>1, TakeFacts, StreamFacts
<1>3. /\ cpc' = "finish" /\ (IsSuccess(m) \/ IsFailure(m))
      /\ result_state' = "ok" => answered' = m.id
  <2>1. ASSUME IsSuccess(m), IF EmptyRootList THEN Leave("invalid_state") /\ UNCHANGED answered
                                              ELSE Leave("ok") /\ answered' = m.id
        PROVE  cpc' = "finish" /\ (result_state' = "ok" => answered' = m.id)
    BY <2>1 DEF Leave, FatalResults
  <2>2. ASSUME IsFailure(m), Leave("command_failed")
        PROVE  cpc' = "finish" /\ result_state' # "ok"
    BY <2>2 DEF Leave, FatalResults
  <2>3. \/ IsSuccess(m) /\ IF EmptyRootList THEN Leave("invalid_state") /\ UNCHANGED answered
                                            ELSE Leave("ok") /\ answered' = m.id
        \/ IsFailure(m) /\ Leave("command_failed")
    BY <1>1 DEF CallProcess, Leave, FatalResults
  <2> QED
    BY <2>1, <2>2, <2>3
<1>4. m.cmd = command /\ Final(m) /\ m.kind # "notification"
  BY <1>3 DEF IsSuccess, IsFailure, Final
<1>5. Pending(m.cmd, m.id) /\ m.id \in Nat
  BY <1>2, <1>4, RequestFacts DEF AnswerInv, PendingInv
<1> QED
  BY <1>3, <1>4, <1>5, RequestFacts DEF Pending

\* Every step keeps the requests and answers those of the call in progress or of
\* calls whose answers come late.
LEMMA PendingStep ==
    ASSUME TypeOK, AnswerInv, [Next]_vars, result_state \notin FatalResults, result_state' \notin FatalResults
    PROVE  PendingInv'
<1>0. /\ PendingInv /\ OrderInv /\ (hup => outbox = <<>>)
      /\ Len(stream) \in Nat /\ DOMAIN stream = 1..Len(stream)
      /\ \A k \in DOMAIN stream : stream[k].id \in Nat
      /\ Len(outbox) \in Nat /\ DOMAIN outbox = 1..Len(outbox)
      /\ \A k \in DOMAIN outbox : outbox[k].id \in Nat
      /\ calls \in Nat
  BY RequestFacts DEF AnswerInv
<1>1. ASSUME \A k \in DOMAIN stream' : stream'[k].kind # "notification" =>
                 \E c : \E id \in Nat : stream'[k].cmd = c /\ stream'[k].id = id /\ Pending(c, id)',
             \A k \in DOMAIN outbox' :
                 \E c : \E id \in Nat : outbox'[k].cmd = c /\ outbox'[k].id = id /\ Pending(c, id)'
      PROVE  PendingInv'
  <2>1. ASSUME NEW k \in DOMAIN stream', stream'[k].kind # "notification"
        PROVE  Pending(stream[k].cmd, stream[k].id)'
    BY <1>1, <2>1 DEF Pending, Late
  <2>2. ASSUME NEW k \in DOMAIN outbox'
        PROVE  Pending(outbox[k].cmd, outbox[k].id)'
    BY <1>1, <2>2 DEF Pending, Late
  <2> QED
    BY <2>1, <2>2 DEF PendingInv
<1>2. ASSUME Shrinks, \A c : \A id \in Nat : Pending(c, id) => Pending(c, id)'
      PROVE  PendingInv'
  <2>1. PICK f \in [DOMAIN stream' -> DOMAIN stream] : \A k \in DOMAIN stream' : stream'[k] = stream[f[k]]
    BY <1>2 DEF Shrinks
  <2>2. ASSUME NEW k \in DOMAIN stream', stream'[k].kind # "notification"
        PROVE  \E c : \E id \in Nat : stream'[k].cmd = c /\ stream'[k].id = id /\ Pending(c, id)'
    <3>1. f[k] \in DOMAIN stream /\ stream'[k] = stream[f[k]] /\ stream[f[k]].id \in Nat
      BY <1>0, <2>1
    <3>2. PICK c, id : c = stream[f[k]].cmd /\ id = stream[f[k]].id
      OBVIOUS
    <3>3. Pending(c, id)
      BY <1>0, <2>2, <3>1, <3>2 DEF PendingInv
    <3> QED
      BY <1>2, <3>1, <3>2, <3>3
  <2>3. ASSUME NEW k \in DOMAIN outbox'
        PROVE  \E c : \E id \in Nat : outbox'[k].cmd = c /\ outbox'[k].id = id /\ Pending(c, id)'
    <3>0. outbox' = <<>> => DOMAIN outbox' = {}
      OBVIOUS
    <3>1. outbox' = outbox /\ k \in DOMAIN outbox /\ outbox[k].id \in Nat
      BY <1>0, <1>2, <2>3, <3>0 DEF Shrinks
    <3>2. PICK c, id : c = outbox[k].cmd /\ id = outbox[k].id
      OBVIOUS
    <3>3. Pending(c, id)
      BY <1>0, <3>1, <3>2 DEF PendingInv
    <3> QED
      BY <1>2, <3>1, <3>2, <3>3
  <2> QED
    BY <1>1, <2>2, <2>3
<1>3. ASSUME UNCHANGED <<cpc, calls, command, abandoned>>
      PROVE  \A c : \A id \in Nat : Pending(c, id) => Pending(c, id)'
  BY <1>3 DEF Pending, Late
<1>4. CASE DaemonNotify
  <2>1. UNCHANGED <<cpc, calls, command, abandoned>>
    BY <1>4 DEF DaemonNotify, threads, call
  <2>2. ASSUME NEW k \in DOMAIN stream', stream'[k].kind # "notification"
        PROVE  \E c : \E id \in Nat : stream'[k].cmd = c /\ stream'[k].id = id /\ Pending(c, id)'
    <3>1. k \in DOMAIN stream /\ stream'[k] = stream[k] /\ stream[k].id \in Nat
      BY <1>0, <1>4, <2>2, NotificationArrives
    <3>2. PICK c, id : c = stream[k].cmd /\ id = stream[k].id
      OBVIOUS
    <3>3. Pending(c, id)
      BY <1>0, <2>2, <3>1, <3>2 DEF PendingInv
    <3> QED
      BY <1>3, <2>1, <3>1, <3>2, <3>3
  <2>3. ASSUME NEW k \in DOMAIN outbox'
        PROVE  \E c : \E id \in Nat : outbox'[k].cmd = c /\ outbox'[k].id = id /\ Pending(c, id)'
    <3>1. outbox' = outbox /\ k \in DOMAIN outbox /\ outbox[k].id \in Nat
      BY <1>0, <1>4, <2>3, NotificationArrives
    <3>2. PICK c, id : c = outbox[k].cmd /\ id = outbox[k].id
      OBVIOUS
    <3>3. Pending(c, id)
      BY <1>0, <3>1, <3>2 DEF PendingInv
    <3> QED
      BY <1>3, <2>1, <3>1, <3>2, <3>3
  <2> QED
    BY <1>1, <2>2, <2>3
<1>5. CASE DaemonAnswer
  <2>1. /\ UNCHANGED <<cpc, calls, command, abandoned>> /\ 1 \in DOMAIN outbox
        /\ outbox # <<>> /\ outbox' = Tail(outbox) /\ Head(outbox) \in Requests /\ Head(outbox) = outbox[1]
        /\ DOMAIN outbox' = 1..(Len(outbox) - 1)
        /\ \A k \in 1..(Len(outbox) - 1) : outbox'[k] = outbox[k + 1]
    BY <1>5, AnswerArrives, RequestFacts DEF threads, call, history
  <2>2. PICK a \in Answers(Head(outbox)) :
                 /\ \A k \in 1..Len(stream) : stream'[k] = stream[k]
                 /\ \A k \in 1..Len(a) : stream'[Len(stream) + k] = a[k]
                 /\ \A k \in DOMAIN stream' : k \in 1..Len(stream) \/ \E j \in 1..Len(a) : k = Len(stream) + j
    BY <1>5, AnswerArrives
  <2>3. \A j \in 1..Len(a) : a[j].id = outbox[1].id /\ a[j].cmd = outbox[1].cmd
    BY <2>1, <2>2, AnswerFacts
  <2>4. ASSUME NEW k \in DOMAIN stream', stream'[k].kind # "notification"
        PROVE  \E c : \E id \in Nat : stream'[k].cmd = c /\ stream'[k].id = id /\ Pending(c, id)'
    <3>1. PICK c, id : c = stream'[k].cmd /\ id = stream'[k].id
      OBVIOUS
    <3>2. Pending(c, id) /\ id \in Nat
      <4>1. CASE k \in 1..Len(stream)
        BY <1>0, <2>2, <2>4, <3>1, <4>1 DEF PendingInv
      <4>2. ASSUME NEW j \in 1..Len(a), k = Len(stream) + j
            PROVE  Pending(c, id) /\ id \in Nat
        <5>1. c = outbox[1].cmd /\ id = outbox[1].id
          BY <2>2, <2>3, <3>1, <4>2
        <5> QED
          BY <1>0, <2>1, <5>1 DEF PendingInv
      <4> QED
        BY <2>2, <4>1, <4>2
    <3> QED
      BY <1>3, <2>1, <3>1, <3>2
  <2>5. ASSUME NEW k \in DOMAIN outbox'
        PROVE  \E c : \E id \in Nat : outbox'[k].cmd = c /\ outbox'[k].id = id /\ Pending(c, id)'
    <3>1. k + 1 \in DOMAIN outbox /\ outbox'[k] = outbox[k + 1] /\ outbox[k + 1].id \in Nat
      BY <1>0, <2>1
    <3>2. PICK c, id : c = outbox[k + 1].cmd /\ id = outbox[k + 1].id
      OBVIOUS
    <3>3. Pending(c, id)
      BY <1>0, <3>1, <3>2 DEF PendingInv
    <3> QED
      BY <1>3, <2>1, <3>1, <3>2, <3>3
  <2> QED
    BY <1>1, <2>4, <2>5
<1>6. CASE CallSend
  <2>1. cpc = "owner" /\ stream' = stream /\ UNCHANGED <<calls, command, abandoned>>
    BY <1>6 DEF CallSend, parser, history, stream
  <2>2. \A c : \A id \in Nat : Pending(c, id) => Pending(c, id)'
    BY <2>1, <1>6 DEF Pending, Late, CallSend, Leave
  <2>3. ASSUME NEW k \in DOMAIN stream', stream'[k].kind # "notification"
        PROVE  \E c : \E id \in Nat : stream'[k].cmd = c /\ stream'[k].id = id /\ Pending(c, id)'
    <3>1. PICK c, id : c = stream[k].cmd /\ id = stream[k].id
      OBVIOUS
    <3>2. k \in DOMAIN stream /\ stream[k].kind # "notification" /\ id \in Nat
      BY <1>0, <2>1, <2>3, <3>1
    <3>3. Pending(c, id)
      BY <1>0, <3>1, <3>2 DEF PendingInv
    <3> QED
      BY <2>1, <2>2, <3>1, <3>2, <3>3
  <2>4. ASSUME NEW k \in DOMAIN outbox, outbox'[k] = outbox[k]
        PROVE  \E c : \E id \in Nat : outbox'[k].cmd = c /\ outbox'[k].id = id /\ Pending(c, id)'
    <3>1. PICK c, id : c = outbox[k].cmd /\ id = outbox[k].id
      OBVIOUS
    <3>2. Pending(c, id) /\ id \in Nat
      BY <1>0, <3>1 DEF PendingInv
    <3> QED
      BY <2>2, <2>4, <3>1, <3>2
  <2>5. CASE outbox' = outbox
    BY <1>1, <2>3, <2>4, <2>5
  <2>6. CASE cpc' = "process" /\ outbox' = Append(outbox, [cmd |-> command, id |-> calls])
    <3> DEFINE r == [cmd |-> command, id |-> calls]
    <3>1. r \in Requests /\ r.id = calls /\ r.cmd = command
      BY <1>0, <2>1 DEF TypeOK, Requests
    <3> HIDE DEF r
    <3>2. /\ DOMAIN outbox' = 1..(Len(outbox) + 1) /\ outbox'[Len(outbox) + 1] = r
          /\ \A k \in 1..Len(outbox) : outbox'[k] = outbox[k]
      BY <2>6, <3>1, RequestFacts DEF r
    <3>3. Pending(command, calls)'
      BY <2>6 DEF Pending
    <3>4. PICK c, id : c = command /\ id = calls /\ Pending(c, id)'
      BY <2>1, <3>3 DEF Pending, Late
    <3>5. ASSUME NEW k \in DOMAIN outbox'
          PROVE  \E d : \E i \in Nat : outbox'[k].cmd = d /\ outbox'[k].id = i /\ Pending(d, i)'
      <4>1. k \in DOMAIN outbox \/ k = Len(outbox) + 1
        BY <1>0, <3>2
      <4>2. CASE k = Len(outbox) + 1
        BY <1>0, <3>1, <3>2, <3>4, <4>2
      <4> QED
        BY <1>0, <2>4, <3>2, <4>1, <4>2
    <3> QED
      BY <1>1, <2>3, <3>5
  <2> QED
    BY <1>6, <2>5, <2>6 DEF CallSend
<1>7. CASE CallProcess
  <2>1. /\ cpc = "process" /\ buffer # <<>> /\ buffer' = Tail(buffer) /\ inbox' = inbox
        /\ outbox' = outbox /\ UNCHANGED <<calls, command, abandoned>>
    BY <1>7 DEF CallProcess, link
  <2>2. CASE cpc' = "process"
    <3>1. Shrinks
      BY <1>7, <2>1, ShrinkCases DEF DaemonAnswer, DaemonNotify, CallSend, threads, parser, history
    <3> QED
      BY <1>2, <1>3, <2>1, <2>2, <3>1
  <2>3. CASE cpc' # "process"
    <3> DEFINE h == Head(buffer)
    <3>1. /\ cpc' = "finish" /\ h.cmd = command /\ Final(h) /\ h.id \in Nat /\ h.id <= calls
          /\ h.id = calls \/ Late(command, h.id)
      BY <1>7, <2>3, TakenAnswer
    <3>2. /\ stream[1] = h /\ Len(stream) > 0 /\ DOMAIN stream' = 1..(Len(stream) - 1)
          /\ \A k \in 1..(Len(stream) - 1) : stream'[k] = stream[k + 1]
      BY <2>1, TakeFacts
    <3> HIDE DEF h
    <3>3. ASSUME NEW c, NEW id \in Nat, Pending(c, id), h.id < id
          PROVE  Pending(c, id)'
      <4>1. id <= calls /\ (Late(c, id) \/ c = command)
        BY <1>0, <3>3 DEF Pending
      <4>2. h.id # calls
        BY <1>0, <3>1, <3>3, <4>1
      <4>3. Late(c, id)
        <5>1. CASE c = command
          <6>1. PICK r \in abandoned : r.cmd = command /\ r.id <= h.id
            BY <3>1, <4>2 DEF Late
          <6>2. r.id \in Nat
            BY <6>1 DEF TypeOK, Requests
          <6> QED
            BY <3>1, <3>3, <5>1, <6>1, <6>2 DEF Late
        <5> QED
          BY <4>1, <5>1
      <4> QED
        BY <2>1, <3>1, <4>1, <4>3 DEF Pending, Late
    <3>4. ASSUME NEW k \in DOMAIN stream', stream'[k].kind # "notification"
          PROVE  \E c : \E id \in Nat : stream'[k].cmd = c /\ stream'[k].id = id /\ Pending(c, id)'
      <4>1. k + 1 \in DOMAIN stream /\ stream'[k] = stream[k + 1] /\ 1 \in DOMAIN stream /\ 1 < k + 1
        BY <1>0, <3>2
      <4>2. h.kind # "notification"
        BY <3>1 DEF Final
      <4>3. h.id < stream[k + 1].id
        BY <1>0, <3>1, <3>2, <3>4, <4>1, <4>2 DEF OrderInv, InOrder
      <4>4. PICK c, id : c = stream[k + 1].cmd /\ id = stream[k + 1].id
        OBVIOUS
      <4>5. Pending(c, id) /\ id \in Nat
        BY <1>0, <3>4, <4>1, <4>4 DEF PendingInv
      <4> QED
        BY <3>3, <4>1, <4>3, <4>4, <4>5
    <3>5. ASSUME NEW k \in DOMAIN outbox'
          PROVE  \E c : \E id \in Nat : outbox'[k].cmd = c /\ outbox'[k].id = id /\ Pending(c, id)'
      <4>1. 1 \in DOMAIN stream /\ h.kind # "notification"
        BY <1>0, <3>1, <3>2 DEF Final
      <4>2. h.id < outbox[k].id
        BY <1>0, <2>1, <3>2, <3>5, <4>1 DEF OrderInv
      <4>3. PICK c, id : c = outbox[k].cmd /\ id = outbox[k].id
        OBVIOUS
      <4>4. Pending(c, id) /\ id \in Nat
        BY <1>0, <2>1, <3>5, <4>3 DEF PendingInv
      <4> QED
        BY <2>1, <3>3, <4>2, <4>3, <4>4
    <3> QED
      BY <1>1, <3>4, <3>5
  <2> QED
    BY <2>2, <2>3
<1>8. CASE Worker \/ Daemon \/ CallRead \/ UNCHANGED vars
  <2>1. UNCHANGED <<cpc, calls, command, abandoned>>
    BY <1>8, StreamCases DEF call
  <2> QED
    BY <1>2, <1>3, <1>4, <1>5, <1>6, <2>1, ShrinkCases
<1>9. CASE CallReadEnd
  <2>1. buffer' = <<>> /\ inbox' = <<>> /\ outbox' = <<>>
    BY <1>0, <1>9 DEF CallReadEnd, Reading, link, parser
  <2>2. DOMAIN stream' = {} /\ DOMAIN outbox' = {}
    BY <2>1 DEF stream
  <2> QED
    BY <1>1, <2>2
<1>10. CASE \/ (\E c \in Commands : CallBegin(c)) \/ CallCapture \/ CallCaptureTimeout
            \/ CallReadTimeout \/ CallError \/ CallFinish \/ DeinitBegin \/ DeinitJoin
  <2>1. Shrinks
    <3>1. CASE DeinitJoin
      <4>1. ~DaemonAnswer /\ ~DaemonNotify /\ ~CallSend
        BY <3>1 DEF DeinitJoin, DaemonAnswer, DaemonNotify, CallSend, threads
      <4> QED
        BY <4>1, ShrinkCases
    <3>2. CASE ~DeinitJoin
      <4>1. outbox' = outbox /\ stream' = stream /\ sent' = sent
        BY <1>10, <3>2 DEF CallBegin, CallCapture, CallCaptureTimeout, CallReadTimeout, CallError,
             CallFinish, DeinitBegin, link, parser, stream, history
      <4>2. cpc' # cpc /\ cpc # "owner"
        BY <1>10, <3>2 DEF CallBegin, CallCapture, CallCaptureTimeout, CallReadTimeout, CallError,
             CallFinish, DeinitBegin, Leave, FatalResults, Reading
      <4>3. ~DaemonAnswer /\ ~DaemonNotify /\ ~CallSend
        BY <4>2 DEF DaemonAnswer, DaemonNotify, CallSend, threads
      <4> QED
        BY <4>3, ShrinkCases
    <3> QED
      BY <3>1, <3>2
  <2>2. \A c : \A id \in Nat : Pending(c, id) => Pending(c, id)'
    <3>1. CASE \E c \in Commands : CallBegin(c)
      <4>1. cpc = "idle" /\ cpc' = "capture" /\ calls' = calls + 1 /\ abandoned' = abandoned
        BY <3>1 DEF CallBegin
      <4> QED
        BY <1>0, <4>1 DEF Pending, Late
    <3>2. CASE CallCapture
      BY <3>2 DEF CallCapture, Leave, history, Pending, Late
    <3>3. CASE CallCaptureTimeout
      <4>1. /\ cpc = "capture" /\ cpc' = "finish" /\ calls' = calls
            /\ abandoned' = abandoned \cup {[cmd |-> command, id |-> calls]}
        BY <3>3 DEF CallCaptureTimeout, Leave, FatalResults
      <4> QED
        BY <1>0, <4>1 DEF Pending, Late
    <3>4. CASE CallReadTimeout
      <4>1. /\ cpc = "process" /\ cpc' = "finish" /\ calls' = calls
            /\ abandoned' = abandoned \cup {[cmd |-> command, id |-> calls]}
        BY <3>4 DEF CallReadTimeout, Reading, Leave, FatalResults
      <4>2. \A c : \A id \in Nat : Late(c, id) => Late(c, id)'
        BY <4>1 DEF Late
      <4>3. Late(command, calls)'
        <5>1. [cmd |-> command, id |-> calls] \in abandoned' /\ command' = command
          BY <3>4, <4>1 DEF CallReadTimeout
        <5>2. PICK r \in abandoned' : r.cmd = command' /\ r.id = calls'
          BY <4>1, <5>1
        <5>3. r.id <= calls'
          BY <1>0, <4>1, <5>2
        <5> QED
          BY <5>2, <5>3 DEF Late
      <4>4. \A c : \A id \in Nat : id = calls /\ c = command => Late(c, id)'
        BY <3>4, <4>1, <4>3 DEF Late, CallReadTimeout
      <4> QED
        BY <1>0, <4>1, <4>2, <4>4 DEF Pending
    <3>5. CASE CallError \/ CallFinish \/ DeinitBegin \/ DeinitJoin
      <4>1. /\ cpc \notin {"capture", "owner", "process"} /\ cpc' \notin {"capture", "owner", "process"}
            /\ calls' = calls /\ abandoned' = abandoned
        BY <3>5 DEF CallError, CallFinish, DeinitBegin, DeinitJoin, history
      <4> QED
        BY <1>0, <4>1 DEF Pending, Late
    <3> QED
      BY <1>10, <3>1, <3>2, <3>3, <3>4, <3>5
  <2> QED
    BY <1>2, <2>1, <2>2
<1> QED
  BY <1>6, <1>7, <1>8, <1>9, <1>10, CallCases

LEMMA AnswerStep ==
    ASSUME TypeOK, WaitInv, AnswerInv, [Next]_vars
    PROVE  AnswerInv'
<1>1. hup' => outbox' = <<>>
  <2>1. CASE Worker \/ Daemon \/ CallRead \/ UNCHANGED vars
    <3>1. CASE WorkerHandle \/ DaemonAnswer \/ DaemonNotify \/ DaemonCrash
      BY <3>1 DEF AnswerInv, WorkerHandle, DaemonAnswer, DaemonNotify, DaemonCrash, link
    <3> QED
      BY <2>1, <3>1, StreamCases DEF AnswerInv
  <2>2. CASE CallProcess \/ CallSend \/ DeinitJoin
    BY <2>2 DEF AnswerInv, CallProcess, CallSend, DeinitJoin, link
  <2> QED
    BY <2>1, <2>2, CallCases DEF AnswerInv
<1>2. cpc' = "error" => result_state' # "ok"
  <2>1. CASE Worker \/ Daemon \/ CallRead \/ UNCHANGED vars
    BY <2>1, StreamCases DEF AnswerInv, call
  <2>2. CASE CallProcess
    BY <2>2 DEF CallProcess, Leave, FatalResults
  <2>3. CASE \/ CallSend \/ DeinitJoin \/ (\E c \in Commands : CallBegin(c)) \/ CallCapture
             \/ CallCaptureTimeout \/ CallReadEnd \/ CallReadTimeout \/ CallError \/ CallFinish
             \/ DeinitBegin
    BY <2>3 DEF CallSend, DeinitJoin, CallBegin, CallCapture, CallCaptureTimeout, CallReadEnd,
                CallReadTimeout, CallError, CallFinish, DeinitBegin, Leave, FatalResults
  <2> QED
    BY <2>1, <2>2, <2>3, CallCases
<1>3. result_state' \notin FatalResults => PendingInv' /\ OrderInv'
  <2>1. FatalResults' = FatalResults
    BY DEF FatalResults
  <2> QED
    BY FatalStays, PendingStep, OrderStep
<1> QED
  BY <1>1, <1>2, <1>3 DEF AnswerInv, FatalResults

\* A step that ends a call with dtmd_ok has taken an answer, and until the call
\* returns nothing changes whose answer it was.
LEMMA OwnAnswerStep ==
    ASSUME TypeOK, WaitInv, AnswerInv, OwnAnswer, [Next]_vars
    PROVE  OwnAnswer'
<1> SUFFICES ASSUME cpc' = "finish", result_state' = "ok"
             PROVE  (answered = calls \/ Late(command, answered))'
  BY DEF OwnAnswer
<1>1. CASE Worker \/ Daemon \/ CallRead \/ UNCHANGED vars
  <2>1. UNCHANGED <<cpc, result_state, command, calls, answered, abandoned>>
    BY <1>1, StreamCases DEF call
  <2> QED
    BY <2>1 DEF OwnAnswer, Late
<1>2. CASE CallProcess
  <2>1. /\ cpc = "process" /\ UNCHANGED <<command, calls, abandoned>> /\ result_state \notin FatalResults
        /\ result_state' \notin FatalResults
    BY <1>2 DEF CallProcess, WaitInv, FatalResults
  <2>2. answered' = Head(buffer).id /\ (Head(buffer).id = calls \/ Late(command, Head(buffer).id))
    BY <1>2, <2>1, TakenAnswer
  <2> QED
    BY <2>1, <2>2 DEF Late
<1>3. CASE \/ CallSend \/ DeinitJoin \/ (\E c \in Commands : CallBegin(c)) \/ CallCapture
           \/ CallCaptureTimeout \/ CallReadEnd \/ CallReadTimeout \/ CallError \/ CallFinish
           \/ DeinitBegin
  BY <1>3 DEF AnswerInv, CallSend, DeinitJoin, CallBegin, CallCapture, CallCaptureTimeout, CallReadEnd,
              CallReadTimeout, CallError, CallFinish, DeinitBegin, Leave, FatalResults, call
<1> QED
  BY <1>1, <1>2, <1>3, CallCases

\* A call that returns dtmd_ok has taken the answer to its own request, or a late
\* one to a call of the same command, whatever is lost, delayed or given up: the
\* process functions of library/dtmd-library.c.
THEOREM OwnAnswerCorrect == Spec => []OwnAnswer
<1>1. Init => AnswerInv /\ OwnAnswer
  <2>1. ASSUME Init
        PROVE  cpc = "idle" /\ ~hup /\ outbox = <<>> /\ stream = <<>>
    BY <2>1 DEF Init, stream
  <2>2. ASSUME Init
        PROVE  DOMAIN stream = {} /\ DOMAIN outbox = {}
    BY <2>1, <2>2
  <2> QED
    BY <2>1, <2>2 DEF AnswerInv, PendingInv, OrderInv, OwnAnswer
<1>2. TypeOK /\ WaitInv /\ AnswerInv /\ [Next]_vars => AnswerInv'
  BY AnswerStep
<1>3. TypeOK /\ WaitInv /\ AnswerInv /\ OwnAnswer /\ [Next]_vars => OwnAnswer'
  BY OwnAnswerStep
<1>4. TypeOK /\ WaitInv /\ [Next]_vars => WaitInv'
  BY WaitStep
<1> QED
  BY <1>1, <1>2, <1>3, <1>4, BalanceInit, TypeCorrect, PTL DEF Spec

(***************************************************************************)
(* What the parser comes across while the daemon lives.                    *)
(***************************************************************************)
\* The stream is a sequence of whole answers and notifications, of which the
\* first may have been read in part: library_state tells how far.
GrammarInv ==
    /\ stream = <<>> => library_state = "default"
    /\ stream # <<>> => Expected(stream[1], library_state) /\ After(stream[Len(stream)]) = "default"
    /\ \A k \in 1..(Len(stream) - 1) : Expected(stream[k + 1], After(stream[k]))

\* A handle that is in use, and has never lost its daemon, is sound.
UsableInv ==
    crashes = 0 /\ RootLists = {} /\ cpc \notin {"join", "freed"} =>
        /\ ~hup /\ cpc # "error" /\ result_state \notin FatalResults
        /\ wpc \in {"loop", "grant", "wait"}
        /\ \A i \in DOMAIN pipes : pipes[i] = 1
        /\ ~socket_fd => stream = <<>> /\ outbox = <<>>
        /\ cpc \in {"capture", "owner"} => ~got_started
        /\ cpc = "process" /\ got_started => library_state = command /\ command \in ListCommands
        /\ GrammarInv

\* What the parser does with a message it expects.
LEMMA ExpectedFacts ==
    ASSUME TypeOK, NEW m \in Messages, Expected(m, library_state)
    PROVE  /\ Accepts(m) /\ StateAfter(m) = After(m)
           /\ handle_cmd(m) => library_state' = After(m)
<1>1. library_state # "default" => m.kind \in {"device", "finished"} /\ m.cmd = library_state
  BY DEF Expected, Inside
<1>2. library_state = "default" => Opening(m)
  BY DEF Expected
<1>3. Accepts(m)
  BY <1>1, <1>2 DEF Accepts, Opening
<1>4. StateAfter(m) = After(m)
  BY <1>1, <1>2 DEF StateAfter, After, Opening
<1> QED
  BY <1>3, <1>4 DEF handle_cmd

\* A call in progress follows the answers, and nothing it comes across is fatal.
LEMMA ProcessFacts ==
    ASSUME TypeOK, CallProcess, RootLists = {}, Expected(Head(buffer), library_state),
           Head(buffer) \in Messages, result_state \notin FatalResults,
           got_started => library_state = command /\ command \in ListCommands
    PROVE  /\ library_state' = After(Head(buffer)) /\ result_state' \notin FatalResults
           /\ cpc' \in {"process", "finish"}
           /\ cpc' = "process" /\ got_started' => library_state' = command /\ command \in ListCommands
<1> DEFINE m == Head(buffer)
<1>0. m \in Messages /\ Expected(m, library_state) /\ cpc = "process" /\ command' = command
  BY DEF CallProcess
<1>1. Accepts(m) /\ (handle_cmd(m) => library_state' = After(m))
  BY <1>0, ExpectedFacts
<1>2. got_started => m.kind \in {"device", "finished"} /\ m.cmd = command
  BY LibraryAssumption DEF Expected, Inside
<1>3. ~EmptyRootList
  BY DEF EmptyRootList
<1>4. ASSUME IsSuccess(m), library_state' = "default", Leave("ok")
      PROVE  library_state' = After(m) /\ result_state' \notin FatalResults /\ cpc' = "finish"
  BY <1>4 DEF IsSuccess, After, Leave, FatalResults
<1>5. ASSUME IsFailure(m), Leave("command_failed"), UNCHANGED library_state
      PROVE  library_state' = After(m) /\ result_state' \notin FatalResults /\ cpc' = "finish"
  BY <1>5 DEF IsFailure, After, Leave, FatalResults
<1>6. ASSUME IsStart(m), library_state' = command
      PROVE  library_state' = After(m) /\ command \in ListCommands
  BY <1>6 DEF IsStart, After
<1>7. ASSUME got_started, m.kind = "device"
      PROVE  library_state = After(m) /\ library_state = command /\ command \in ListCommands
  BY <1>2, <1>7 DEF After
<1>8. ~(got_started /\ ~IsSuccess(m) /\ m.kind # "device")
  BY <1>2 DEF IsSuccess
<1> HIDE DEF m
<1>9. \/ IsSuccess(m) /\ library_state' = "default" /\ Leave("ok")
      \/ IsFailure(m) /\ Leave("command_failed") /\ UNCHANGED library_state
      \/ IsStart(m) /\ library_state' = command /\ UNCHANGED <<cpc, result_state>>
      \/ got_started /\ m.kind = "device" /\ UNCHANGED <<cpc, result_state, library_state>>
      \/ ~got_started /\ handle_cmd(m) /\ UNCHANGED <<cpc, result_state, got_started>>
  BY <1>1, <1>3, <1>8 DEF CallProcess, m
<1> QED
  BY <1>0, <1>1, <1>4, <1>5, <1>6, <1>7, <1>9 DEF m

\* The stream stays well formed when its first message is taken, when an answer
\* or a notification arrives, and when it is empty.
LEMMA GrammarTake ==
    ASSUME TypeOK, GrammarInv, buffer # <<>>, buffer' = Tail(buffer), inbox' = inbox,
           library_state' = After(Head(buffer))
    PROVE  GrammarInv'
<1>1. /\ Len(stream) > 0 /\ stream[1] = Head(buffer) /\ Len(stream') = Len(stream) - 1
      /\ DOMAIN stream' = 1..(Len(stream) - 1)
      /\ \A k \in 1..(Len(stream) - 1) : stream'[k] = stream[k + 1]
  BY TakeFacts
<1>2. Len(stream) \in Nat /\ (stream = <<>> <=> Len(stream) = 0)
  BY StreamFacts
<1>3. stream' = <<>> <=> Len(stream') = 0
  <2>1. buffer' \in Seq(Messages) /\ inbox' \in Seq(Messages)
    BY DEF TypeOK
  <2>2. stream' \in Seq(Messages)
    BY <2>1 DEF stream
  <2> QED
    BY <2>2
<1>4. CASE Len(stream) = 1
  BY <1>1, <1>2, <1>3, <1>4 DEF GrammarInv
<1>5. CASE Len(stream) > 1
  <2>1. 1 \in 1..(Len(stream) - 1) /\ Len(stream') \in 1..(Len(stream) - 1)
        /\ Len(stream') + 1 = Len(stream) /\ stream' # <<>> /\ stream # <<>>
    BY <1>1, <1>2, <1>3, <1>5
  <2>2. Expected(stream'[1], library_state')
    BY <1>1, <2>1 DEF GrammarInv
  <2>3. After(stream'[Len(stream')]) = "default"
    BY <1>1, <2>1 DEF GrammarInv
  <2>4. ASSUME NEW k \in 1..(Len(stream') - 1)
        PROVE  Expected(stream'[k + 1], After(stream'[k]))
    <3>1. k \in 1..(Len(stream) - 1) /\ k + 1 \in 1..(Len(stream) - 1)
      BY <1>1, <1>2
    <3> QED
      BY <1>1, <3>1 DEF GrammarInv
  <2> QED
    BY <2>1, <2>2, <2>3, <2>4 DEF GrammarInv
<1> QED
  BY <1>1, <1>2, <1>4, <1>5

LEMMA GrammarArrive ==
    ASSUME TypeOK, GrammarInv, library_state' = library_state,
           NEW a \in Seq(Messages), Len(a) \in Nat \ {0}, Opening(a[1]), After(a[Len(a)]) = "default",
           \A k \in 1..(Len(a) - 1) : Expected(a[k + 1], After(a[k])),
           buffer' = buffer, inbox' = inbox \o a
    PROVE  GrammarInv'
<1>1. /\ Len(stream') = Len(stream) + Len(a) /\ DOMAIN stream' = 1..(Len(stream) + Len(a))
      /\ \A k \in 1..Len(stream) : stream'[k] = stream[k]
      /\ \A k \in 1..Len(a) : stream'[Len(stream) + k] = a[k]
  BY ArriveFacts
<1>2. Len(stream) \in Nat /\ (stream = <<>> <=> Len(stream) = 0)
  BY StreamFacts
<1>3. stream' # <<>>
  <2>1. 1 \in DOMAIN stream'
    BY <1>1, <1>2
  <2> QED
    BY <2>1
<1>4. Expected(stream'[1], library_state')
  <2>1. CASE stream = <<>>
    BY <1>1, <1>2, <2>1 DEF GrammarInv, Expected
  <2>2. CASE stream # <<>>
    BY <1>1, <1>2, <2>2 DEF GrammarInv
  <2> QED
    BY <2>1, <2>2
<1>5. After(stream'[Len(stream')]) = "default"
  BY <1>1, <1>2
<1>6. ASSUME NEW k \in 1..(Len(stream') - 1)
      PROVE  Expected(stream'[k + 1], After(stream'[k]))
  <2>1. CASE k < Len(stream)
    <3>1. k \in 1..Len(stream) /\ k + 1 \in 1..Len(stream) /\ k \in 1..(Len(stream) - 1)
      BY <1>2, <2>1
    <3> QED
      BY <1>1, <3>1 DEF GrammarInv
  <2>2. CASE k = Len(stream)
    <3>1. k \in 1..Len(stream) /\ stream # <<>> /\ 1 \in 1..Len(a)
      BY <1>2, <2>2
    <3> QED
      BY <1>1, <2>2, <3>1 DEF GrammarInv, Expected
  <2>3. CASE k > Len(stream)
    <3>1. PICK j \in 1..(Len(a) - 1) : k = Len(stream) + j
      <4>1. k - Len(stream) \in 1..(Len(a) - 1) /\ k = Len(stream) + (k - Len(stream))
        BY <1>1, <1>2, <2>3
      <4> QED
        BY <4>1
    <3>2. j \in 1..Len(a) /\ j + 1 \in 1..Len(a) /\ k + 1 = Len(stream) + (j + 1)
      BY <1>2, <3>1
    <3> QED
      BY <1>1, <3>1, <3>2
  <2> QED
    BY <1>2, <2>1, <2>2, <2>3
<1> QED
  BY <1>3, <1>4, <1>5, <1>6 DEF GrammarInv

LEMMA UsableStep ==
    ASSUME TypeOK, HandoffInv, UsableInv, [Next]_vars
    PROVE  UsableInv'
<1> SUFFICES ASSUME crashes' = 0, RootLists = {}, cpc' \notin {"join", "freed"}
             PROVE  /\ ~hup' /\ cpc' # "error" /\ result_state' \notin FatalResults
                    /\ wpc' \in {"loop", "grant", "wait"}
                    /\ \A i \in DOMAIN pipes' : pipes'[i] = 1
                    /\ ~socket_fd' => stream' = <<>> /\ outbox' = <<>>
                    /\ cpc' \in {"capture", "owner"} => ~got_started'
                    /\ cpc' = "process" /\ got_started' => library_state' = command' /\ command' \in ListCommands
                    /\ GrammarInv'
  BY DEF UsableInv, FatalResults
<1>1. crashes = 0 /\ cpc \notin {"join", "freed"}
  <2>1. crashes = 0
    BY DEF TypeOK, Next, vars, Worker, WorkerHandle, WorkerDisconnect, WorkerPipe, WorkerGrant, WorkerWait,
           WorkerWatch, WorkerRead, WorkerExit, Caller, CallerStep, CallBegin, CallCapture,
           CallCaptureTimeout, CallSend, CallProcess, CallRead, CallReadEnd, CallReadTimeout, CallError,
           CallFinish, DeinitBegin, DeinitJoin, Daemon, DaemonAnswer, DaemonNotify, DaemonCrash, DaemonBind,
           DaemonListen, Terminated, peer
  <2>2. cpc \notin {"join", "freed"}
    <3>1. CASE Worker \/ Daemon \/ CallRead \/ UNCHANGED vars
      BY <3>1, StreamCases
    <3>2. CASE \/ CallProcess \/ CallSend \/ DeinitJoin \/ (\E c \in Commands : CallBegin(c))
               \/ CallCapture \/ CallCaptureTimeout \/ CallReadEnd \/ CallReadTimeout \/ CallError
               \/ CallFinish \/ DeinitBegin
      BY <3>2 DEF CallProcess, CallSend, DeinitJoin, CallBegin, CallCapture, CallCaptureTimeout,
                  CallReadEnd, CallReadTimeout, Reading, CallError, CallFinish, DeinitBegin
    <3> QED
      BY <3>1, <3>2, CallCases
  <2> QED
    BY <2>1, <2>2
<1>2. /\ ~hup /\ cpc # "error" /\ result_state \notin FatalResults
      /\ wpc \in {"loop", "grant", "wait"}
      /\ \A i \in DOMAIN pipes : pipes[i] = 1
      /\ ~socket_fd => stream = <<>> /\ outbox = <<>>
      /\ cpc \in {"capture", "owner"} => ~got_started
      /\ cpc = "process" /\ got_started => library_state = command /\ command \in ListCommands
      /\ GrammarInv
  BY <1>1 DEF UsableInv
<1>3. /\ cpc = "process" => wpc = "wait"
      /\ feedback # <<>> => Head(feedback) = 1
      /\ pipes # <<>> => Head(pipes) = 1 /\ \A i \in DOMAIN Tail(pipes) : Tail(pipes)[i] = 1
  <2>1. cpc = "process" => wpc = "wait"
    BY <1>2 DEF HandoffInv, Stopped
  <2>2. feedback \in {<<>>, <<1>>}
    BY <1>2 DEF HandoffInv, Stopped
  <2>3. pipes # <<>> => Head(pipes) = 1 /\ \A i \in DOMAIN Tail(pipes) : Tail(pipes)[i] = 1
    BY <1>2 DEF TypeOK
  <2> QED
    BY <2>1, <2>2, <2>3
<1>4. ASSUME UNCHANGED <<stream, library_state>>
      PROVE  GrammarInv'
  BY <1>2, <1>4 DEF GrammarInv
<1>5. ASSUME buffer # <<>>
      PROVE  Head(buffer) \in Messages /\ Expected(Head(buffer), library_state)
  <2>1. Len(stream) > 0 /\ stream[1] = Head(buffer) /\ stream # <<>>
    BY <1>5 DEF TypeOK, stream
  <2> QED
    BY <1>2, <1>5, <2>1 DEF GrammarInv, TypeOK
<1>6. CASE WorkerHandle
  <2>1. /\ wpc = "loop" /\ buffer # <<>> /\ buffer' = Tail(buffer) /\ handle_cmd(Head(buffer))
        /\ wpc' = IF Accepts(Head(buffer)) THEN "loop" ELSE "fail"
        /\ UNCHANGED <<cpc, handoff, link, call>>
    BY <1>6 DEF WorkerHandle
  <2>2. Accepts(Head(buffer)) /\ library_state' = After(Head(buffer))
    BY <1>5, <2>1, ExpectedFacts
  <2>3. GrammarInv'
    BY <1>2, <2>1, <2>2, GrammarTake DEF link
  <2>4. socket_fd
    BY <1>2, <2>1 DEF stream, TypeOK
  <2> QED
    BY <1>2, <1>3, <2>1, <2>2, <2>3, <2>4 DEF handoff, link, call
<1>7. CASE CallProcess
  <2>1. /\ cpc = "process" /\ buffer # <<>> /\ buffer' = Tail(buffer)
        /\ UNCHANGED <<wpc, handoff, link, command>>
    BY <1>7 DEF CallProcess
  <2>2. /\ library_state' = After(Head(buffer)) /\ result_state' \notin FatalResults
        /\ cpc' \in {"process", "finish"}
        /\ cpc' = "process" /\ got_started' => library_state' = command /\ command \in ListCommands
    BY <1>2, <1>5, <1>7, <2>1, ProcessFacts
  <2>3. GrammarInv'
    BY <1>2, <2>1, <2>2, GrammarTake DEF link
  <2>4. socket_fd
    BY <1>2, <2>1 DEF stream, TypeOK
  <2> QED
    BY <1>2, <2>1, <2>2, <2>3, <2>4 DEF handoff, link
<1>8. CASE DaemonAnswer
  <2>1. PICK a \in Answers(Head(outbox)) : inbox' = inbox \o a
    BY <1>8 DEF DaemonAnswer
  <2>2. /\ outbox # <<>> /\ Head(outbox) \in Requests
        /\ UNCHANGED <<threads, handoff, socket_fd, hup, parser, call>>
    BY <1>8, AnswerArrives
  <2>3. /\ a \in Seq(Messages) /\ Len(a) \in Nat \ {0} /\ Opening(a[1])
        /\ \A k \in 1..(Len(a) - 1) : Expected(a[k + 1], After(a[k]))
        /\ Final(a[Len(a)])
    BY <2>2, AnswerFacts
  <2>4. After(a[Len(a)]) = "default"
    BY <2>3 DEF Final, After
  <2>5. GrammarInv'
    BY <1>2, <2>1, <2>2, <2>3, <2>4, GrammarArrive DEF parser
  <2>6. socket_fd
    BY <1>2, <2>2
  <2> QED
    BY <1>2, <2>2, <2>5, <2>6 DEF threads, handoff, parser, call
<1>9. CASE DaemonNotify
  <2> DEFINE m == Msg("notification", "none", sent + 1)
  <2>1. m \in Messages /\ m.kind = "notification"
    BY DEF Msg, Messages, MessageKinds, TypeOK
  <2>2. /\ inbox' = Append(inbox, m) /\ socket_fd
        /\ UNCHANGED <<threads, handoff, socket_fd, hup, outbox, parser, call>>
    BY <1>9 DEF DaemonNotify
  <2> HIDE DEF m
  <2>3. PICK a \in Seq(Messages) : a = <<m>>
    <3>1. <<m>> \in Seq(Messages)
      BY <2>1
    <3> QED
      BY <3>1
  <2>4. Len(a) = 1 /\ a[1] = m /\ inbox' = inbox \o a
    BY <2>1, <2>2, <2>3 DEF TypeOK
  <2>5. Opening(a[1]) /\ After(a[Len(a)]) = "default"
    BY <2>1, <2>4 DEF Opening, After
  <2>6. /\ Len(a) \in Nat \ {0} /\ \A k \in 1..(Len(a) - 1) : Expected(a[k + 1], After(a[k]))
        /\ buffer' = buffer /\ library_state' = library_state
    BY <2>2, <2>4 DEF parser
  <2>7. GrammarInv'
    BY <1>2, <2>4, <2>5, <2>6, GrammarArrive
  <2> QED
    BY <1>2, <2>2, <2>7 DEF threads, handoff, parser, call
<1>10. CASE DaemonCrash
  BY <1>1, <1>10 DEF DaemonCrash
<1>11. CASE (Worker \/ Daemon \/ CallRead \/ UNCHANGED vars)
            /\ ~WorkerHandle /\ ~DaemonAnswer /\ ~DaemonNotify /\ ~DaemonCrash
  <2>1. UNCHANGED <<cpc, call>>
    BY <1>11, StreamCases
  <2>2. wpc' \in {"loop", "grant", "wait"} /\ \A i \in DOMAIN pipes' : pipes'[i] = 1
    <3>1. CASE WorkerPipe \/ WorkerGrant \/ WorkerWait \/ WorkerExit
      BY <1>2, <1>3, <3>1 DEF WorkerPipe, WorkerGrant, WorkerWait, WorkerExit
    <3>2. CASE WorkerDisconnect \/ WorkerWatch \/ WorkerRead \/ CallRead
      BY <1>2, <3>2 DEF WorkerDisconnect, WorkerWatch, WorkerRead, CallRead, threads, handoff
    <3>3. CASE DaemonBind \/ DaemonListen \/ UNCHANGED vars
      BY <1>2, <3>3 DEF DaemonBind, DaemonListen, vars, threads, handoff
    <3> QED
      BY <1>11, <3>1, <3>2, <3>3 DEF Worker, Daemon
  <2>3. /\ ~hup' /\ (~socket_fd' => stream' = <<>> /\ outbox' = <<>>)
        /\ GrammarInv' /\ library_state' = library_state
    <3>1. CASE UNCHANGED <<stream, outbox, hup, socket_fd, library_state, sent, delivered>>
      BY <1>2, <1>4, <3>1
    <3>2. CASE /\ stream' = <<>> /\ outbox' = <<>> /\ ~hup' /\ UNCHANGED library_state
               /\ socket_fd' => ~socket_fd
               /\ ~socket_fd' => hup
      <4>1. stream = <<>>
        BY <1>2, <3>2
      <4> QED
        BY <1>4, <3>2, <4>1
    <3> QED
      BY <1>11, <3>1, <3>2, StreamCases
  <2> QED
    BY <1>2, <2>1, <2>2, <2>3 DEF call
<1>12. CASE CallSend
  <2>1. UNCHANGED <<wpc, stream, hup, socket_fd, library_state>>
    BY <1>12 DEF CallSend, stream, parser
  <2>2. /\ cpc = "owner" /\ UNCHANGED <<pipes, got_started, command>>
        /\ cpc' \in {"process", "finish"} /\ result_state' \notin FatalResults
        /\ ~socket_fd => outbox' = outbox
    BY <1>2, <1>12 DEF CallSend, Leave, FatalResults, handoff
  <2> QED
    BY <1>2, <1>4, <2>1, <2>2
<1>13. CASE /\ UNCHANGED <<wpc, stream, outbox, hup, socket_fd, library_state>>
            /\ \/ (\E c \in Commands : CallBegin(c)) \/ CallCapture \/ CallCaptureTimeout
               \/ CallReadTimeout \/ CallFinish
  <2>1. \A i \in DOMAIN pipes' : pipes'[i] = 1
    <3>1. pipes' = pipes \/ pipes' = Append(pipes, 1)
      BY <1>13 DEF CallBegin, CallCapture, CallCaptureTimeout, CallReadTimeout, CallFinish, handoff
    <3>2. \A i \in DOMAIN Append(pipes, 1) : Append(pipes, 1)[i] = 1
      BY <1>2 DEF TypeOK
    <3> QED
      BY <1>2, <3>1, <3>2
  <2>2. /\ cpc' # "error" /\ result_state' \notin FatalResults /\ cpc' # "process"
        /\ cpc' \in {"capture", "owner"} => ~got_started'
    BY <1>2, <1>3, <1>13 DEF CallBegin, CallCapture, CallCaptureTimeout, CallReadTimeout, CallFinish,
         Leave, FatalResults, call
  <2> QED
    BY <1>2, <1>4, <1>13, <2>1, <2>2
<1>14. ~CallReadEnd /\ ~CallError /\ ~DeinitBegin /\ ~DeinitJoin
  BY <1>2 DEF CallReadEnd, CallError, DeinitBegin, DeinitJoin
<1> QED
  BY <1>6, <1>7, <1>8, <1>9, <1>10, <1>11, <1>12, <1>13, <1>14, CallCases

\* As long as the daemon lives and no call gives up while it waits for the worker,
\* nothing that a call, a timeout or a notification leaves behind stops the worker
\* or makes a later message unacceptable: dtmd_helper_handle_cmd and the process
\* functions of library/dtmd-library.c.
THEOREM StaysUsableCorrect ==
    ASSUME "capture_timeout" \notin Faults
    PROVE  Spec => []StaysUsable
<1>1. Init => UsableInv
  <2>1. ASSUME Init
        PROVE  /\ ~hup /\ cpc = "idle" /\ result_state = "ok" /\ wpc = "loop" /\ pipes = <<>>
               /\ outbox = <<>> /\ stream = <<>> /\ library_state = "default"
    BY <2>1 DEF Init, stream
  <2>2. Len(<<>>) = 0 /\ 1..(0 - 1) = {} /\ DOMAIN <<>> = {}
    OBVIOUS
  <2> QED
    BY <2>1, <2>2 DEF UsableInv, GrammarInv, FatalResults
<1>2. TypeOK /\ HandoffInv /\ UsableInv /\ [Next]_vars => UsableInv'
  BY UsableStep
<1>3. UsableInv => StaysUsable
  BY DEF UsableInv, StaysUsable
<1> QED
  BY <1>1, <1>2, <1>3, TypeCorrect, HandoffCorrect, PTL DEF Spec
=============================================================================
