------------------------ MODULE DaemonClientsProofs ------------------------
(***************************************************************************)
(* Proofs about the clients of the daemon, for any number of clients and   *)
(* descriptors, any size of the buffer and whatever clients write.         *)
(***************************************************************************)
EXTENDS DaemonClients, SequenceTheorems, FiniteSetTheorems, WellFoundedInduction, TLAPS

\* A connection waits in the backlog or has a descriptor of its own, and the list
\* holds the descriptors that are open.
SocketInv ==
    /\ IsInjective(backlog) /\ IsInjective(client_root)
    /\ \A c \in ToSet(backlog) : state[c] # "new" /\ \A fd \in Fds : owner[fd] # c
    /\ \A fd \in Fds :
          /\ owner[fd] # NULL <=> fd \in ToSet(client_root)
          /\ owner[fd] # NULL => state[owner[fd]] # "new"
    /\ \A fd, gd \in Fds : owner[fd] = owner[gd] /\ owner[fd] # NULL => fd = gd

\* The slots that are still to come are those of listed clients, each of which has
\* one slot, and one that hung up has not come back.
SlotInv ==
    pc \in {"accept", "monitor", "notify", "clients", "lines"} =>
        /\ \A i \in DOMAIN pollfds : i >= slot =>
              /\ pollfds[i].fd \in ToSet(client_root)
              /\ pollfds[i].revents = "hup" => state[owner[pollfds[i].fd]] = "closed"
        /\ \A i, j \in DOMAIN pollfds : pollfds[i].fd = pollfds[j].fd => i = j

\* Where the daemon is in its round says what it has at hand.
RoundInv ==
    /\ pc # "bug"
    /\ pc \in {"poll", "accept", "monitor", "notify"} => slot = 0
    /\ pc \in {"clients", "lines"} => slot # 0
    /\ pc = "lines" => slot <= Len(pollfds)
    /\ pc = "accept" /\ ready.accept => backlog # <<>>
    /\ pc = "notify" => audience # <<>> /\ ToSet(audience) \subseteq ToSet(client_root)
    /\ pc = "poll" => Len(client_root) = pollfds_count

\* How many pieces of c are neither in the socket nor in the buffer.
Taken(c) == Len(wrote[c]) - unread[c] - Len(buf[c])

\* What c wrote is what was executed, what is in the buffer and what is unread.
StreamOf(c) ==
    /\ Taken(c) \in Nat
    /\ \A k \in 1..Len(buf[c]) : buf[c][k] = wrote[c][Taken(c) + k]
    /\ Taken(c) # 0 => wrote[c][Taken(c)] \in Ends
    /\ answered[c] = Cardinality({i \in 1..Taken(c) : wrote[c][i] = "command"})

StreamInv == \A c \in Clients : StreamOf(c)

Inv == TypeOK /\ SocketInv /\ SlotInv /\ RoundInv /\ StreamInv /\ DroppedForCause

\* Every set of numbers has a least one.
LEMMA MinFacts ==
    ASSUME NEW T \in SUBSET Nat, T # {}
    PROVE  Min(T) \in T /\ \A y \in T : Min(T) <= y
<1>1. PICK x \in T : \A y \in T : <<y, x>> \notin OpToRel(<, Nat)
  BY NatLessThanWellFounded, WFMin
<1>2. \A y \in T : x <= y
  <2> TAKE y \in T
  <2>1. x \in Nat /\ y \in Nat /\ <<y, x>> \notin {ss \in Nat \X Nat : ss[1] < ss[2]}
    BY <1>1 DEF OpToRel
  <2>2. ~(y < x)
    BY <2>1
  <2> QED
    BY <2>1, <2>2
<1> QED
  BY <1>2 DEF Min

\* A function on the first numbers is a sequence.
LEMMA FunctionIsSeq ==
    ASSUME NEW S, NEW n \in Nat, NEW f \in [1..n -> S]
    PROVE  f \in Seq(S) /\ Len(f) = n
  OBVIOUS

\* The elements of a sequence.
LEMMA Elements ==
    ASSUME NEW S, NEW s \in Seq(S)
    PROVE  /\ ToSet(s) \subseteq S /\ Len(s) \in Nat
           /\ \A i \in DOMAIN s : i \in Nat /\ i # 0 /\ i <= Len(s) /\ s[i] \in S
<1>1. Len(s) \in Nat /\ DOMAIN s = 1..Len(s) /\ \A i \in 1..Len(s) : s[i] \in S
  BY LenProperties, ElementOfSeq
<1> QED
  BY <1>1 DEF ToSet

\* A sequence that grew by an element.
LEMMA AppendFacts ==
    ASSUME NEW S, NEW s \in Seq(S), NEW e \in S
    PROVE  /\ Append(s, e) \in Seq(S) /\ Append(s, e) # <<>>
           /\ ToSet(Append(s, e)) = ToSet(s) \cup {e}
           /\ IsInjective(s) /\ e \notin ToSet(s) => IsInjective(Append(s, e))
<1>1. /\ DOMAIN Append(s, e) = 1..(Len(s) + 1) /\ DOMAIN s = 1..Len(s) /\ Len(s) \in Nat
      /\ \A i \in 1..Len(s) : Append(s, e)[i] = s[i]
      /\ Append(s, e)[Len(s) + 1] = e
  OBVIOUS
<1>2. \A i \in 1..(Len(s) + 1) : i \in 1..Len(s) \/ i = Len(s) + 1
  BY <1>1
<1>3. ToSet(Append(s, e)) = ToSet(s) \cup {e}
  <2>1. ToSet(s) \cup {e} \subseteq ToSet(Append(s, e))
    BY <1>1 DEF ToSet
  <2>2. ToSet(Append(s, e)) \subseteq ToSet(s) \cup {e}
    BY <1>1, <1>2 DEF ToSet
  <2> QED
    BY <2>1, <2>2
<1>4. ASSUME IsInjective(s), e \notin ToSet(s)
      PROVE  IsInjective(Append(s, e))
  BY <1>1, <1>2, <1>4 DEF IsInjective, ToSet
<1> QED
  BY <1>3, <1>4, AppendProperties

\* A sequence without its first element.
LEMMA TailFacts ==
    ASSUME NEW S, NEW s \in Seq(S), s # <<>>
    PROVE  /\ Head(s) \in S /\ Head(s) \in ToSet(s) /\ Tail(s) \in Seq(S)
           /\ ToSet(Tail(s)) \subseteq ToSet(s)
           /\ IsInjective(s) => Head(s) \notin ToSet(Tail(s)) /\ IsInjective(Tail(s))
<1>1. /\ Head(s) = s[1] /\ 1 \in DOMAIN s /\ DOMAIN Tail(s) = 1..(Len(s) - 1)
      /\ DOMAIN s = 1..Len(s) /\ Len(s) \in Nat /\ Head(s) \in S /\ Tail(s) \in Seq(S)
      /\ \A i \in 1..(Len(s) - 1) : Tail(s)[i] = s[i + 1]
  OBVIOUS
<1>2. \A i \in DOMAIN Tail(s) : i + 1 \in DOMAIN s /\ i + 1 # 1 /\ Tail(s)[i] = s[i + 1] /\ i \in Nat
  BY <1>1
<1>3. ToSet(Tail(s)) \subseteq ToSet(s) /\ Head(s) \in ToSet(s)
  BY <1>1, <1>2 DEF ToSet
<1>4. ASSUME IsInjective(s)
      PROVE  Head(s) \notin ToSet(Tail(s)) /\ IsInjective(Tail(s))
  BY <1>1, <1>2, <1>4 DEF IsInjective, ToSet
<1> QED
  BY <1>1, <1>3, <1>4

\* A sequence without one of its elements.
LEMMA RemoveAtFacts ==
    ASSUME NEW S, NEW s \in Seq(S), NEW i \in DOMAIN s, IsInjective(s)
    PROVE  /\ RemoveAt(s, i) \in Seq(S)
           /\ ToSet(RemoveAt(s, i)) = ToSet(s) \ {s[i]}
           /\ IsInjective(RemoveAt(s, i))
<1> DEFINE a == SubSeq(s, 1, i - 1)
           b == SubSeq(s, i + 1, Len(s))
           t == a \o b
           n == Len(s)
<1>1. n \in Nat /\ DOMAIN s = 1..n /\ i \in 1..n
  OBVIOUS
<1>2. /\ a \in Seq(S) /\ Len(a) = i - 1 /\ \A j \in 1..(i - 1) : a[j] = s[j]
      /\ b \in Seq(S) /\ Len(b) = n - i /\ \A j \in 1..(n - i) : b[j] = s[j + i]
  <2>1. /\ a \in Seq(S) /\ Len(a) = i - 1 /\ \A j \in 1..(i - 1) : a[j] = s[j]
    BY <1>1, SubSeqProperties
  <2>2. /\ b \in Seq(S) /\ Len(b) = n - i /\ \A j \in 1..(n - i) : b[j] = s[j + i]
    BY <1>1, SubSeqProperties
  <2> QED
    BY <2>1, <2>2
<1> HIDE DEF a, b
<1>3. /\ t \in Seq(S) /\ Len(t) = Len(a) + Len(b)
      /\ \A j \in 1..(Len(a) + Len(b)) : t[j] = IF j <= Len(a) THEN a[j] ELSE b[j - Len(a)]
  BY <1>2, ConcatProperties
<1> HIDE DEF t, n
<1>4. \A j \in 1..(n - 1) : t[j] = IF j < i THEN s[j] ELSE s[j + 1]
  <2> TAKE j \in 1..(n - 1)
  <2>1. t[j] = IF j <= i - 1 THEN a[j] ELSE b[j - (i - 1)]
    BY <1>1, <1>2, <1>3
  <2>2. CASE j < i
    BY <1>1, <1>2, <2>1, <2>2
  <2>3. CASE ~(j < i)
    <3>1. j - (i - 1) \in 1..(n - i) /\ (j - (i - 1)) + i = j + 1 /\ ~(j <= i - 1)
      BY <1>1, <2>3
    <3> QED
      BY <1>2, <2>1, <2>3, <3>1
  <2> QED
    BY <2>2, <2>3
<1>5. DOMAIN t = 1..(n - 1)
  <2>1. Len(t) = n - 1
    BY <1>1, <1>2, <1>3
  <2> QED
    BY <1>3, <2>1, LenProperties
<1>6. \A j \in DOMAIN t : \E k \in DOMAIN s : t[j] = s[k] /\ k # i /\ k = IF j < i THEN j ELSE j + 1
  BY <1>1, <1>4, <1>5
<1>7. \A k \in DOMAIN s : k # i => \E j \in DOMAIN t : t[j] = s[k]
  <2> TAKE k \in DOMAIN s
  <2>1. CASE k < i
    BY <1>1, <1>4, <1>5, <2>1
  <2>2. CASE k > i
    <3>1. k - 1 \in 1..(n - 1) /\ ~(k - 1 < i) /\ (k - 1) + 1 = k
      BY <1>1, <2>2
    <3> QED
      BY <1>4, <1>5, <3>1
  <2> QED
    BY <1>1, <2>1, <2>2
<1>8. ToSet(t) = ToSet(s) \ {s[i]}
  BY <1>6, <1>7 DEF ToSet, IsInjective
<1>9. IsInjective(t)
  BY <1>1, <1>5, <1>6 DEF IsInjective
<1> QED
  BY <1>3, <1>8, <1>9 DEF RemoveAt, a, b, t

\* The client whose slot has come is in the list.
LEMMA HereFacts ==
    ASSUME TypeOK, SocketInv, SlotInv, RoundInv, pc \in {"clients", "lines"}, slot <= Len(pollfds)
    PROVE  /\ slot \in DOMAIN pollfds /\ Here.fd \in Fds /\ Here.fd \in ToSet(client_root)
           /\ owner[Here.fd] \in Clients
           /\ Here.revents = "hup" => state[owner[Here.fd]] = "closed"
<1>1. slot \in DOMAIN pollfds /\ slot \in 1..Len(pollfds)
  BY LenProperties DEF TypeOK, RoundInv
<1>2. Here \in [fd : Fds, revents : {"none", "in", "hup"}]
  <2>1. pollfds \in Seq([fd : Fds, revents : {"none", "in", "hup"}])
    BY DEF TypeOK
  <2> QED
    BY <1>1, <2>1, ElementOfSeq DEF Here
<1>3. /\ Here.fd \in ToSet(client_root)
      /\ Here.revents = "hup" => state[owner[Here.fd]] = "closed"
  <2>1. slot \in Nat
    BY LenProperties DEF TypeOK
  <2> QED
    BY <1>1, <2>1 DEF SlotInv, Here
<1>4. owner[Here.fd] # NULL
  BY <1>2, <1>3 DEF SocketInv
<1> QED
  BY <1>1, <1>2, <1>3, <1>4 DEF TypeOK

\* What remove_client does to a client in the list.
LEMMA RemoveFacts ==
    ASSUME TypeOK, SocketInv, NEW fd \in Fds, fd \in ToSet(client_root), remove_client(fd)
    PROVE  /\ owner[fd] \in Clients
           /\ client_root' \in Seq(Fds) /\ IsInjective(client_root')
           /\ ToSet(client_root') = ToSet(client_root) \ {fd}
           /\ owner' = [owner EXCEPT ![fd] = NULL]
           /\ state' = [state EXCEPT ![owner[fd]] = IF @ = "closed" THEN @ ELSE "dropped"]
<1>1. owner[fd] \in Clients
  BY DEF TypeOK, SocketInv
<1>2. PICK i \in DOMAIN client_root : client_root[i] = fd /\ client_root' = RemoveAt(client_root, i)
  BY DEF remove_client
<1>3. client_root \in Seq(Fds) /\ IsInjective(client_root)
  BY DEF TypeOK, SocketInv
<1>4. /\ client_root' \in Seq(Fds) /\ IsInjective(client_root')
      /\ ToSet(client_root') = ToSet(client_root) \ {fd}
  BY <1>2, <1>3, RemoveAtFacts
<1> QED
  BY <1>1, <1>4 DEF remove_client

\* There is a descriptor for every connection that is accepted.
LEMMA FreeFdFacts ==
    ASSUME TypeOK, SocketInv, backlog # <<>>
    PROVE  FreeFd \in Fds /\ owner[FreeFd] = NULL
<1>1. Head(backlog) \in Clients /\ Head(backlog) \in ToSet(backlog)
  BY TailFacts DEF TypeOK
<1>2. \E fd \in Fds : owner[fd] = NULL
  <2>1. SUFFICES ASSUME \A fd \in Fds : owner[fd] # NULL
                 PROVE  FALSE
    OBVIOUS
  <2> DEFINE T == Clients \ {Head(backlog)}
  <2>2. owner \in [Fds -> T]
    BY <1>1, <2>1 DEF TypeOK, SocketInv
  <2>3. owner \in Injection(Fds, T)
    BY <2>1, <2>2 DEF Injection, IsInjective, SocketInv
  <2>4. IsFiniteSet(T) /\ Cardinality(T) = Cardinality(Clients) - 1
    BY <1>1, FS_RemoveElement, ClientsAssumption
  <2> HIDE DEF T
  <2>5. Cardinality(Fds) <= Cardinality(T)
    BY <2>3, <2>4, FS_Injection
  <2>6. Cardinality(Fds) \in Nat /\ Cardinality(Clients) \in Nat
    BY FS_CardinalityType, ClientsAssumption
  <2> QED
    BY <2>4, <2>5, <2>6, ClientsAssumption
<1>3. {fd \in Fds : owner[fd] = NULL} # {} /\ {fd \in Fds : owner[fd] = NULL} \in SUBSET Nat
  BY <1>2, ClientsAssumption
<1> QED
  BY <1>3, MinFacts DEF FreeFd

\* Where the first line in the buffer ends.
LEMMA LineEndFacts ==
    ASSUME TypeOK, NEW c \in Clients
    PROVE  /\ LineEnd(c) \in 0..Len(buf[c])
           /\ LineEnd(c) # 0 => buf[c][LineEnd(c)] \in Ends
           /\ \A k \in 1..Len(buf[c]) : (LineEnd(c) = 0 \/ k < LineEnd(c)) => buf[c][k] = "part"
<1> DEFINE I == {i \in 1..Len(buf[c]) : buf[c][i] \in Ends}
<1>1. LineEnd(c) = IF I # {} THEN Min(I) ELSE 0
  BY DEF LineEnd, SelectInSeq
<1>2. buf[c] \in Seq(Pieces) /\ Len(buf[c]) \in Nat /\ \A k \in 1..Len(buf[c]) : buf[c][k] \in Pieces
  BY ElementOfSeq, LenProperties DEF TypeOK
<1>3. I # {} => Min(I) \in I /\ \A y \in I : Min(I) <= y
  <2>1. I \in SUBSET Nat
    BY <1>2
  <2> QED
    BY <2>1, MinFacts
<1>4. \A k \in 1..Len(buf[c]) : k \notin I => buf[c][k] = "part"
  BY <1>2 DEF Pieces
<1> HIDE DEF I
<1>5. I \subseteq 1..Len(buf[c]) /\ \A i \in I : buf[c][i] \in Ends
  BY DEF I
<1>6. CASE I = {}
  BY <1>1, <1>2, <1>4, <1>6
<1>7. CASE I # {}
  <2>1. LineEnd(c) \in I /\ \A y \in I : LineEnd(c) <= y
    BY <1>1, <1>3, <1>7
  <2>2. LineEnd(c) \in 1..Len(buf[c])
    BY <1>5, <2>1
  <2>3. \A k \in 1..Len(buf[c]) : k < LineEnd(c) => k \notin I
    BY <1>2, <2>1, <2>2
  <2> QED
    BY <1>2, <1>4, <1>5, <2>1, <2>2, <2>3
<1> QED
  BY <1>6, <1>7

\* A read takes no more than there is and than there is room for.
LEMMA ReceivedFacts ==
    ASSUME TypeOK, NEW c \in Clients
    PROVE  /\ Received(c) \in Nat /\ Received(c) <= unread[c]
           /\ Received(c) + Len(buf[c]) <= MaxLength
<1>1. unread[c] \in Nat /\ Len(buf[c]) \in Nat /\ Len(buf[c]) <= MaxLength
  BY LenProperties DEF TypeOK
<1>2. {unread[c], MaxLength - Len(buf[c])} \in SUBSET Nat
  BY <1>1, ClientsAssumption
<1>3. /\ Received(c) \in {unread[c], MaxLength - Len(buf[c])}
      /\ Received(c) <= unread[c] /\ Received(c) <= MaxLength - Len(buf[c])
  BY <1>2, MinFacts DEF Received
<1> QED
  BY <1>1, <1>2, <1>3, ClientsAssumption

\* A line that is written finds room.
LEMMA WrittenFacts ==
    ASSUME TypeOK, NEW c \in Clients, CanWrite(c)
    PROVE  Written(c) \in [Clients -> 0..SocketBuffer]
<1>1. inbox \in [Clients -> 0..SocketBuffer]
  BY DEF TypeOK
<1>2. state[c] = "connected" => inbox[c] + 1 \in 0..SocketBuffer
  BY <1>1, ClientsAssumption DEF CanWrite
<1> QED
  BY <1>1, <1>2 DEF Written

\* What is read of w goes to the end of b.
LEMMA ReadSeq ==
    ASSUME NEW S, NEW w \in Seq(S), NEW b \in Seq(S), NEW u \in Nat, NEW r \in Nat,
           u <= Len(w), r <= u
    PROVE  LET new == b \o SubSeq(w, Len(w) - u + 1, Len(w) - u + r)
           IN  /\ new \in Seq(S) /\ Len(new) = Len(b) + r
               /\ \A k \in 1..Len(b) : new[k] = b[k]
               /\ \A k \in 1..r : new[Len(b) + k] = w[Len(w) - u + k]
<1> DEFINE start == Len(w) - u
           new == SubSeq(w, start + 1, start + r)
<1>1. Len(w) \in Nat /\ Len(b) \in Nat /\ start \in Nat
  BY LenProperties
<1>2. new \in Seq(S) /\ Len(new) = r /\ \A k \in 1..r : new[k] = w[start + k]
  <2>1. \A i \in (start + 1)..(start + r) : w[i] \in S
    BY <1>1, ElementOfSeq
  <2> HIDE DEF start
  <2>2. /\ new \in Seq(S)
        /\ Len(new) = IF start + 1 <= start + r THEN (start + r) - (start + 1) + 1 ELSE 0
        /\ \A k \in 1..((start + r) - (start + 1) + 1) : new[k] = w[(start + 1) + k - 1]
    BY <1>1, <2>1, SubSeqProperties
  <2>3. (start + r) - (start + 1) + 1 = r /\ \A k \in 1..r : (start + 1) + k - 1 = start + k
    BY <1>1
  <2> QED
    BY <1>1, <2>2, <2>3
<1> HIDE DEF new, start
<1>3. /\ b \o new \in Seq(S) /\ Len(b \o new) = Len(b) + r
      /\ \A i \in 1..(Len(b) + r) : (b \o new)[i] = IF i <= Len(b) THEN b[i] ELSE new[i - Len(b)]
  BY <1>2, ConcatProperties
<1>4. \A k \in 1..Len(b) : (b \o new)[k] = b[k]
  BY <1>1, <1>3
<1>5. \A k \in 1..r : (b \o new)[Len(b) + k] = w[start + k]
  <2> TAKE k \in 1..r
  <2>1. Len(b) + k \in 1..(Len(b) + r) /\ ~(Len(b) + k <= Len(b)) /\ (Len(b) + k) - Len(b) = k
    BY <1>1
  <2> QED
    BY <1>2, <1>3, <2>1
<1> QED
  BY <1>3, <1>4, <1>5 DEF new, start

\* What is left of b after its first pieces.
LEMMA CutSeq ==
    ASSUME NEW S, NEW b \in Seq(S), NEW end \in 0..Len(b)
    PROVE  LET left == SubSeq(b, end + 1, Len(b))
           IN  /\ left \in Seq(S) /\ Len(left) = Len(b) - end
               /\ \A k \in 1..(Len(b) - end) : left[k] = b[end + k]
<1>1. Len(b) \in Nat /\ \A i \in (end + 1)..Len(b) : b[i] \in S
  BY ElementOfSeq, LenProperties
<1>2. /\ SubSeq(b, end + 1, Len(b)) \in Seq(S)
      /\ Len(SubSeq(b, end + 1, Len(b))) = IF end + 1 <= Len(b) THEN Len(b) - (end + 1) + 1 ELSE 0
      /\ \A k \in 1..(Len(b) - (end + 1) + 1) :
            SubSeq(b, end + 1, Len(b))[k] = b[(end + 1) + k - 1]
  BY <1>1, SubSeqProperties
<1>3. Len(b) - (end + 1) + 1 = Len(b) - end /\ \A k \in 1..(Len(b) - end) : (end + 1) + k - 1 = end + k
  BY <1>1
<1>4. (IF end + 1 <= Len(b) THEN Len(b) - (end + 1) + 1 ELSE 0) = Len(b) - end
  BY <1>1
<1> QED
  BY <1>2, <1>3, <1>4

\* What a read of a client leaves in its socket and its buffer.
LEMMA ReadFacts ==
    ASSUME TypeOK, NEW c \in Clients,
           buf' = [buf EXCEPT ![c] = @ \o SubSeq(wrote[c], Len(wrote[c]) - unread[c] + 1,
                                                 Len(wrote[c]) - unread[c] + Received(c))],
           unread' = [unread EXCEPT ![c] = @ - Received(c)]
    PROVE  /\ buf' \in [Clients -> Seq(Pieces)] /\ unread' \in [Clients -> Nat]
           /\ \A d \in Clients : d # c => buf'[d] = buf[d] /\ unread'[d] = unread[d]
           /\ unread'[c] = unread[c] - Received(c) /\ unread'[c] <= unread[c]
           /\ Len(buf'[c]) = Len(buf[c]) + Received(c) /\ Len(buf'[c]) <= MaxLength
           /\ \A k \in 1..Len(buf[c]) : buf'[c][k] = buf[c][k]
           /\ \A k \in 1..Received(c) :
                 buf'[c][Len(buf[c]) + k] = wrote[c][Len(wrote[c]) - unread[c] + k]
<1> DEFINE new == buf[c] \o SubSeq(wrote[c], Len(wrote[c]) - unread[c] + 1,
                                   Len(wrote[c]) - unread[c] + Received(c))
<1>1. /\ Received(c) \in Nat /\ Received(c) <= unread[c]
      /\ Received(c) + Len(buf[c]) <= MaxLength
  BY ReceivedFacts
<1>2. /\ buf \in [Clients -> Seq(Pieces)] /\ unread \in [Clients -> Nat]
      /\ wrote[c] \in Seq(Pieces) /\ unread[c] <= Len(wrote[c])
  BY DEF TypeOK
<1>3. Len(buf[c]) \in Nat /\ unread[c] \in Nat /\ buf[c] \in Seq(Pieces)
  BY <1>2, LenProperties
<1>4. /\ new \in Seq(Pieces) /\ Len(new) = Len(buf[c]) + Received(c)
      /\ \A k \in 1..Len(buf[c]) : new[k] = buf[c][k]
      /\ \A k \in 1..Received(c) : new[Len(buf[c]) + k] = wrote[c][Len(wrote[c]) - unread[c] + k]
  <2> DEFINE w == wrote[c]
             b == buf[c]
             u == unread[c]
             r == Received(c)
  <2>1. w \in Seq(Pieces) /\ b \in Seq(Pieces) /\ u \in Nat /\ r \in Nat /\ u <= Len(w) /\ r <= u
    BY <1>1, <1>2, <1>3
  <2> HIDE DEF w, b, u, r
  <2>2. LET n == b \o SubSeq(w, Len(w) - u + 1, Len(w) - u + r)
        IN  /\ n \in Seq(Pieces) /\ Len(n) = Len(b) + r
            /\ \A k \in 1..Len(b) : n[k] = b[k]
            /\ \A k \in 1..r : n[Len(b) + k] = w[Len(w) - u + k]
    BY ONLY <2>1, ReadSeq
  <2> QED
    BY ONLY <2>2 DEF w, b, u, r, new
<1>5. buf' = [buf EXCEPT ![c] = new]
  OBVIOUS
<1> HIDE DEF new
<1>6. buf'[c] = new /\ buf' \in [Clients -> Seq(Pieces)]
  BY <1>2, <1>4, <1>5
<1>7. unread'[c] = unread[c] - Received(c) /\ unread[c] - Received(c) \in Nat
  BY <1>1, <1>2, <1>3
<1>8. unread' \in [Clients -> Nat]
  BY <1>2, <1>7
<1>9. \A d \in Clients : d # c => buf'[d] = buf[d] /\ unread'[d] = unread[d]
  BY <1>2, <1>5
<1>10. unread'[c] <= unread[c] /\ Len(buf'[c]) = Len(buf[c]) + Received(c) /\ Len(buf'[c]) <= MaxLength
  <2>1. \A u, r \in Nat : u - r <= u
    OBVIOUS
  <2>2. unread'[c] <= unread[c]
    BY <1>1, <1>3, <1>7, <2>1
  <2>3. Len(buf'[c]) = Len(buf[c]) + Received(c)
    BY <1>4, <1>6
  <2>4. Len(buf'[c]) <= MaxLength
    BY <1>1, <1>3, <2>3
  <2> QED
    BY <2>2, <2>3, <2>4
<1> QED
  BY <1>4, <1>6, <1>7, <1>8, <1>9, <1>10

\* What the execution of a line leaves in the buffer.
LEMMA LineFacts ==
    ASSUME TypeOK, NEW c \in Clients,
           buf' = [buf EXCEPT ![c] = SubSeq(@, LineEnd(c) + 1, Len(@))]
    PROVE  /\ buf' \in [Clients -> Seq(Pieces)]
           /\ \A d \in Clients : d # c => buf'[d] = buf[d]
           /\ Len(buf'[c]) = Len(buf[c]) - LineEnd(c) /\ Len(buf'[c]) <= MaxLength
           /\ \A k \in 1..(Len(buf[c]) - LineEnd(c)) : buf'[c][k] = buf[c][LineEnd(c) + k]
<1> DEFINE left == SubSeq(buf[c], LineEnd(c) + 1, Len(buf[c]))
<1>1. /\ buf \in [Clients -> Seq(Pieces)] /\ buf[c] \in Seq(Pieces) /\ Len(buf[c]) <= MaxLength
      /\ LineEnd(c) \in 0..Len(buf[c])
  BY LineEndFacts DEF TypeOK
<1>2. Len(buf[c]) \in Nat
  BY <1>1, LenProperties
<1>3. /\ left \in Seq(Pieces) /\ Len(left) = Len(buf[c]) - LineEnd(c)
      /\ \A k \in 1..(Len(buf[c]) - LineEnd(c)) : left[k] = buf[c][LineEnd(c) + k]
  BY <1>1, CutSeq
<1>4. buf' = [buf EXCEPT ![c] = left]
  OBVIOUS
<1> HIDE DEF left
<1>5. buf'[c] = left /\ buf' \in [Clients -> Seq(Pieces)]
  BY <1>1, <1>3, <1>4
<1>6. \A d \in Clients : d # c => buf'[d] = buf[d]
  BY <1>1, <1>4
<1>7. Len(left) <= MaxLength
  BY <1>1, <1>2, <1>3, ClientsAssumption
<1> QED
  BY <1>3, <1>5, <1>6, <1>7

\* Initially there are no clients.
LEMMA InvInit == Init => Inv
<1> SUFFICES ASSUME Init
             PROVE  Inv
  OBVIOUS
<1> USE DEF Init
<1>1. TypeOK
  BY ClientsAssumption, EmptySeq DEF TypeOK
<1>2. SocketInv
  BY DEF SocketInv, IsInjective, ToSet
<1>3. SlotInv /\ RoundInv
  BY DEF SlotInv, RoundInv
<1>4. StreamInv
  <2> SUFFICES ASSUME NEW c \in Clients
               PROVE  StreamOf(c)
    BY DEF StreamInv
  <2>1. Taken(c) = 0 /\ Len(buf[c]) = 0
    BY DEF Taken
  <2>2. {i \in 1..Taken(c) : wrote[c][i] = "command"} = {}
    BY <2>1
  <2> QED
    BY <2>1, <2>2, FS_EmptySet DEF StreamOf
<1>5. DroppedForCause
  BY DEF DroppedForCause
<1> QED
  BY <1>1, <1>2, <1>3, <1>4, <1>5 DEF Inv

\* Every step keeps the types.
LEMMA TypeStep ==
    ASSUME Inv, [Next]_vars
    PROVE  TypeOK'
<1>0. TypeOK /\ SocketInv /\ SlotInv /\ RoundInv /\ StreamInv
  BY DEF Inv
<1> USE <1>0 DEF TypeOK
<1>1. ASSUME NEW c \in Clients, Connect(c)
      PROVE  TypeOK'
  <2>1. backlog' \in Seq(Clients)
    BY <1>1, AppendProperties DEF Connect
  <2> QED
    BY <1>1, <2>1 DEF Connect, daemon, memory
<1>2. ASSUME NEW c \in Clients, NEW piece \in Pieces, Write(c, piece)
      PROVE  TypeOK'
  <2>1. /\ wrote[c] \in Seq(Pieces)
        /\ Append(wrote[c], piece) \in Seq(Pieces)
        /\ Len(Append(wrote[c], piece)) = Len(wrote[c]) + 1 /\ Len(wrote[c]) \in Nat
    BY AppendProperties, LenProperties
  <2>2. wrote' \in [Clients -> Seq(Pieces)] /\ unread' \in [Clients -> Nat]
    BY <1>2, <2>1 DEF Write
  <2>3. \A d \in Clients : unread'[d] <= Len(wrote'[d])
    BY <1>2, <2>1 DEF Write
  <2> QED
    BY <1>2, <2>2, <2>3 DEF Write, daemon, memory
<1>3. ASSUME NEW c \in Clients, Read(c)
      PROVE  TypeOK'
  <2>1. inbox' \in [Clients -> 0..SocketBuffer]
    BY <1>3, ClientsAssumption DEF Read
  <2> QED
    BY <1>3, <2>1 DEF Read, daemon, memory
<1>4. ASSUME NEW c \in Clients, Close(c)
      PROVE  TypeOK'
  <2>1. inbox' \in [Clients -> 0..SocketBuffer]
    BY <1>4, ClientsAssumption DEF Close
  <2>2. state' \in [Clients -> {"new", "connected", "closed", "dropped"}]
    BY <1>4 DEF Close
  <2> QED
    BY <1>4, <2>1, <2>2 DEF Close, daemon, memory
<1>5. CASE Poll
  <2>1. /\ ready' \in [accept : BOOLEAN, monitor : BOOLEAN] /\ events' \in 0..MaxEvents
    BY <1>5, ClientsAssumption DEF Poll
  <2>2. pollfds' \in Seq([fd : Fds, revents : {"none", "in", "hup"}])
    <3>1. \A i \in 1..Len(client_root) :
             pollfds'[i] \in [fd : Fds, revents : {"none", "in", "hup"}]
      <4> TAKE i \in 1..Len(client_root)
      <4>1. client_root[i] \in Fds
        BY ElementOfSeq
      <4>2. Revents(owner[client_root[i]]) \in {"none", "in", "hup"}
        BY DEF Revents
      <4>3. pollfds'[i] = Slot(client_root[i], Revents(owner[client_root[i]]))
        BY <1>5 DEF Poll
      <4> QED
        BY <4>1, <4>2, <4>3 DEF Slot
    <3>2. pollfds' = [i \in 1..Len(client_root) |-> pollfds'[i]] /\ Len(client_root) \in Nat
      BY <1>5, LenProperties DEF Poll
    <3>3. pollfds' \in [1..Len(client_root) -> [fd : Fds, revents : {"none", "in", "hup"}]]
      BY <3>1, <3>2
    <3> QED
      BY <3>2, <3>3, FunctionIsSeq
  <2>3. slot' \in 0..(Len(pollfds') + 1)
    BY <1>5, <2>2, LenProperties DEF Poll, RoundInv
  <2> QED
    BY <1>5, <2>1, <2>2, <2>3 DEF Poll, sockets
<1>6. CASE Accept
  <2>1. CASE ready.accept
    <3>1. FreeFd \in Fds /\ backlog # <<>>
      BY <1>6, <2>1, FreeFdFacts DEF Accept, RoundInv
    <3>2. Head(backlog) \in Clients /\ Tail(backlog) \in Seq(Clients)
      BY <3>1, TailFacts
    <3>3. Append(client_root, FreeFd) \in Seq(Fds)
      BY <3>1, AppendProperties
    <3>4. client_root' \in Seq(Fds)
      BY <1>6, <2>1, <3>3 DEF Accept
    <3>5. owner' \in [Fds -> Clients \cup {NULL}]
      <4>1. owner' = [owner EXCEPT ![FreeFd] = Head(backlog)]
        BY <1>6, <2>1 DEF Accept
      <4> QED
        BY <3>2, <4>1
    <3>6. backlog' \in Seq(Clients)
      BY <1>6, <2>1, <3>2 DEF Accept
    <3> QED
      BY <1>6, <3>4, <3>5, <3>6 DEF Accept
  <2>2. CASE ~ready.accept
    BY <1>6, <2>2 DEF Accept
  <2> QED
    BY <2>1, <2>2
<1>7. CASE Monitor
  <2>1. audience' \in Seq(Fds)
    BY <1>7, EmptySeq DEF Monitor
  <2>2. slot' \in 0..(Len(pollfds) + 1) /\ pc' \in {"clients", "notify"}
    BY <1>7, LenProperties DEF Monitor, ToClients
  <2> QED
    BY <1>7, <2>1, <2>2 DEF Monitor, sockets, memory
<1>8. CASE Notify
  <2>1. Head(audience) \in ToSet(client_root) /\ Head(audience) \in Fds /\ Tail(audience) \in Seq(Fds)
    BY <1>8, TailFacts DEF Notify, RoundInv
  <2>2. owner[Head(audience)] \in Clients
    BY <2>1 DEF SocketInv
  <2>3. inbox' \in [Clients -> 0..SocketBuffer]
    BY <1>8, <2>2, WrittenFacts DEF Notify
  <2>4. slot' \in 0..(Len(pollfds) + 1) /\ pc' \in {"clients", "notify"}
    BY <1>8, LenProperties DEF Notify, ToClients
  <2> QED
    BY <1>8, <2>1, <2>3, <2>4 DEF Notify, memory
<1>9. CASE Skip
  BY <1>9, LenProperties DEF Skip, NextSlot, sockets, memory
<1>10. CASE HangUp
  <2>1. Here.fd \in Fds /\ Here.fd \in ToSet(client_root) /\ remove_client(Here.fd)
    BY <1>10, HereFacts DEF HangUp
  <2>2. /\ client_root' \in Seq(Fds) /\ owner' \in [Fds -> Clients \cup {NULL}]
        /\ state' \in [Clients -> {"new", "connected", "closed", "dropped"}]
    BY <2>1, RemoveFacts
  <2>3. slot' \in 0..(Len(pollfds) + 1) /\ pc' = "clients"
    BY <1>10, LenProperties DEF HangUp, NextSlot
  <2> QED
    BY <1>10, <2>2, <2>3 DEF HangUp
<1>11. CASE ReadClient
  <2>1. /\ Here.fd \in Fds /\ Here.fd \in ToSet(client_root) /\ owner[Here.fd] \in Clients
    BY <1>11, HereFacts DEF ReadClient
  <2> DEFINE c == owner[Here.fd]
  <2>2. CASE /\ buf' = [buf EXCEPT ![c] = @ \o SubSeq(wrote[c], Len(wrote[c]) - unread[c] + 1,
                                                      Len(wrote[c]) - unread[c] + Received(c))]
             /\ unread' = [unread EXCEPT ![c] = @ - Received(c)]
             /\ pc' = "lines" /\ UNCHANGED <<client_root, owner, state, slot>>
    <3>1. /\ buf' \in [Clients -> Seq(Pieces)] /\ unread' \in [Clients -> Nat]
          /\ \A d \in Clients : d # c => buf'[d] = buf[d] /\ unread'[d] = unread[d]
          /\ Len(buf'[c]) <= MaxLength /\ unread'[c] <= unread[c]
      BY <2>1, <2>2, ReadFacts
    <3>2. \A d \in Clients : Len(wrote[d]) \in Nat /\ unread'[d] \in Nat /\ unread[d] \in Nat
      BY <3>1, LenProperties
    <3>3. \A d \in Clients : unread'[d] <= unread[d] /\ Len(buf'[d]) <= MaxLength
      <4> TAKE d \in Clients
      <4>1. CASE d = c
        BY <3>1, <4>1
      <4>2. CASE d # c
        BY <3>1, <3>2, <4>2
      <4> QED
        BY <4>1, <4>2
    <3>4. \A d \in Clients : unread'[d] <= Len(wrote[d])
      BY <3>2, <3>3
    <3> QED
      BY <1>11, <2>2, <3>1, <3>3, <3>4 DEF ReadClient
  <2>3. CASE remove_client(Here.fd) /\ NextSlot /\ UNCHANGED <<buf, unread>>
    <3>1. /\ client_root' \in Seq(Fds) /\ owner' \in [Fds -> Clients \cup {NULL}]
          /\ state' \in [Clients -> {"new", "connected", "closed", "dropped"}]
      BY <2>1, <2>3, RemoveFacts
    <3>2. slot' \in 0..(Len(pollfds) + 1) /\ pc' = "clients"
      BY <1>11, <2>3, LenProperties DEF ReadClient, NextSlot
    <3> QED
      BY <1>11, <2>3, <3>1, <3>2 DEF ReadClient
  <2> QED
    BY <1>11, <2>1, <2>2, <2>3 DEF ReadClient
<1>12. CASE ExecuteLine
  <2>1. owner[Here.fd] \in Clients
    BY <1>12, HereFacts DEF ExecuteLine, RoundInv
  <2> DEFINE c == owner[Here.fd]
  <2>2. inbox' \in [Clients -> 0..SocketBuffer]
    BY <1>12, <2>1, WrittenFacts DEF ExecuteLine
  <2>3. answered' \in [Clients -> Nat]
    <3>1. CASE answered' = answered
      BY <3>1
    <3>2. CASE answered' = [answered EXCEPT ![c] = @ + 1]
      BY <2>1, <3>2
    <3> QED
      BY <1>12, <3>1, <3>2 DEF ExecuteLine
  <2>4. /\ buf' \in [Clients -> Seq(Pieces)] /\ Len(buf'[c]) <= MaxLength
        /\ \A d \in Clients : d # c => buf'[d] = buf[d]
    BY <1>12, <2>1, LineFacts DEF ExecuteLine
  <2>5. \A d \in Clients : Len(buf'[d]) <= MaxLength
    BY <2>1, <2>4
  <2> QED
    BY <1>12, <2>2, <2>3, <2>4, <2>5 DEF ExecuteLine
<1>13. CASE LinesDone
  <2>1. slot' \in 0..(Len(pollfds') + 1) /\ pc' = "clients" /\ pollfds' = pollfds
    BY <1>13, LenProperties DEF LinesDone, NextSlot, RoundInv, memory
  <2> QED
    BY <1>13, <2>1 DEF LinesDone, sockets, memory
<1>14. CASE RemoveClient
  <2>1. Here.fd \in Fds /\ Here.fd \in ToSet(client_root) /\ remove_client(Here.fd)
    BY <1>14, HereFacts DEF RemoveClient, RoundInv
  <2>2. /\ client_root' \in Seq(Fds) /\ owner' \in [Fds -> Clients \cup {NULL}]
        /\ state' \in [Clients -> {"new", "connected", "closed", "dropped"}]
    BY <2>1, RemoveFacts
  <2>3. slot' \in 0..(Len(pollfds) + 1) /\ pc' = "clients"
    BY <1>14, LenProperties DEF RemoveClient, NextSlot, RoundInv
  <2> QED
    BY <1>14, <2>2, <2>3 DEF RemoveClient
<1>15. CASE EndRound
  BY <1>15, LenProperties DEF EndRound, sockets
<1>16. CASE Exit
  BY <1>16, EmptySeq DEF Exit
<1>17. CASE UNCHANGED vars
  BY <1>17 DEF vars, sockets, daemon, memory
<1> QED
  BY <1>1, <1>2, <1>3, <1>4, <1>5, <1>6, <1>7, <1>8, <1>9, <1>10, <1>11, <1>12, <1>13, <1>14,
     <1>15, <1>16, <1>17 DEF Next, Loop, Terminated

\* A client that is removed gives its descriptor back.
LEMMA RemovedSockets ==
    ASSUME TypeOK, SocketInv, NEW fd \in Fds, fd \in ToSet(client_root), remove_client(fd),
           UNCHANGED backlog
    PROVE  SocketInv'
<1>1. /\ owner[fd] \in Clients /\ IsInjective(client_root')
      /\ ToSet(client_root') = ToSet(client_root) \ {fd}
      /\ owner' = [owner EXCEPT ![fd] = NULL]
      /\ state' = [state EXCEPT ![owner[fd]] = IF @ = "closed" THEN @ ELSE "dropped"]
  BY RemoveFacts
<1>2. \A gd \in Fds : owner'[gd] = IF gd = fd THEN NULL ELSE owner[gd]
  BY <1>1 DEF TypeOK
<1>3. \A c \in Clients : state[c] # "new" => state'[c] # "new"
  BY <1>1 DEF TypeOK
<1>4. NULL \notin Clients /\ ToSet(backlog) \subseteq Clients
  BY ClientsAssumption, ElementOfSeq DEF TypeOK, ToSet
<1>5. \A gd \in Fds : owner[gd] # NULL => owner[gd] \in Clients
  BY DEF TypeOK
<1> QED
  BY <1>1, <1>2, <1>3, <1>4, <1>5 DEF SocketInv

\* Every step keeps descriptors and clients together.
LEMMA SocketStep ==
    ASSUME Inv, [Next]_vars
    PROVE  SocketInv'
<1>0. TypeOK /\ SocketInv /\ SlotInv /\ RoundInv
  BY DEF Inv
<1>t. /\ NULL \notin Clients /\ ToSet(backlog) \subseteq Clients
      /\ \A fd \in Fds : owner[fd] # NULL => owner[fd] \in Clients
  BY <1>0, ClientsAssumption, Elements DEF TypeOK
<1>1. ASSUME NEW c \in Clients, Connect(c)
      PROVE  SocketInv'
  <2>1. c \notin ToSet(backlog) /\ \A fd \in Fds : owner[fd] # c
    BY <1>0, <1>1, <1>t DEF Connect, SocketInv
  <2>2. ToSet(backlog') = ToSet(backlog) \cup {c} /\ IsInjective(backlog')
    BY <1>0, <1>1, <2>1, AppendFacts DEF Connect, TypeOK, SocketInv
  <2>3. \A d \in Clients : state[d] # "new" \/ d = c => state'[d] # "new"
    BY <1>0, <1>1 DEF Connect, TypeOK
  <2> QED
    BY <1>0, <1>1, <1>t, <2>1, <2>2, <2>3 DEF Connect, SocketInv, daemon, memory
<1>4. ASSUME NEW c \in Clients, Close(c)
      PROVE  SocketInv'
  <2>1. \A d \in Clients : state[d] # "new" => state'[d] # "new"
    BY <1>0, <1>4 DEF Close, TypeOK
  <2> QED
    BY <1>0, <1>4, <1>t, <2>1 DEF Close, SocketInv, daemon, memory
<1>6. CASE Accept
  <2>1. CASE ~ready.accept
    BY <1>0, <1>6, <2>1 DEF Accept, SocketInv
  <2>2. CASE ready.accept
    <3>1. FreeFd \in Fds /\ owner[FreeFd] = NULL /\ backlog # <<>>
      BY <1>0, <1>6, <2>2, FreeFdFacts DEF Accept, RoundInv
    <3>2. FreeFd \notin ToSet(client_root)
      BY <1>0, <3>1 DEF SocketInv
    <3>3. ToSet(client_root') = ToSet(client_root) \cup {FreeFd} /\ IsInjective(client_root')
      <4>1. client_root' = Append(client_root, FreeFd)
        BY <1>6, <2>2, <3>2 DEF Accept
      <4>2. client_root \in Seq(Fds) /\ IsInjective(client_root)
        BY <1>0 DEF TypeOK, SocketInv
      <4> QED
        BY <3>1, <3>2, <4>1, <4>2, AppendFacts
    <3>4. /\ Head(backlog) \in ToSet(backlog) /\ ToSet(backlog') \subseteq ToSet(backlog)
          /\ Head(backlog) \notin ToSet(backlog') /\ IsInjective(backlog')
      <4>1. backlog' = Tail(backlog)
        BY <1>6, <2>2 DEF Accept
      <4>2. backlog \in Seq(Clients) /\ IsInjective(backlog)
        BY <1>0 DEF TypeOK, SocketInv
      <4> QED
        BY <3>1, <4>1, <4>2, TailFacts
    <3>5. \A fd \in Fds : owner'[fd] = IF fd = FreeFd THEN Head(backlog) ELSE owner[fd]
      BY <1>0, <1>6, <2>2 DEF Accept, TypeOK
    <3> QED
      BY <1>0, <1>6, <1>t, <3>1, <3>3, <3>4, <3>5 DEF Accept, SocketInv
  <2> QED
    BY <2>1, <2>2
<1>10. CASE HangUp
  BY <1>0, <1>10, HereFacts, RemovedSockets DEF HangUp
<1>11. CASE ReadClient
  <2>1. CASE UNCHANGED <<client_root, owner, state>>
    BY <1>0, <1>11, <2>1 DEF ReadClient, SocketInv
  <2>2. CASE remove_client(Here.fd)
    BY <1>0, <1>11, <2>2, HereFacts, RemovedSockets DEF ReadClient
  <2> QED
    BY <1>11, <2>1, <2>2 DEF ReadClient
<1>14. CASE RemoveClient
  BY <1>0, <1>14, HereFacts, RemovedSockets DEF RemoveClient, RoundInv
<1>16. CASE Exit
  <2>1. ToSet(backlog') = {} /\ ToSet(client_root') = {}
    BY <1>16 DEF Exit, ToSet
  <2>2. IsInjective(backlog') /\ IsInjective(client_root')
    BY <1>16 DEF Exit, IsInjective
  <2> QED
    BY <1>16, <2>1, <2>2 DEF Exit, SocketInv
<1>17. CASE UNCHANGED <<state, backlog, owner, client_root>>
  BY <1>0, <1>17 DEF SocketInv
<1>18. \/ \E c \in Clients : Connect(c) \/ Close(c)
       \/ Accept \/ HangUp \/ ReadClient \/ RemoveClient \/ Exit
       \/ UNCHANGED <<state, backlog, owner, client_root>>
  BY DEF Next, Loop, Terminated, Write, Read, Poll, Monitor, Notify, Skip, ExecuteLine, LinesDone,
     EndRound, vars, sockets, daemon, memory
<1> QED
  BY <1>1, <1>4, <1>6, <1>10, <1>11, <1>14, <1>16, <1>17, <1>18

\* The slots that come after the one of a removed client stay as they are.
LEMMA RemovedSlots ==
    ASSUME TypeOK, SocketInv, SlotInv, pc \in {"clients", "lines"}, slot \in DOMAIN pollfds,
           Here.fd \in Fds, Here.fd \in ToSet(client_root), remove_client(Here.fd),
           slot' = slot + 1, UNCHANGED pollfds
    PROVE  SlotInv'
<1>1. /\ owner[Here.fd] \in Clients
      /\ ToSet(client_root') = ToSet(client_root) \ {Here.fd}
      /\ owner' = [owner EXCEPT ![Here.fd] = NULL]
      /\ state' = [state EXCEPT ![owner[Here.fd]] = IF @ = "closed" THEN @ ELSE "dropped"]
  BY RemoveFacts
<1>2. \A c \in Clients : state[c] = "closed" => state'[c] = "closed"
  BY <1>1 DEF TypeOK
<1>3. slot \in Nat /\ \A i \in DOMAIN pollfds : i \in Nat /\ pollfds[i].fd \in Fds
  <2>1. pollfds \in Seq([fd : Fds, revents : {"none", "in", "hup"}]) /\ slot \in 0..(Len(pollfds) + 1)
    BY DEF TypeOK
  <2>2. \A i \in DOMAIN pollfds : i \in Nat /\ pollfds[i] \in [fd : Fds, revents : {"none", "in", "hup"}]
    BY <2>1, Elements
  <2>3. slot \in Nat
    BY <2>1, LenProperties
  <2> QED
    BY <2>2, <2>3
<1>4. ASSUME NEW i \in DOMAIN pollfds, i >= slot + 1
      PROVE  /\ pollfds[i].fd \in ToSet(client_root')
             /\ pollfds[i].revents = "hup" => state'[owner'[pollfds[i].fd]] = "closed"
  <2>1. i >= slot /\ i # slot
    BY <1>3, <1>4
  <2>2. pollfds[i].fd \in ToSet(client_root) /\ pollfds[i].fd # Here.fd
    BY <2>1 DEF SlotInv, Here
  <2>3. owner'[pollfds[i].fd] = owner[pollfds[i].fd] /\ owner[pollfds[i].fd] \in Clients
    BY <1>1, <1>3, <2>2 DEF TypeOK, SocketInv
  <2>4. pollfds[i].revents = "hup" => state[owner[pollfds[i].fd]] = "closed"
    BY <2>1 DEF SlotInv
  <2> QED
    BY <1>1, <1>2, <2>2, <2>3, <2>4
<1> QED
  BY <1>4 DEF SlotInv

\* Every step leaves the slots to come with clients that are listed.
LEMMA SlotStep ==
    ASSUME Inv, [Next]_vars
    PROVE  SlotInv'
<1>0. TypeOK /\ SocketInv /\ SlotInv /\ RoundInv
  BY DEF Inv
<1>t. /\ slot \in Nat
      /\ \A i \in DOMAIN pollfds : i \in Nat /\ i # 0 /\ i <= Len(pollfds) /\ pollfds[i].fd \in Fds
      /\ \A fd \in Fds : fd \in ToSet(client_root) => owner[fd] \in Clients
  <2>1. pollfds \in Seq([fd : Fds, revents : {"none", "in", "hup"}]) /\ slot \in 0..(Len(pollfds) + 1)
    BY <1>0 DEF TypeOK
  <2>2. \A i \in DOMAIN pollfds : /\ i \in Nat /\ i # 0 /\ i <= Len(pollfds)
                                  /\ pollfds[i] \in [fd : Fds, revents : {"none", "in", "hup"}]
    BY <2>1, Elements
  <2>3. slot \in Nat
    BY <2>1, LenProperties
  <2>4. \A fd \in Fds : fd \in ToSet(client_root) => owner[fd] \in Clients
    BY <1>0 DEF TypeOK, SocketInv
  <2> QED
    BY <2>2, <2>3, <2>4
<1>1. ASSUME NEW c \in Clients, Connect(c) \/ Close(c)
      PROVE  SlotInv'
  <2>1. \A d \in Clients : state[d] = "closed" => state'[d] = "closed"
    BY <1>0, <1>1 DEF Connect, Close, TypeOK
  <2>2. UNCHANGED <<pc, slot, pollfds, client_root, owner>>
    BY <1>1 DEF Connect, Close, daemon, memory
  <2> QED
    BY <1>0, <1>t, <2>1, <2>2 DEF SlotInv
<1>5. CASE Poll
  <2>1. /\ DOMAIN pollfds' = DOMAIN client_root /\ UNCHANGED <<slot, client_root, owner, state>>
        /\ \A i \in DOMAIN client_root :
              pollfds'[i] = Slot(client_root[i], Revents(owner[client_root[i]]))
    BY <1>5 DEF Poll, sockets
  <2>2. ASSUME NEW i \in DOMAIN client_root
        PROVE  /\ pollfds'[i].fd = client_root[i] /\ client_root[i] \in ToSet(client_root)
               /\ pollfds'[i].revents = "hup" => state[owner[client_root[i]]] = "closed"
    BY <2>1 DEF Slot, Revents, ToSet
  <2> QED
    BY <1>0, <2>1, <2>2 DEF SlotInv, SocketInv, IsInjective
<1>6. CASE Accept
  <2>1. CASE ~ready.accept
    BY <1>0, <1>6, <2>1 DEF Accept, SlotInv
  <2>2. CASE ready.accept
    <3>1. FreeFd \in Fds /\ owner[FreeFd] = NULL /\ FreeFd \notin ToSet(client_root)
      BY <1>0, <1>6, <2>2, FreeFdFacts DEF Accept, RoundInv, SocketInv
    <3>2. ToSet(client_root) \subseteq ToSet(client_root')
      <4>1. client_root' = Append(client_root, FreeFd) /\ client_root \in Seq(Fds)
        BY <1>0, <1>6, <2>2, <3>1 DEF Accept, TypeOK
      <4> QED
        BY <3>1, <4>1, AppendFacts
    <3>3. \A fd \in Fds : fd \in ToSet(client_root) => owner'[fd] = owner[fd]
      BY <1>0, <1>6, <2>2, <3>1 DEF Accept, TypeOK
    <3> QED
      BY <1>0, <1>6, <1>t, <3>2, <3>3 DEF Accept, SlotInv
  <2> QED
    BY <2>1, <2>2
<1>7. CASE Monitor
  <2>1. slot' >= slot
    BY <1>0, <1>7, <1>t DEF Monitor, ToClients, RoundInv
  <2> QED
    BY <1>0, <1>7, <1>t, <2>1 DEF Monitor, ToClients, SlotInv, RoundInv, sockets, memory
<1>8. CASE Notify
  BY <1>0, <1>8, <1>t DEF Notify, ToClients, SlotInv, RoundInv, memory
<1>9. CASE Skip \/ LinesDone
  <2>1. /\ slot' = slot + 1 /\ pc' = "clients" /\ pc \in {"clients", "lines"}
        /\ UNCHANGED <<pollfds, client_root, owner, state>>
    BY <1>9 DEF Skip, LinesDone, NextSlot, sockets, memory
  <2> QED
    BY <1>0, <1>t, <2>1 DEF SlotInv
<1>10. CASE HangUp
  <2>1. /\ slot \in DOMAIN pollfds /\ Here.fd \in Fds /\ Here.fd \in ToSet(client_root)
        /\ pc \in {"clients", "lines"} /\ remove_client(Here.fd)
    BY <1>0, <1>10, HereFacts DEF HangUp
  <2> QED
    BY <1>0, <1>10, <2>1, RemovedSlots DEF HangUp, NextSlot
<1>11. CASE ReadClient
  <2>1. /\ slot \in DOMAIN pollfds /\ Here.fd \in Fds /\ Here.fd \in ToSet(client_root)
        /\ pc \in {"clients", "lines"}
    BY <1>0, <1>11, HereFacts DEF ReadClient
  <2>2. CASE pc' = "lines" /\ UNCHANGED <<client_root, owner, state, slot>>
    BY <1>0, <1>11, <2>1, <2>2 DEF ReadClient, SlotInv
  <2>3. CASE remove_client(Here.fd) /\ NextSlot
    BY <1>0, <1>11, <2>1, <2>3, RemovedSlots DEF ReadClient, NextSlot
  <2> QED
    BY <1>11, <2>1, <2>2, <2>3 DEF ReadClient
<1>14. CASE RemoveClient
  <2>1. /\ slot \in DOMAIN pollfds /\ Here.fd \in Fds /\ Here.fd \in ToSet(client_root)
        /\ pc \in {"clients", "lines"} /\ remove_client(Here.fd)
    BY <1>0, <1>14, HereFacts DEF RemoveClient, RoundInv
  <2> QED
    BY <1>0, <1>14, <2>1, RemovedSlots DEF RemoveClient, NextSlot
<1>15. CASE EndRound \/ Exit
  BY <1>15 DEF EndRound, Exit, SlotInv
<1>17. CASE UNCHANGED <<pc, slot, pollfds, client_root, owner, state>>
  BY <1>0, <1>17 DEF SlotInv
<1>18. \/ \E c \in Clients : Connect(c) \/ Close(c)
       \/ Poll \/ Accept \/ Monitor \/ Notify \/ Skip \/ LinesDone \/ HangUp \/ ReadClient
       \/ RemoveClient \/ EndRound \/ Exit
       \/ UNCHANGED <<pc, slot, pollfds, client_root, owner, state>>
  BY DEF Next, Loop, Terminated, Write, Read, ExecuteLine, vars, sockets, daemon, memory
<1> QED
  BY <1>1, <1>5, <1>6, <1>7, <1>8, <1>9, <1>10, <1>11, <1>14, <1>15, <1>17, <1>18

\* Every step leaves the daemon with what its place says.
LEMMA RoundStep ==
    ASSUME Inv, [Next]_vars
    PROVE  RoundInv'
<1>0. TypeOK /\ SocketInv /\ SlotInv /\ RoundInv
  BY DEF Inv
<1>t. slot \in Nat
  BY <1>0, LenProperties DEF TypeOK
<1>1. ASSUME NEW c \in Clients, Connect(c)
      PROVE  RoundInv'
  <2>1. backlog' # <<>>
    BY <1>0, <1>1, AppendFacts DEF Connect, TypeOK
  <2> QED
    BY <1>0, <1>1, <2>1 DEF Connect, RoundInv, daemon, memory
<1>5. CASE Poll
  <2>1. ready'.accept => backlog # <<>>
    <3>1. PICK monitor \in BOOLEAN : ready' = [accept |-> backlog # <<>>, monitor |-> monitor]
      BY <1>5 DEF Poll
    <3> QED
      BY <3>1
  <2>2. pc' = "accept" /\ slot' = 0 /\ backlog' = backlog
    BY <1>0, <1>5 DEF Poll, RoundInv, sockets
  <2> QED
    BY <2>1, <2>2 DEF RoundInv
<1>6. CASE Accept
  BY <1>0, <1>6 DEF Accept, RoundInv
<1>7. CASE Monitor
  <2>1. audience' # <<>> => audience' = client_root
    BY <1>7 DEF Monitor
  <2> QED
    BY <1>0, <1>7, <2>1 DEF Monitor, ToClients, RoundInv, sockets, memory
<1>8. CASE Notify
  <2>1. ToSet(audience') \subseteq ToSet(client_root)
    BY <1>0, <1>8, TailFacts DEF Notify, RoundInv, TypeOK
  <2> QED
    BY <1>0, <1>8, <2>1 DEF Notify, ToClients, RoundInv, memory
<1>9. CASE Skip \/ LinesDone \/ HangUp \/ RemoveClient
  <2>1. pc' = "clients" /\ slot' = slot + 1
    BY <1>9 DEF Skip, LinesDone, HangUp, RemoveClient, NextSlot
  <2> QED
    BY <1>t, <2>1 DEF RoundInv
<1>11. CASE ReadClient
  <2>1. Here.fd \in ToSet(client_root)
    BY <1>0, <1>11, HereFacts DEF ReadClient
  <2>2. \/ pc' = "lines" /\ UNCHANGED slot
        \/ pc' = "clients" /\ slot' = slot + 1
    BY <1>11, <2>1 DEF ReadClient, NextSlot
  <2> QED
    BY <1>0, <1>11, <1>t, <2>2 DEF ReadClient, RoundInv
<1>12. CASE ExecuteLine
  BY <1>0, <1>12 DEF ExecuteLine, RoundInv
<1>15. CASE EndRound
  BY <1>15 DEF EndRound, RoundInv, sockets
<1>16. CASE Exit
  BY <1>16 DEF Exit, RoundInv
<1>17. CASE UNCHANGED <<pc, slot, pollfds, ready, backlog, audience, client_root, pollfds_count>>
  BY <1>0, <1>17 DEF RoundInv
<1>18. \/ \E c \in Clients : Connect(c)
       \/ Poll \/ Accept \/ Monitor \/ Notify \/ Skip \/ LinesDone \/ HangUp \/ ReadClient
       \/ ExecuteLine \/ RemoveClient \/ EndRound \/ Exit
       \/ UNCHANGED <<pc, slot, pollfds, ready, backlog, audience, client_root, pollfds_count>>
  BY DEF Next, Loop, Terminated, Write, Read, Close, vars, sockets, daemon, memory
<1> QED
  BY <1>1, <1>5, <1>6, <1>7, <1>8, <1>9, <1>11, <1>12, <1>15, <1>16, <1>17, <1>18

\* The numbers of pieces that are taken, in the buffer and unread.
LEMMA TakenFacts ==
    ASSUME TypeOK, StreamInv, NEW c \in Clients
    PROVE  /\ Taken(c) \in Nat /\ Len(buf[c]) \in Nat /\ Len(wrote[c]) \in Nat /\ unread[c] \in Nat
           /\ Len(wrote[c]) - unread[c] = Taken(c) + Len(buf[c])
           /\ wrote[c] \in Seq(Pieces) /\ buf[c] \in Seq(Pieces)
<1>1. wrote[c] \in Seq(Pieces) /\ buf[c] \in Seq(Pieces) /\ unread[c] \in Nat /\ Taken(c) \in Nat
  BY DEF TypeOK, StreamInv, StreamOf
<1>2. Len(buf[c]) \in Nat /\ Len(wrote[c]) \in Nat
  BY <1>1, LenProperties
<1> QED
  BY <1>1, <1>2 DEF Taken

\* No step loses a piece or takes one twice.
LEMMA StreamStep ==
    ASSUME Inv, [Next]_vars
    PROVE  StreamInv'
<1>0. TypeOK /\ SocketInv /\ SlotInv /\ RoundInv /\ StreamInv
  BY DEF Inv
<1>1. ASSUME NEW d \in Clients, wrote'[d] = wrote[d], unread'[d] = unread[d], buf'[d] = buf[d],
             answered'[d] = answered[d]
      PROVE  StreamOf(d)'
  BY <1>0, <1>1 DEF StreamInv, StreamOf, Taken
<1>2. ASSUME NEW c \in Clients, NEW piece \in Pieces, Write(c, piece)
      PROVE  StreamInv'
  <2> DEFINE w == wrote[c]
             n == Taken(c)
  <2>0. /\ n \in Nat /\ Len(buf[c]) \in Nat /\ Len(w) \in Nat /\ unread[c] \in Nat
        /\ Len(w) - unread[c] = n + Len(buf[c]) /\ w \in Seq(Pieces)
    BY <1>0, TakenFacts
  <2>1. /\ wrote'[c] = Append(w, piece) /\ unread'[c] = unread[c] + 1 /\ buf' = buf
        /\ answered' = answered
        /\ \A d \in Clients : d # c => wrote'[d] = wrote[d] /\ unread'[d] = unread[d]
    BY <1>0, <1>2 DEF Write, TypeOK, daemon, memory
  <2>2. Len(wrote'[c]) = Len(w) + 1 /\ \A i \in 1..Len(w) : wrote'[c][i] = w[i]
    BY <2>0, <2>1, AppendProperties
  <2>3. Taken(c)' = n
    <3>1. Taken(c)' = (Len(w) + 1) - (unread[c] + 1) - Len(buf[c])
      BY <2>1, <2>2 DEF Taken
    <3>2. \A L, u, b, m \in Nat : L - u = m + b => (L + 1) - (u + 1) - b = m
      OBVIOUS
    <3> HIDE DEF n, w
    <3> QED
      BY <2>0, <3>1, <3>2
  <2>s. StreamOf(c)
    BY <1>0 DEF StreamInv
  <2> HIDE DEF n, w
  <2>4. \A i \in 1..(n + Len(buf[c])) : wrote'[c][i] = w[i]
    BY <2>0, <2>2
  <2>5. \A k \in 1..Len(buf[c]) : buf'[c][k] = wrote'[c][n + k]
    <3> TAKE k \in 1..Len(buf[c])
    <3>1. n + k \in 1..(n + Len(buf[c]))
      BY <2>0
    <3>2. buf[c][k] = w[n + k]
      BY <2>s DEF StreamOf, n, w
    <3> QED
      BY <2>1, <2>4, <3>1, <3>2
  <2>6. n # 0 => wrote'[c][n] \in Ends
    <3>1. n # 0 => n \in 1..(n + Len(buf[c]))
      BY <2>0
    <3> QED
      BY <2>4, <2>s, <3>1 DEF StreamOf, n, w
  <2>7. {i \in 1..n : wrote'[c][i] = "command"} = {i \in 1..n : w[i] = "command"}
    <3>1. \A i \in 1..n : i \in 1..(n + Len(buf[c]))
      BY <2>0
    <3> QED
      BY <2>4, <3>1
  <2>8. StreamOf(c)'
    BY <2>0, <2>1, <2>3, <2>5, <2>6, <2>7, <2>s DEF StreamOf, n, w
  <2>9. \A d \in Clients : d # c => StreamOf(d)'
    BY <1>1, <2>1
  <2> QED
    BY <2>8, <2>9 DEF StreamInv
<1>11. CASE ReadClient
  <2>0. Here.fd \in ToSet(client_root) /\ owner[Here.fd] \in Clients
    BY <1>0, <1>11, HereFacts DEF ReadClient
  <2>1. PICK c \in Clients : c = owner[Here.fd]
    BY <2>0
  <2> DEFINE n == Taken(c)
             r == Received(c)
  <2>2. CASE UNCHANGED <<buf, unread>>
    BY <1>1, <1>11, <2>2 DEF ReadClient, StreamInv
  <2>3. CASE /\ buf' = [buf EXCEPT ![c] = @ \o SubSeq(wrote[c], Len(wrote[c]) - unread[c] + 1,
                                                      Len(wrote[c]) - unread[c] + Received(c))]
             /\ unread' = [unread EXCEPT ![c] = @ - Received(c)]
    <3>1. /\ \A d \in Clients : d # c => buf'[d] = buf[d] /\ unread'[d] = unread[d]
          /\ unread'[c] = unread[c] - r
          /\ Len(buf'[c]) = Len(buf[c]) + r
          /\ \A k \in 1..Len(buf[c]) : buf'[c][k] = buf[c][k]
          /\ \A k \in 1..r : buf'[c][Len(buf[c]) + k] = wrote[c][Len(wrote[c]) - unread[c] + k]
      BY <1>0, <2>1, <2>3, ReadFacts
    <3>2. /\ n \in Nat /\ Len(buf[c]) \in Nat /\ Len(wrote[c]) \in Nat /\ unread[c] \in Nat
          /\ Len(wrote[c]) - unread[c] = n + Len(buf[c])
      BY <1>0, <2>1, TakenFacts
    <3>3. r \in Nat
      BY <1>0, <2>1, ReceivedFacts
    <3>4. wrote' = wrote /\ answered' = answered
      BY <1>11 DEF ReadClient
    <3>5. Taken(c)' = n
      <4>1. Taken(c)' = Len(wrote[c]) - (unread[c] - r) - (Len(buf[c]) + r)
        BY <3>1, <3>4 DEF Taken
      <4> DEFINE L == Len(wrote[c])
                 u == unread[c]
                 b == Len(buf[c])
      <4>2. /\ L \in Nat /\ u \in Nat /\ b \in Nat /\ n \in Nat /\ r \in Nat /\ L - u = n + b
            /\ Taken(c)' = L - (u - r) - (b + r)
        BY <3>2, <3>3, <4>1
      <4> HIDE DEF n, r, L, u, b
      <4> QED
        BY ONLY <4>2
    <3>s. StreamOf(c)
      BY <1>0, <2>1 DEF StreamInv
    <3> HIDE DEF n, r
    <3>6. \A k \in 1..Len(buf'[c]) : buf'[c][k] = wrote[c][n + k]
      <4> TAKE k \in 1..Len(buf'[c])
      <4>1. CASE k <= Len(buf[c])
        <5>1. k \in 1..Len(buf[c])
          BY <3>1, <3>2, <3>3, <4>1
        <5> QED
          BY <3>1, <3>s, <5>1 DEF StreamOf, n
      <4>2. CASE k > Len(buf[c])
        <5>1. \A b, m, x, j \in Nat :
                 j > b /\ j <= b + x => j - b \in 1..x /\ b + (j - b) = j /\ m + b + (j - b) = m + j
          OBVIOUS
        <5>2. /\ k - Len(buf[c]) \in 1..r /\ Len(buf[c]) + (k - Len(buf[c])) = k
              /\ n + Len(buf[c]) + (k - Len(buf[c])) = n + k
          <6> DEFINE b == Len(buf[c])
          <6>1. /\ k \in Nat /\ k <= b + r /\ b \in Nat /\ n \in Nat /\ r \in Nat /\ k > b
            BY <3>1, <3>2, <3>3, <4>2
          <6> HIDE DEF b
          <6>2. k - b \in 1..r /\ b + (k - b) = k /\ n + b + (k - b) = n + k
            BY ONLY <5>1, <6>1
          <6> QED
            BY <6>2 DEF b
        <5>3. buf'[c][Len(buf[c]) + (k - Len(buf[c]))] = wrote[c][n + Len(buf[c]) + (k - Len(buf[c]))]
          BY <3>1, <3>2, <5>2
        <5> QED
          BY <5>2, <5>3
      <4> QED
        BY <3>1, <3>2, <3>3, <4>1, <4>2
    <3>7. StreamOf(c)'
      BY <3>4, <3>5, <3>6, <3>s DEF StreamOf, n
    <3>8. \A d \in Clients : d # c => StreamOf(d)'
      BY <1>1, <3>1, <3>4
    <3> QED
      BY <3>7, <3>8 DEF StreamInv
  <2> QED
    BY <1>11, <2>0, <2>1, <2>2, <2>3 DEF ReadClient
<1>12. CASE ExecuteLine
  <2>0. owner[Here.fd] \in Clients
    BY <1>0, <1>12, HereFacts DEF ExecuteLine, RoundInv
  <2>1. PICK c \in Clients : c = owner[Here.fd]
    BY <2>0
  <2> DEFINE n == Taken(c)
             e == LineEnd(c)
             A == {i \in 1..n : wrote[c][i] = "command"}
  <2>2. /\ e # 0 /\ buf[c][e] # "invalid"
        /\ buf' = [buf EXCEPT ![c] = SubSeq(@, e + 1, Len(@))]
        /\ UNCHANGED <<wrote, unread>>
        /\ \/ buf[c][e] = "unknown" /\ answered' = answered
           \/ buf[c][e] # "unknown" /\ answered' = [answered EXCEPT ![c] = @ + 1]
    BY <1>12, <2>1 DEF ExecuteLine
  <2>3. /\ \A d \in Clients : d # c => buf'[d] = buf[d]
        /\ Len(buf'[c]) = Len(buf[c]) - e
        /\ \A k \in 1..(Len(buf[c]) - e) : buf'[c][k] = buf[c][e + k]
    BY <1>0, <2>1, <2>2, LineFacts
  <2>4. /\ e \in 0..Len(buf[c]) /\ buf[c][e] \in Ends
        /\ \A k \in 1..Len(buf[c]) : k < e => buf[c][k] = "part"
    BY <1>0, <2>1, <2>2, LineEndFacts
  <2>5. /\ n \in Nat /\ Len(buf[c]) \in Nat /\ Len(wrote[c]) \in Nat /\ unread[c] \in Nat
        /\ Len(wrote[c]) - unread[c] = n + Len(buf[c])
    BY <1>0, <2>1, TakenFacts
  <2>s. /\ \A k \in 1..Len(buf[c]) : buf[c][k] = wrote[c][n + k]
        /\ answered[c] = Cardinality(A)
    BY <1>0, <2>1 DEF StreamInv, StreamOf
  <2>a. \A d \in Clients : answered'[d] = IF d = c /\ buf[c][e] # "unknown" THEN answered[d] + 1
                                         ELSE answered[d]
    BY <1>0, <2>1, <2>2 DEF TypeOK
  <2>6. Taken(c)' = n + e
    <3>1. Taken(c)' = Len(wrote[c]) - unread[c] - (Len(buf[c]) - e)
      BY <2>2, <2>3 DEF Taken
    <3>2. \A L, u, b, m, x \in Nat : L - u = m + b => L - u - (b - x) = m + x
      OBVIOUS
    <3>3. e \in Nat
      BY <2>4, <2>5
    <3> HIDE DEF n, e
    <3> QED
      BY <2>5, <3>1, <3>2, <3>3
  <2> HIDE DEF n, e
  <2>7. \A k \in 1..Len(buf'[c]) : buf'[c][k] = wrote[c][(n + e) + k]
    <3> TAKE k \in 1..Len(buf'[c])
    <3>1. k \in 1..(Len(buf[c]) - e) /\ e + k \in 1..Len(buf[c]) /\ n + (e + k) = (n + e) + k
      BY <2>3, <2>4, <2>5
    <3> QED
      BY <2>3, <2>s, <3>1
  <2>8. wrote[c][n + e] = buf[c][e] /\ n + e \in 1..(n + e)
    BY <2>2, <2>4, <2>5, <2>s
  <2>9. \A i \in 1..(n + e) : i \in 1..n \/ i = n + e \/ wrote[c][i] = "part"
    <3> TAKE i \in 1..(n + e)
    <3>1. CASE i > n /\ i # n + e
      <4>1. \A x, y, z, b \in Nat : y < x /\ x <= y + z /\ x # y + z /\ z <= b =>
                x - y \in 1..b /\ x - y < z /\ y + (x - y) = x
        OBVIOUS
      <4>2. e \in Nat /\ e <= Len(buf[c]) /\ i \in Nat /\ n < i /\ i <= n + e /\ i # n + e
        BY <2>4, <2>5, <3>1
      <4>3. i - n \in 1..Len(buf[c]) /\ i - n < e /\ n + (i - n) = i
        BY <2>5, <4>1, <4>2
      <4> QED
        BY <2>4, <2>s, <4>3
    <3> QED
      BY <2>5, <3>1
  <2>10. 1..n \subseteq 1..(n + e) /\ n + e \notin 1..n
    BY <2>2, <2>4, <2>5
  <2>11. /\ buf[c][e] = "command" => {i \in 1..(n + e) : wrote[c][i] = "command"} = A \cup {n + e}
         /\ buf[c][e] # "command" => {i \in 1..(n + e) : wrote[c][i] = "command"} = A
    BY <2>8, <2>9, <2>10
  <2>12. IsFiniteSet(A) /\ n + e \notin A
    <3>1. IsFiniteSet(1..n)
      BY <2>5, FS_Interval
    <3> QED
      BY <2>10, <3>1, FS_Subset
  <2> HIDE DEF A
  <2>13. answered'[c] = Cardinality({i \in 1..(n + e) : wrote[c][i] = "command"})
    <3>1. CASE buf[c][e] = "command"
      <4>1. Cardinality(A \cup {n + e}) = Cardinality(A) + 1
        BY <2>12, FS_AddElement
      <4> QED
        BY <2>1, <2>11, <2>a, <2>s, <3>1, <4>1
    <3>2. CASE buf[c][e] = "unknown"
      BY <2>1, <2>11, <2>a, <2>s, <3>2
    <3> QED
      BY <2>2, <2>4, <3>1, <3>2 DEF Ends
  <2>14. StreamOf(c)'
    <3>1. n + e \in Nat
      BY <2>4, <2>5
    <3> QED
      BY <2>2, <2>4, <2>6, <2>7, <2>8, <2>13, <3>1 DEF StreamOf
  <2>15. \A d \in Clients : d # c => StreamOf(d)'
    BY <1>1, <2>2, <2>3, <2>a
  <2> QED
    BY <2>14, <2>15 DEF StreamInv
<1>17. CASE UNCHANGED <<wrote, unread, buf, answered>>
  BY <1>1, <1>17 DEF StreamInv
<1>18. \/ \E c \in Clients, piece \in Pieces : Write(c, piece)
       \/ ReadClient \/ ExecuteLine \/ UNCHANGED <<wrote, unread, buf, answered>>
  BY DEF Next, Loop, Terminated, Connect, Read, Close, Poll, Accept, Monitor, Notify, Skip, HangUp,
     LinesDone, RemoveClient, EndRound, Exit, vars, sockets, daemon, memory
<1> QED
  BY <1>2, <1>11, <1>12, <1>17, <1>18

\* A client that the daemon must let go of, and that has not hung up, wrote a line
\* that is not valid or does not fit.
LEMMA MustGoFacts ==
    ASSUME TypeOK, StreamInv, NEW c \in Clients, MustGo(c), state[c] # "closed"
    PROVE  "invalid" \in ToSet(wrote[c]) \/ TooLong(wrote[c])
<1> DEFINE n == Taken(c)
           e == LineEnd(c)
           b == Len(buf[c])
           L == Len(wrote[c])
           u == unread[c]
<1>1. /\ n \in Nat /\ b \in Nat /\ L \in Nat /\ u \in Nat /\ L - u = n + b
      /\ wrote[c] \in Seq(Pieces) /\ DOMAIN wrote[c] = 1..L
  BY TakenFacts, LenProperties
<1>2. /\ e \in 0..b
      /\ \A k \in 1..b : e = 0 => buf[c][k] = "part"
  BY LineEndFacts
<1>3. \A k \in 1..b : buf[c][k] = wrote[c][n + k]
  BY DEF StreamInv, StreamOf
<1>4. \/ e # 0 /\ buf[c][e] = "invalid"
      \/ e = 0 /\ b = MaxLength
  BY DEF MustGo
<1> HIDE DEF n, e, b, u
<1>5. CASE e # 0 /\ buf[c][e] = "invalid"
  <2>1. e \in 1..b /\ n + e \in 1..L
    BY <1>1, <1>2, <1>5
  <2>2. wrote[c][n + e] = "invalid" /\ n + e \in DOMAIN wrote[c]
    BY <1>1, <1>3, <1>5, <2>1
  <2> QED
    BY <2>2 DEF ToSet
<1>6. CASE e = 0 /\ b = MaxLength
  <2>1. n + 1 \in 1..(L - MaxLength + 1)
    BY <1>1, <1>6
  <2>2. \A k \in (n + 1)..((n + 1) + MaxLength - 1) : wrote[c][k] = "part"
    <3> TAKE k \in (n + 1)..((n + 1) + MaxLength - 1)
    <3>1. k - n \in 1..b /\ n + (k - n) = k
      BY <1>1, <1>6
    <3> QED
      BY <1>2, <1>3, <1>6, <3>1
  <2> QED
    BY <2>1, <2>2 DEF TooLong
<1> QED
  BY <1>4, <1>5, <1>6

\* Every step drops a client for cause.
LEMMA CauseStep ==
    ASSUME Inv, [Next]_vars
    PROVE  DroppedForCause'
<1>0. TypeOK /\ SocketInv /\ SlotInv /\ RoundInv /\ StreamInv /\ DroppedForCause
  BY DEF Inv
<1> DEFINE Cause(c) == "invalid" \in ToSet(wrote[c]) \/ TooLong(wrote[c])
<1>1. ASSUME NEW c \in Clients, Cause(c)
      PROVE  Cause(c)'
  <2>1. ASSUME NEW d \in Clients, NEW piece \in Pieces, Write(d, piece), c = d
        PROVE  Cause(c)'
    <3> DEFINE w == wrote[c]
    <3>1. wrote'[c] = Append(w, piece) /\ w \in Seq(Pieces)
      BY <1>0, <2>1 DEF Write, TypeOK
    <3>2. Len(w) \in Nat /\ Len(Append(w, piece)) = Len(w) + 1 /\ \A i \in 1..Len(w) : Append(w, piece)[i] = w[i]
      BY <3>1, LenProperties, AppendProperties
    <3>3. CASE "invalid" \in ToSet(w)
      BY <3>1, <3>3, AppendFacts
    <3>4. CASE TooLong(w)
      <4>1. PICK i \in 1..(Len(w) - MaxLength + 1) : \A k \in i..(i + MaxLength - 1) : w[k] = "part"
        BY <3>4 DEF TooLong
      <4>2. i \in 1..((Len(w) + 1) - MaxLength + 1) /\ \A k \in i..(i + MaxLength - 1) : k \in 1..Len(w)
        BY <3>2, <4>1, ClientsAssumption
      <4>3. TooLong(Append(w, piece))
        <5>1. \A k \in i..(i + MaxLength - 1) : Append(w, piece)[k] = "part"
          BY <3>2, <4>1, <4>2
        <5>2. i \in 1..(Len(Append(w, piece)) - MaxLength + 1)
          <6>1. \A x, l, m : x \in 1..(l - MaxLength + 1) /\ m = l => x \in 1..(m - MaxLength + 1)
            BY Zenon
          <6>2. i \in 1..((Len(w) + 1) - MaxLength + 1) /\ Len(Append(w, piece)) = Len(w) + 1
            BY <3>2, <4>2, Zenon
          <6> QED
            BY <6>1, <6>2, Zenon
        <5> QED
          BY <5>1, <5>2 DEF TooLong
      <4> QED
        BY <3>1, <4>3
    <3> QED
      BY <1>1, <3>3, <3>4
  <2>2. CASE wrote'[c] = wrote[c]
    BY <1>1, <2>2
  <2>3. wrote'[c] = wrote[c] \/ \E d \in Clients, piece \in Pieces : Write(d, piece)
    BY DEF Next, Loop, Terminated, Connect, Read, Close, Poll, Accept, Monitor, Notify, Skip, HangUp,
       ReadClient, ExecuteLine, LinesDone, RemoveClient, EndRound, Exit, vars, sockets, daemon, memory
  <2>4. ASSUME NEW d \in Clients, NEW piece \in Pieces, Write(d, piece), c # d
        PROVE  wrote'[c] = wrote[c]
    BY <1>0, <2>4 DEF Write, TypeOK
  <2> QED
    BY <2>1, <2>2, <2>3, <2>4
<1>2. ASSUME NEW c \in Clients, state'[c] = "dropped", pc' # "exit"
      PROVE  Cause(c) \/ (state[c] = "dropped" /\ pc # "exit")
  <2>1. ASSUME remove_client(Here.fd), pc \in {"clients", "lines"}, slot <= Len(pollfds)
        PROVE  state'[c] = state[c] \/ (c = owner[Here.fd] /\ state[c] # "closed")
    <3>1. Here.fd \in Fds /\ Here.fd \in ToSet(client_root)
      BY <1>0, <2>1, HereFacts
    <3>2. /\ owner[Here.fd] \in Clients
          /\ state' = [state EXCEPT ![owner[Here.fd]] = IF @ = "closed" THEN @ ELSE "dropped"]
      BY <1>0, <2>1, <3>1, RemoveFacts
    <3> QED
      BY <1>0, <3>2 DEF TypeOK
  <2>2. ASSUME NEW d \in Clients, Connect(d) \/ Close(d)
        PROVE  state[c] = "dropped" /\ pc # "exit"
    BY <1>0, <1>2, <2>2 DEF Connect, Close, TypeOK, daemon
  <2>3. CASE HangUp
    <3>1. pc = "clients" /\ slot <= Len(pollfds) /\ remove_client(Here.fd) /\ Here.revents = "hup"
      BY <2>3 DEF HangUp
    <3>2. state[owner[Here.fd]] = "closed"
      BY <1>0, <3>1, HereFacts
    <3> QED
      BY <1>2, <2>1, <3>1, <3>2
  <2>4. CASE ReadClient
    <3>1. pc = "clients" /\ slot <= Len(pollfds)
      BY <2>4 DEF ReadClient
    <3>2. CASE UNCHANGED state
      BY <1>2, <3>1, <3>2
    <3>3. CASE remove_client(Here.fd) /\ state[owner[Here.fd]] = "closed"
      BY <1>2, <2>1, <3>1, <3>3
    <3> QED
      BY <2>4, <3>2, <3>3 DEF ReadClient
  <2>5. CASE RemoveClient
    <3>1. pc = "lines" /\ slot <= Len(pollfds) /\ remove_client(Here.fd) /\ MustGo(owner[Here.fd])
      BY <1>0, <2>5 DEF RemoveClient, RoundInv
    <3>2. CASE state'[c] = state[c]
      BY <1>2, <3>1, <3>2
    <3>3. CASE c = owner[Here.fd] /\ state[c] # "closed"
      BY <1>0, <3>1, <3>3, MustGoFacts
    <3> QED
      BY <2>1, <3>1, <3>2, <3>3
  <2>6. CASE UNCHANGED state /\ (pc' = pc \/ pc # "exit")
    BY <1>2, <2>6
  <2>7. \/ \E d \in Clients : Connect(d) \/ Close(d)
        \/ HangUp \/ ReadClient \/ RemoveClient \/ Exit
        \/ UNCHANGED state /\ (pc' = pc \/ pc # "exit")
    BY DEF Next, Loop, Terminated, Write, Read, Poll, Accept, Monitor, Notify, Skip, ExecuteLine,
       LinesDone, EndRound, vars, sockets, daemon, memory
  <2>8. ~Exit
    BY <1>2 DEF Exit
  <2> QED
    BY <2>2, <2>3, <2>4, <2>5, <2>6, <2>7, <2>8
<1>3. \A c \in Clients : state[c] = "dropped" /\ pc # "exit" => Cause(c)
  BY <1>0 DEF DroppedForCause
<1>4. \A c \in Clients : state'[c] = "dropped" /\ pc' # "exit" => Cause(c)'
  BY <1>1, <1>2, <1>3
<1> QED
  BY <1>4 DEF DroppedForCause

LEMMA InvStep == Inv /\ [Next]_vars => Inv'
<1> SUFFICES ASSUME Inv, [Next]_vars
             PROVE  Inv'
  OBVIOUS
<1> QED
  BY TypeStep, SocketStep, SlotStep, RoundStep, StreamStep, CauseStep DEF Inv

LEMMA Invariance == Spec => []Inv
  BY InvInit, InvStep, PTL DEF Spec

\* The sockets, the list of clients, the buffers and the array of polled
\* descriptors keep their shape: no buffer overflows, no write goes beyond what a
\* socket takes and no client is looked up that does not exist.
THEOREM TypeCorrect == Spec => []TypeOK
<1>1. Inv => TypeOK
  BY DEF Inv
<1> QED
  BY <1>1, Invariance, PTL

\* The list of clients, the open descriptors and the array that is polled agree:
\* the array always has room, and the daemon never ends with "BUG: could not find
\* non-existent client", however many clients come and go in mid-round.
THEOREM PollAgreesCorrect == Spec => []PollAgrees
<1>1. ASSUME Inv
      PROVE  PollAgrees
  <2>0. TypeOK /\ SocketInv /\ SlotInv /\ RoundInv
    BY <1>1 DEF Inv
  <2>1. ToSet(client_root) \subseteq Fds
    BY <2>0, Elements DEF TypeOK
  <2>2. ListIsOpen
    BY <2>0, <2>1 DEF ListIsOpen, SocketInv
  <2>3. ArrayFits
    BY <2>0 DEF ArrayFits, RoundInv
  <2>4. SlotsListed
    BY <2>0 DEF SlotsListed, SlotInv, RoundInv
  <2> QED
    BY <2>2, <2>3, <2>4 DEF PollAgrees
<1> QED
  BY <1>1, Invariance, PTL

\* A client is dropped only for a line that is not valid or does not fit the
\* buffer, wherever the reads cut what it wrote.
THEOREM DroppedForCauseCorrect == Spec => []DroppedForCause
<1>1. Inv => DroppedForCause
  BY DEF Inv
<1> QED
  BY <1>1, Invariance, PTL

\* Every piece that a client writes is executed once, is in its buffer, or is
\* unread, in order, and each command that was executed has one answer.
THEOREM EachCommandOnceCorrect == Spec => []EachCommandOnce
<1>1. ASSUME Inv
      PROVE  EachCommandOnce
  <2> SUFFICES ASSUME NEW c \in Clients
               PROVE  /\ IsPrefix(Executed(c) \o buf[c], wrote[c])
                      /\ Executed(c) # <<>> => Last(Executed(c)) \in Ends
                      /\ answered[c] = Commands(Executed(c))
    BY DEF EachCommandOnce
  <2> DEFINE w == wrote[c]
             b == buf[c]
             n == Taken(c)
             x == SubSeq(w, 1, n)
  <2>1. /\ n \in Nat /\ Len(b) \in Nat /\ Len(w) \in Nat /\ unread[c] \in Nat
        /\ Len(w) - unread[c] = n + Len(b) /\ w \in Seq(Pieces) /\ b \in Seq(Pieces)
    BY <1>1, TakenFacts DEF Inv
  <2>2. /\ \A k \in 1..Len(b) : b[k] = w[n + k]
        /\ n # 0 => w[n] \in Ends
        /\ answered[c] = Cardinality({i \in 1..n : w[i] = "command"})
    BY <1>1 DEF Inv, StreamInv, StreamOf
  <2>3. Executed(c) = x
    BY DEF Executed, Taken
  <2> HIDE DEF n, w, b
  <2>4. x \in Seq(Pieces) /\ Len(x) = n /\ \A i \in 1..n : x[i] = w[i]
    <3>1. \A i \in 1..n : w[i] \in Pieces
      BY <2>1, ElementOfSeq
    <3>2. /\ x \in Seq(Pieces) /\ Len(x) = IF 1 <= n THEN n - 1 + 1 ELSE 0
          /\ \A i \in 1..(n - 1 + 1) : x[i] = w[1 + i - 1]
      BY <2>1, <3>1, SubSeqProperties
    <3>3. n - 1 + 1 = n /\ \A i \in 1..n : 1 + i - 1 = i
      BY <2>1
    <3> QED
      BY <2>1, <3>2, <3>3
  <2> HIDE DEF x
  <2>5. x # <<>> => Last(x) \in Ends
    <3>1. x # <<>> => n # 0 /\ n \in 1..n
      BY <2>1, <2>4, EmptySeq
    <3> QED
      BY <2>2, <2>4, <3>1 DEF Last
  <2>6. answered[c] = Commands(x)
    <3>1. DOMAIN x = 1..n
      BY <2>4, LenProperties
    <3>2. {i \in DOMAIN x : x[i] = "command"} = {i \in 1..n : w[i] = "command"}
      BY <2>4, <3>1
    <3> QED
      BY <2>2, <3>2 DEF Commands
  <2>7. IsPrefix(x \o b, w)
    <3> DEFINE y == x \o b
               m == n + Len(b)
               z == SubSeq(w, 1, m)
    <3>1. /\ y \in Seq(Pieces) /\ Len(y) = m
          /\ \A i \in 1..m : y[i] = IF i <= n THEN x[i] ELSE b[i - n]
      BY <2>1, <2>4, ConcatProperties
    <3>2. m \in Nat /\ m <= Len(w)
      BY <2>1
    <3> HIDE DEF y, m
    <3>3. \A i \in 1..m : y[i] = w[i]
      <4> TAKE i \in 1..m
      <4>1. CASE i <= n
        BY <2>1, <2>4, <3>1, <3>2, <4>1
      <4>2. CASE i > n
        <5>1. i - n \in 1..Len(b) /\ n + (i - n) = i /\ ~(i <= n)
          BY <2>1, <4>2 DEF m
        <5> QED
          BY <2>2, <3>1, <5>1
      <4> QED
        BY <2>1, <3>2, <4>1, <4>2
    <3>4. SubSeq(y, 1, m) = y
      BY <3>1, SubSeqFull
    <3>5. z \in Seq(Pieces) /\ Len(z) = m /\ \A i \in 1..m : z[i] = w[i]
      <4>1. \A i \in 1..m : w[i] \in Pieces
        BY <2>1, <3>2, ElementOfSeq
      <4>2. /\ z \in Seq(Pieces) /\ Len(z) = IF 1 <= m THEN m - 1 + 1 ELSE 0
            /\ \A i \in 1..(m - 1 + 1) : z[i] = w[1 + i - 1]
        BY <3>2, <4>1, SubSeqProperties
      <4>3. m - 1 + 1 = m /\ \A i \in 1..m : 1 + i - 1 = i
        BY <3>2
      <4> QED
        BY <3>2, <4>2, <4>3
    <3>6. y = z
      BY <3>1, <3>3, <3>5, SeqEqual
    <3> QED
      BY <3>1, <3>2, <3>4, <3>6 DEF IsPrefix, y
  <2> QED
    BY <2>3, <2>5, <2>6, <2>7 DEF w, b
<1> QED
  BY <1>1, Invariance, PTL
=============================================================================
