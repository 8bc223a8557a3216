----------------------- MODULE UserspaceDevicesProofs -----------------------
(***************************************************************************)
(* Proofs about the devices of daemon/modules/unix-userspace: the list     *)
(* ends up as the devices are, and change_media refuses a sysfs path only  *)
(* for a cause.                                                            *)
(***************************************************************************)
EXTENDS UserspaceDevices, MediaListProofs

(***************************************************************************)
(* The events on their way to the list, in order: those the worker has     *)
(* posted and those it has not.                                            *)
(***************************************************************************)
UnpostedOf(r, u)    == IF r = NULL THEN u ELSE <<r.event>> \o u
PostedOf(q)         == [i \in DOMAIN q |-> Event(q[i].action, q[i].path)]
WaitingOf(q, r, u)  == PostedOf(q) \o UnpostedOf(r, u)

Unposted == UnpostedOf(reading, unread)
Waiting  == WaitingOf(queue, reading, unread)

Adds(w, p)    == {i \in DOMAIN w : w[i] = Event("add", p)}
Removes(w, p) == {i \in DOMAIN w : w[i] = Event("remove", p)}

\* After every removal of p or its disk, p is added.
ComesBack(w, p) == \A i \in Removes(w, p) \cup Removes(w, DiskOf(p)) : \E j \in Adds(w, p) : i < j

\* After every other event of p, p is removed.
GoesAway(w, p) ==
    \A i \in DOMAIN w : w[i].path = p /\ w[i].action # "remove" => \E j \in Removes(w, p) : i < j

\* Before p is added again, and before it is added at all, it is removed.
OneByOne(w, p) == \A i, j \in Adds(w, p) : i < j => \E k \in Removes(w, p) : i < k /\ k < j
NotTwice(w, p) == \A j \in Adds(w, p) : \E k \in Removes(w, p) : k < j

\* When p is added for good, its disk has been: by an event, or before.
ParentFirst(w, p, listed) ==
    \A j \in Adds(w, p) : (\A i \in Removes(w, p) : i < j) =>
        \/ \E k \in Adds(w, DiskOf(p)) : k < j /\ \A i \in Removes(w, DiskOf(p)) : i < k
        \/ DiskOf(p) \in listed /\ Removes(w, DiskOf(p)) = {}

Recognised(p) == device_subtype_from_string(p) # "unknown"

\* The waiting events fit the list, which has the paths in listed, and the world.
Agrees(w, p, there, start, listed) ==
    /\ p \in there => ComesBack(w, p)
    /\ p \notin there => GoesAway(w, p) /\ (p \in listed => Removes(w, p) # {})
    /\ OneByOne(w, p)
    /\ p \in listed => NotTwice(w, p)
    /\ p \in there \ start /\ Recognised(p) /\ p \notin listed => Adds(w, p) # {}
    /\ p \in there /\ IsPartition(p) /\ Recognised(p) => ParentFirst(w, p, listed)

\* What is in the list, or will be when the enumeration is at an end.
Has(m, p)  == \E i \in DOMAIN m : m[i].path = p
InMedia(p) == Has(media, p)
InEnum(p)  == Has(enumeration, p)
Listed     == {p \in Paths : InMedia(p) \/ InEnum(p)}

Steady == {p \in Paths : DiskOf(p) \notin raced}

WaitInv == \A p \in Steady : Agrees(Waiting, p, attached, fromStart, Listed)

\* What is attached comes and goes as a whole; what was there from the start is
\* not waited for.
WorldInv ==
    /\ \A p \in Paths : p \in attached <=> DiskOf(p) \in attached
    /\ \A p \in Paths : p \in fromStart <=> DiskOf(p) \in fromStart
    /\ fromStart \subseteq Steady
    /\ \A p \in fromStart : Adds(Waiting, p) = {} /\ Removes(Waiting, p) = {}
    /\ \A d \in Disks : port[d] # NULL => Bus[d] = "usb"
    /\ pc = "scan" => \A p \in Steady :
          /\ p \in attached => p \in fromStart
          /\ Adds(Waiting, p) = {} /\ Removes(Waiting, p) = {}

(***************************************************************************)
(* The list and what is to go there.                                       *)
(***************************************************************************)
GoodList(m) ==
    /\ Sequence(m) /\ Tree(m) /\ Ordered(m)
    /\ \A i \in DOMAIN m :
          /\ IsNode(m[i]) /\ Counted(m[i])
          /\ m[i].path \in Paths /\ m[i].kind \in Kinds /\ m[i].content \in Contents

TypeInv ==
    /\ TypeOK /\ GoodList(media)
    /\ pc = "scan" <=> scan.directory < 4
    /\ scan.at.step # "look" => scan.at.disk \in Disks

ListInv ==
    /\ \A i \in DOMAIN media :
          /\ media[i].kind = Kind(media[i].path) /\ Recognised(media[i].path)
          /\ IsPartition(media[i].path) => media[i].content.sysfs = NULL
    /\ \A p \in Steady : Once(media, p)
    /\ pc = "scan" => media = <<>>

EnumInv ==
    /\ Distinct(enumeration)
    /\ \A i \in DOMAIN enumeration :
          LET p == enumeration[i].path
          IN  /\ enumeration[i].kind = Kind(p) /\ Recognised(p) /\ Enumerable(p) /\ ~InMedia(p)
              /\ p \in Steady /\ pc = "scan" => p \in fromStart
              /\ IsPartition(p) =>
                    /\ enumeration[i].content.sysfs = NULL
                    /\ \/ InMedia(DiskOf(p))
                       \/ \E j \in 1..(i - 1) : enumeration[j].path = DiskOf(p)
    /\ pc \in {"loop", "failed"} => enumeration = <<>>
    /\ pc # "scan" => \A p \in fromStart : p \in Listed <=> Enumerable(p) /\ Recognised(p)

\* How far the enumeration is.
Wants(k, d) ==
    /\ Recognised(d)
    /\ CASE k = 1 -> IsRemovable[d] [] k = 2 -> Bus[d] = "usb" [] k = 3 -> Bus[d] = "mmc"

Done(e, d) == Has(e, d) /\ (d \in Numbered => \A p \in Partitions(d) : Has(e, p))

\* The disk at hand, and those that have been seen.
AtInv(sc, e, start, steady) ==
    sc.at.step # "look" =>
        LET d == sc.at.disk
        IN  /\ d \in Disks /\ Wants(sc.directory, d)
            /\ d \in steady => d \in start
            /\ sc.at.step # "read" => Has(e, d)
            /\ sc.at.step = "parts" =>
                  /\ \A i \in DOMAIN sc.at.parts : sc.at.parts[i] \in Partitions(d)
                  /\ d \in steady /\ d \in Numbered => \A p \in Partitions(d) :
                        Has(e, p) \/ \E i \in DOMAIN sc.at.parts : sc.at.parts[i] = p

SeenInv(sc, e, start) ==
    \A d \in start \cap Disks :
        /\ Has(e, d) => Done(e, d) \/ (sc.at.disk = d /\ sc.at.step \in {"probe", "parts"})
        /\ \A k \in 1..3 :
              Wants(k, d) /\ (k < sc.directory \/ (k = sc.directory /\ d \in sc.seen)) => Done(e, d)

ScanInv ==
    pc = "scan" => AtInv(scan, enumeration, fromStart, Steady) /\ SeenInv(scan, enumeration, fromStart)

(***************************************************************************)
(* What is told of a device is what was read last.                         *)
(***************************************************************************)
Due(u, p)      == \E i \in DOMAIN u : u[i].path = p /\ u[i].action # "remove"
Tells(item, p) == item.path = p /\ item.action # "remove" /\ Known(item)
Told(q, p)     == \E i \in DOMAIN q : Tells(q[i], p)

\* The last that is told of p is that its state is st and its filesystem fs.
Fresh(p, q, e, m, st, fs) ==
    /\ \A i \in DOMAIN q :
          Tells(q[i], p) /\ (\A j \in DOMAIN q : Tells(q[j], p) => j <= i)
              => q[i].content.state = st /\ q[i].content.fstype = fs
    /\ ~Told(q, p) => \A i \in DOMAIN e :
          e[i].path = p => e[i].content.state = st /\ e[i].content.fstype = fs
    /\ ~Told(q, p) /\ ~Has(e, p) => \A i \in DOMAIN m :
          m[i].path = p => m[i].content.state = st /\ m[i].content.fstype = fs

FreshInv ==
    \A p \in Steady \cap attached :
        ~Due(Unposted, p) => Fresh(p, queue, enumeration, media, BlkidState(p), BlkidType(p))

ItemInv ==
    /\ \A i \in DOMAIN queue :
          /\ queue[i].action = "add" => queue[i].kind = Kind(queue[i].path)
          /\ Known(queue[i]) => queue[i].kind = Kind(queue[i].path)
          /\ IsPartition(queue[i].path) => queue[i].content.sysfs = NULL
    /\ reading # NULL => reading.event.action # "remove" /\ (IsPartition(reading.event.path) => reading.sysfs = NULL)

(***************************************************************************)
(* The sysfs path that is known of a disk is its own, or it is removed.    *)
(***************************************************************************)
Plain(p) == ~(Subtype[p] = "cdrom" /\ Bus[p] = "usb")

\* In the list m, in what was found e, in what is posted q or read r, the path of
\* p is x, or a removal of p that comes later is among the waiting events w.
OwnPath(p, x, m, e, q, r, w) ==
    /\ \A i \in DOMAIN m : m[i].path = p => m[i].content.sysfs = x \/ Removes(w, p) # {}
    /\ \A i \in DOMAIN e : e[i].path = p => e[i].content.sysfs = x \/ Removes(w, p) # {}
    /\ \A i \in DOMAIN q :
          Tells(q[i], p) => q[i].content.sysfs = x \/ \E j \in Removes(w, p) : i < j
    /\ r # NULL /\ r.step = "medium" /\ r.event.path = p =>
          r.sysfs = x \/ \E j \in Removes(w, p) : Len(q) + 1 < j

SysfsInv ==
    \A p \in Disks \ raced :
        Plain(p) => OwnPath(p, port[p], media, enumeration, queue, reading, Waiting)

\* Why the daemon has ended itself over the path of the device at hand.
CauseInv ==
    pc = "failed" =>
        LET p == Head(queue).path
        IN  /\ queue # <<>>
            /\ ~Plain(p) \/ p \in raced \/ Removes(Waiting, p) # {}

(***************************************************************************)
(* What happens to the waiting events.                                     *)
(***************************************************************************)
\* t is s and then ev.
Grows(t, s, ev) ==
    /\ Len(s) \in Nat /\ DOMAIN s = 1..Len(s) /\ Len(ev) \in Nat /\ DOMAIN ev = 1..Len(ev)
    /\ DOMAIN t = 1..(Len(s) + Len(ev))
    /\ \A i \in DOMAIN s : t[i] = s[i]
    /\ \A j \in DOMAIN ev : t[Len(s) + j] = ev[j]

\* t is w without what is at k; f tells where its elements were.
Embeds(f, t, w, k) ==
    /\ k \in DOMAIN w /\ DOMAIN w \subseteq Nat \ {0} /\ DOMAIN t \subseteq Nat \ {0}
    /\ f \in [DOMAIN t -> DOMAIN w \ {k}]
    /\ \A i \in DOMAIN t : t[i] = w[f[i]]
    /\ \A j \in DOMAIN w \ {k} : \E i \in DOMAIN t : f[i] = j
    /\ \A i, j \in DOMAIN t : i < j <=> f[i] < f[j]

LEMMA ConcatGrows ==
    ASSUME NEW S, NEW s \in Seq(S), NEW ev \in Seq(S)
    PROVE  s \o ev \in Seq(S) /\ Len(s \o ev) = Len(s) + Len(ev) /\ Grows(s \o ev, s, ev)
<1> DEFINE t == s \o ev
<1>1. /\ t \in Seq(S) /\ Len(t) = Len(s) + Len(ev)
      /\ \A i \in 1..(Len(s) + Len(ev)) : t[i] = IF i <= Len(s) THEN s[i] ELSE ev[i - Len(s)]
  BY ConcatProperties
<1>2. /\ Len(s) \in Nat /\ DOMAIN s = 1..Len(s) /\ Len(ev) \in Nat /\ DOMAIN ev = 1..Len(ev)
      /\ Len(t) \in Nat /\ DOMAIN t = 1..Len(t)
  BY <1>1, LenProperties
<1> HIDE DEF t
<1>3. \A i \in DOMAIN s : t[i] = s[i]
  BY <1>1, <1>2
<1>4. ASSUME NEW j \in DOMAIN ev
      PROVE  t[Len(s) + j] = ev[j]
  <2>1. Len(s) + j \in 1..(Len(s) + Len(ev)) /\ ~(Len(s) + j <= Len(s)) /\ (Len(s) + j) - Len(s) = j
    BY <1>2
  <2> QED
    BY <1>1, <2>1
<1> QED
  BY <1>1, <1>2, <1>3, <1>4 DEF t, Grows

LEMMA UnpostedFacts ==
    ASSUME NEW r \in Readings \cup {NULL}, NEW u \in Seq(Events)
    PROVE  LET x == UnpostedOf(r, u)
           IN  /\ x \in Seq(Events)
               /\ r = NULL => x = u
               /\ r # NULL => r.event \in Events /\ x = <<r.event>> \o u /\ Grows(x, <<r.event>>, u)
<1>1. CASE r = NULL
  BY <1>1 DEF UnpostedOf
<1>2. CASE r # NULL
  <2>1. r.event \in Events /\ <<r.event>> \in Seq(Events)
    BY <1>2 DEF Readings
  <2>2. UnpostedOf(r, u) = <<r.event>> \o u
    BY <1>2 DEF UnpostedOf
  <2> QED
    BY <1>2, <2>1, <2>2, ConcatGrows
<1> QED
  BY <1>1, <1>2

LEMMA PostedFacts ==
    ASSUME NEW q \in Seq(Items)
    PROVE  LET t == PostedOf(q)
           IN  /\ t \in Seq(Events) /\ Len(t) = Len(q) /\ DOMAIN t = DOMAIN q /\ DOMAIN q = 1..Len(q)
               /\ Len(q) \in Nat /\ \A i \in DOMAIN q : t[i] = Event(q[i].action, q[i].path)
<1>1. Len(q) \in Nat /\ DOMAIN q = 1..Len(q) /\ \A i \in DOMAIN q : q[i] \in Items
  OBVIOUS
<1>2. \A i \in DOMAIN q : Event(q[i].action, q[i].path) \in Events
  BY <1>1 DEF Items, Events, Event
<1>3. PostedOf(q) \in [1..Len(q) -> Events]
  BY <1>1, <1>2 DEF PostedOf
<1>4. PostedOf(q) \in Seq(Events) /\ Len(PostedOf(q)) = Len(q)
  BY <1>1, <1>3, FunctionIsSeq
<1> QED
  BY <1>1, <1>4 DEF PostedOf

LEMMA WaitingFacts ==
    ASSUME NEW q \in Seq(Items), NEW r \in Readings \cup {NULL}, NEW u \in Seq(Events)
    PROVE  LET w == WaitingOf(q, r, u)
               x == UnpostedOf(r, u)
           IN  /\ w \in Seq(Events) /\ x \in Seq(Events) /\ Len(q) \in Nat /\ Len(x) \in Nat
               /\ DOMAIN q = 1..Len(q) /\ DOMAIN x = 1..Len(x)
               /\ Len(w) = Len(q) + Len(x) /\ DOMAIN w = 1..(Len(q) + Len(x))
               /\ \A i \in DOMAIN q : w[i] = Event(q[i].action, q[i].path)
               /\ \A j \in DOMAIN x : w[Len(q) + j] = x[j]
<1> DEFINE t == PostedOf(q)
           x == UnpostedOf(r, u)
<1>1. x \in Seq(Events)
  BY UnpostedFacts
<1>2. /\ t \in Seq(Events) /\ Len(t) = Len(q) /\ DOMAIN t = DOMAIN q /\ DOMAIN q = 1..Len(q)
      /\ Len(q) \in Nat /\ \A i \in DOMAIN q : t[i] = Event(q[i].action, q[i].path)
  BY PostedFacts
<1>3. WaitingOf(q, r, u) = t \o x
  BY DEF WaitingOf
<1> HIDE DEF t, x
<1>4. t \o x \in Seq(Events) /\ Len(t \o x) = Len(t) + Len(x) /\ Grows(t \o x, t, x)
  BY <1>1, <1>2, ConcatGrows
<1> QED
  BY <1>1, <1>2, <1>3, <1>4 DEF Grows, x

\* Events that come are the last.
LEMMA GrowFacts ==
    ASSUME NEW q \in Seq(Items), NEW r \in Readings \cup {NULL}, NEW u \in Seq(Events),
           NEW ev \in Seq(Events)
    PROVE  /\ u \o ev \in Seq(Events)
           /\ Grows(UnpostedOf(r, u \o ev), UnpostedOf(r, u), ev)
           /\ Grows(WaitingOf(q, r, u \o ev), WaitingOf(q, r, u), ev)
<1> DEFINE x == UnpostedOf(r, u)
           t == PostedOf(q)
<1>1. u \o ev \in Seq(Events) /\ x \in Seq(Events) /\ t \in Seq(Events)
  BY ConcatGrows, UnpostedFacts, PostedFacts
<1>2. UnpostedOf(r, u \o ev) = x \o ev
  <2>1. CASE r = NULL
    BY <2>1 DEF UnpostedOf
  <2>2. CASE r # NULL
    <3>1. r.event \in Events /\ <<r.event>> \in Seq(Events)
      BY <2>2 DEF Readings
    <3>2. <<r.event>> \o (u \o ev) = (<<r.event>> \o u) \o ev
      BY <3>1, ConcatAssociative
    <3> QED
      BY <2>2, <3>2 DEF UnpostedOf
  <2> QED
    BY <2>1, <2>2
<1>3. WaitingOf(q, r, u \o ev) = (t \o x) \o ev
  <2>1. WaitingOf(q, r, u \o ev) = t \o (x \o ev)
    BY <1>2 DEF WaitingOf
  <2> HIDE DEF t, x
  <2>2. t \in Seq(Events) /\ x \in Seq(Events) /\ ev \in Seq(Events)
    BY <1>1
  <2>3. (t \o x) \o ev = t \o (x \o ev)
    BY ONLY <2>2, ConcatAssociative
  <2> QED
    BY <2>1, <2>3, Zenon
<1>4. WaitingOf(q, r, u) = t \o x
  BY DEF WaitingOf
<1> HIDE DEF t, x
<1>5. t \o x \in Seq(Events)
  BY <1>1, ConcatGrows
<1>6. Grows(x \o ev, x, ev) /\ Grows((t \o x) \o ev, t \o x, ev)
  BY <1>1, <1>5, ConcatGrows
<1> QED
  BY <1>1, <1>2, <1>3, <1>4, <1>6 DEF x

\* A sequence of events that is not empty is its first and the others.
LEMMA UnreadSplit ==
    ASSUME NEW u \in Seq(Events), u # <<>>
    PROVE  Tail(u) \in Seq(Events) /\ u = <<Head(u)>> \o Tail(u)
<1>1. Head(u) \in Events /\ Tail(u) \in Seq(Events) /\ <<Head(u)>> \in Seq(Events)
  OBVIOUS
<1>2. <<Head(u)>> \o Tail(u) \in Seq(Events) /\ Grows(<<Head(u)>> \o Tail(u), <<Head(u)>>, Tail(u))
  BY <1>1, ConcatGrows
<1> DEFINE v == <<Head(u)>> \o Tail(u)
<1>3. /\ Len(u) \in Nat /\ Len(u) # 0 /\ DOMAIN u = 1..Len(u) /\ Len(Tail(u)) = Len(u) - 1
      /\ u[1] = Head(u) /\ \A j \in 1..(Len(u) - 1) : Tail(u)[j] = u[j + 1]
  BY HeadTailProperties, EmptySeq, LenProperties
<1>4. Len(v) = Len(u)
  BY <1>1, <1>3, ConcatGrows
<1>5. v[1] = u[1]
  BY <1>2, <1>3 DEF Grows
<1>6. ASSUME NEW j \in 1..(Len(u) - 1)
      PROVE  v[j + 1] = u[j + 1]
  <2>1. v[1 + j] = Tail(u)[j] /\ 1 + j = j + 1
    BY <1>2, <1>3, <1>6 DEF Grows
  <2> QED
    BY <1>3, <2>1
<1>7. \A i \in 1..Len(u) : i = 1 \/ (i - 1 \in 1..(Len(u) - 1) /\ (i - 1) + 1 = i)
  BY <1>3
<1>8. \A i \in 1..Len(u) : v[i] = u[i]
  BY <1>5, <1>6, <1>7
<1> HIDE DEF v
<1>9. v = u
  BY <1>2, <1>4, <1>8, SeqEqual DEF v
<1> QED
  BY <1>1, <1>9 DEF v

\* The event at hand is still the first that has not been posted.
LEMMA TakeFacts ==
    ASSUME NEW r \in Readings, NEW u \in Seq(Events), u # <<>>, r.event = Head(u)
    PROVE  Tail(u) \in Seq(Events) /\ UnpostedOf(r, Tail(u)) = UnpostedOf(NULL, u)
<1>1. r # NULL
  BY NullAssumption
<1>2. Tail(u) \in Seq(Events) /\ u = <<Head(u)>> \o Tail(u)
  BY UnreadSplit
<1> QED
  BY <1>1, <1>2 DEF UnpostedOf

\* What is posted is no longer the first of these, and where it was in all.
LEMMA PostFacts ==
    ASSUME NEW q \in Seq(Items), NEW r \in Readings \cup {NULL}, NEW u \in Seq(Events),
           NEW item \in Items, NEW v \in Seq(Events),
           UnpostedOf(r, u) = <<Event(item.action, item.path)>> \o v
    PROVE  WaitingOf(Append(q, item), NULL, v) = WaitingOf(q, r, u)
<1> DEFINE e == Event(item.action, item.path)
           t == PostedOf(q)
<1>1. t \in Seq(Events) /\ e \in Events /\ <<e>> \in Seq(Events)
  <2>1. e \in Events
    BY DEF Items, Events, Event
  <2> HIDE DEF e
  <2> QED
    BY <2>1, PostedFacts
<1>2. PostedOf(Append(q, item)) = t \o <<e>>
  <2> DEFINE a == PostedOf(Append(q, item))
             b == t \o <<e>>
  <2>1. Append(q, item) \in Seq(Items) /\ Len(Append(q, item)) = Len(q) + 1
        /\ Append(q, item)[Len(q) + 1] = item /\ \A i \in 1..Len(q) : Append(q, item)[i] = q[i]
    BY AppendProperties
  <2>2. /\ a \in Seq(Events) /\ Len(a) = Len(q) + 1
        /\ \A i \in 1..(Len(q) + 1) : a[i] = Event(Append(q, item)[i].action, Append(q, item)[i].path)
    BY <2>1, PostedFacts
  <2>3. b \in Seq(Events) /\ Len(b) = Len(t) + 1 /\ Grows(b, t, <<e>>)
    <3>1. Len(<<e>>) = 1
      OBVIOUS
    <3> HIDE DEF e, t
    <3> QED
      BY <1>1, <3>1, ConcatGrows
  <2>4. Len(t) = Len(q) /\ Len(q) \in Nat /\ DOMAIN t = 1..Len(q) /\ \A i \in 1..Len(q) : t[i] = Event(q[i].action, q[i].path)
    BY PostedFacts
  <2>5. b[Len(q) + 1] = e /\ \A i \in 1..Len(q) : b[i] = t[i]
    <3>1. 1 \in DOMAIN <<e>> /\ <<e>>[1] = e
      OBVIOUS
    <3> HIDE DEF e, t
    <3> QED
      BY <2>3, <2>4, <3>1 DEF Grows
  <2> HIDE DEF a, b, t
  <2>6. \A i \in 1..(Len(q) + 1) : i \in 1..Len(q) \/ i = Len(q) + 1
    BY <2>4
  <2>7. \A i \in 1..(Len(q) + 1) : a[i] = b[i]
    BY <2>1, <2>2, <2>4, <2>5, <2>6
  <2> QED
    BY <2>2, <2>3, <2>4, <2>7, SeqEqual DEF a, b, t
<1>3. WaitingOf(Append(q, item), NULL, v) = (t \o <<e>>) \o v
  BY <1>2 DEF WaitingOf, UnpostedOf
<1>4. WaitingOf(q, r, u) = t \o (<<e>> \o v)
  BY DEF WaitingOf
<1> HIDE DEF t, e
<1> QED
  BY <1>1, <1>3, <1>4, ConcatAssociative

\* An event that is dropped is the first that has not been posted.
LEMMA DropFacts ==
    ASSUME NEW q \in Seq(Items), NEW u \in Seq(Events), u # <<>>
    PROVE  /\ Tail(u) \in Seq(Events) /\ WaitingOf(q, NULL, u)[Len(q) + 1] = Head(u)
           /\ \E f : Embeds(f, WaitingOf(q, NULL, Tail(u)), WaitingOf(q, NULL, u), Len(q) + 1)
                     /\ \A i \in DOMAIN q : f[i] = i
<1> DEFINE w == WaitingOf(q, NULL, u)
           t == WaitingOf(q, NULL, Tail(u))
           n == Len(q)
           m == Len(u)
<1>1. Tail(u) \in Seq(Events) /\ UnpostedOf(NULL, u) = u /\ UnpostedOf(NULL, Tail(u)) = Tail(u)
  BY DEF UnpostedOf
<1>2. /\ n \in Nat /\ m \in Nat /\ DOMAIN q = 1..n /\ DOMAIN u = 1..m /\ DOMAIN w = 1..(n + m)
      /\ \A i \in 1..n : w[i] = Event(q[i].action, q[i].path)
      /\ \A j \in 1..m : w[n + j] = u[j]
  <2>1. NULL \in Readings \cup {NULL}
    OBVIOUS
  <2>2. LET x == UnpostedOf(NULL, u)
        IN  /\ x \in Seq(Events) /\ Len(q) \in Nat /\ Len(x) \in Nat
            /\ DOMAIN q = 1..Len(q) /\ DOMAIN x = 1..Len(x) /\ DOMAIN w = 1..(Len(q) + Len(x))
            /\ \A i \in DOMAIN q : w[i] = Event(q[i].action, q[i].path)
            /\ \A j \in DOMAIN x : w[Len(q) + j] = x[j]
    BY <2>1, WaitingFacts, Zenon
  <2> HIDE DEF w
  <2> QED
    BY <1>1, <2>2
<1>3. m # 0 /\ Len(Tail(u)) = m - 1 /\ u[1] = Head(u) /\ \A j \in 1..(m - 1) : Tail(u)[j] = u[j + 1]
  BY HeadTailProperties, EmptySeq
<1>4. /\ DOMAIN t = 1..(n + (m - 1))
      /\ \A i \in 1..n : t[i] = Event(q[i].action, q[i].path)
      /\ \A j \in 1..(m - 1) : t[n + j] = Tail(u)[j]
  <2>1. NULL \in Readings \cup {NULL}
    OBVIOUS
  <2>2. LET x == UnpostedOf(NULL, Tail(u))
        IN  /\ DOMAIN q = 1..Len(q) /\ DOMAIN x = 1..Len(x) /\ DOMAIN t = 1..(Len(q) + Len(x))
            /\ \A i \in DOMAIN q : t[i] = Event(q[i].action, q[i].path)
            /\ \A j \in DOMAIN x : t[Len(q) + j] = x[j]
    BY <1>1, <2>1, WaitingFacts, Zenon
  <2> HIDE DEF t
  <2> QED
    BY <1>1, <1>3, <2>2
<1> DEFINE f == [i \in DOMAIN t |-> IF i <= n THEN i ELSE i + 1]
<1> HIDE DEF w, t, n, m
<1>5. f \in [DOMAIN t -> DOMAIN w \ {n + 1}] /\ n + 1 \in DOMAIN w
  BY <1>2, <1>3, <1>4
<1>6. ASSUME NEW i \in DOMAIN t
      PROVE  t[i] = w[f[i]]
  <2>1. CASE i <= n
    BY <1>2, <1>4, <2>1
  <2>2. CASE i > n
    <3> DEFINE j == i - n
    <3>1. j \in 1..(m - 1) /\ j + 1 \in 1..m /\ n + j = i /\ n + (j + 1) = i + 1 /\ f[i] = i + 1
      BY <1>2, <1>3, <1>4, <2>2
    <3> HIDE DEF j, f
    <3>2. t[i] = Tail(u)[j] /\ Tail(u)[j] = u[j + 1] /\ w[i + 1] = u[j + 1]
      BY <1>2, <1>3, <1>4, <3>1
    <3> QED
      BY <3>1, <3>2
  <2> QED
    BY <1>2, <1>4, <2>1, <2>2
<1>7. ASSUME NEW j \in DOMAIN w \ {n + 1}
      PROVE  \E i \in DOMAIN t : f[i] = j
  <2> DEFINE i == IF j <= n THEN j ELSE j - 1
  <2>1. i \in DOMAIN t /\ f[i] = j
    BY <1>2, <1>3, <1>4
  <2> QED
    BY <2>1
<1>8. \A i, j \in DOMAIN t : i < j <=> f[i] < f[j]
  BY <1>2, <1>3, <1>4
<1>9. \A i \in DOMAIN q : f[i] = i
  <2>1. \A i \in DOMAIN q : i \in DOMAIN t /\ i <= n
    BY <1>2, <1>3, <1>4
  <2> QED
    BY <2>1
<1>10. DOMAIN w \subseteq Nat \ {0} /\ DOMAIN t \subseteq Nat \ {0} /\ w[n + 1] = Head(u)
  BY <1>2, <1>3, <1>4
<1> HIDE DEF f
<1>11. Embeds(f, t, w, n + 1)
  BY <1>5, <1>6, <1>7, <1>8, <1>10 DEF Embeds
<1> QED
  BY <1>1, <1>9, <1>10, <1>11 DEF w, t, n

\* An event that is handled is the first of all.
LEMMA PopFacts ==
    ASSUME NEW q \in Seq(Items), q # <<>>, NEW r \in Readings \cup {NULL}, NEW u \in Seq(Events)
    PROVE  /\ Tail(q) \in Seq(Items) /\ WaitingOf(q, r, u)[1] = Event(Head(q).action, Head(q).path)
           /\ \E f : Embeds(f, WaitingOf(Tail(q), r, u), WaitingOf(q, r, u), 1)
                     /\ \A i \in DOMAIN WaitingOf(Tail(q), r, u) : f[i] = i + 1
<1> DEFINE w == WaitingOf(q, r, u)
           t == WaitingOf(Tail(q), r, u)
           x == UnpostedOf(r, u)
           n == Len(q)
           m == Len(x)
<1>1. Tail(q) \in Seq(Items)
  OBVIOUS
<1>2. /\ n \in Nat /\ m \in Nat /\ DOMAIN w = 1..(n + m)
      /\ \A i \in 1..n : w[i] = Event(q[i].action, q[i].path)
      /\ \A j \in 1..m : w[n + j] = x[j]
  BY WaitingFacts
<1>3. n # 0 /\ Len(Tail(q)) = n - 1 /\ q[1] = Head(q) /\ \A j \in 1..(n - 1) : Tail(q)[j] = q[j + 1]
  BY HeadTailProperties, EmptySeq
<1>4. /\ DOMAIN t = 1..((n - 1) + m)
      /\ \A i \in 1..(n - 1) : t[i] = Event(Tail(q)[i].action, Tail(q)[i].path)
      /\ \A j \in 1..m : t[(n - 1) + j] = x[j]
  <2>1. /\ DOMAIN t = 1..(Len(Tail(q)) + m)
        /\ DOMAIN Tail(q) = 1..Len(Tail(q)) /\ DOMAIN x = 1..m
        /\ \A i \in DOMAIN Tail(q) : t[i] = Event(Tail(q)[i].action, Tail(q)[i].path)
        /\ \A j \in DOMAIN x : t[Len(Tail(q)) + j] = x[j]
    BY <1>1, WaitingFacts
  <2> QED
    BY <1>3, <2>1
<1> DEFINE f == [i \in DOMAIN t |-> i + 1]
<1> HIDE DEF w, t, n, m, x
<1>5. f \in [DOMAIN t -> DOMAIN w \ {1}] /\ 1 \in DOMAIN w
  BY <1>2, <1>3, <1>4
<1>6. ASSUME NEW i \in DOMAIN t
      PROVE  t[i] = w[f[i]]
  <2>1. CASE i <= n - 1
    <3>1. i \in 1..(n - 1) /\ i + 1 \in 1..n /\ f[i] = i + 1
      BY <1>2, <1>3, <1>4, <2>1
    <3> QED
      BY <1>2, <1>3, <1>4, <3>1
  <2>2. CASE i > n - 1
    <3> DEFINE j == i - (n - 1)
    <3>1. j \in 1..m /\ (n - 1) + j = i /\ n + j = i + 1 /\ f[i] = i + 1
      BY <1>2, <1>3, <1>4, <2>2
    <3> HIDE DEF j, f
    <3>2. t[(n - 1) + j] = x[j]
      BY <1>4, <3>1
    <3>3. w[n + j] = x[j]
      BY <1>2, <3>1
    <3> QED
      BY <3>1, <3>2, <3>3
  <2> QED
    BY <1>2, <1>4, <2>1, <2>2
<1>7. ASSUME NEW j \in DOMAIN w \ {1}
      PROVE  \E i \in DOMAIN t : f[i] = j
  <2>1. j - 1 \in DOMAIN t /\ f[j - 1] = j
    BY <1>2, <1>3, <1>4
  <2> QED
    BY <2>1
<1>8. \A i, j \in DOMAIN t : i < j <=> f[i] < f[j]
  BY <1>2, <1>3, <1>4
<1>9. \A i \in DOMAIN t : f[i] = i + 1
  OBVIOUS
<1>10. DOMAIN w \subseteq Nat \ {0} /\ DOMAIN t \subseteq Nat \ {0} /\ w[1] = Event(Head(q).action, Head(q).path)
  BY <1>2, <1>3, <1>4
<1> HIDE DEF f
<1>11. Embeds(f, t, w, 1)
  BY <1>5, <1>6, <1>7, <1>8, <1>10 DEF Embeds
<1> QED
  BY <1>1, <1>9, <1>10, <1>11 DEF w, t

\* Where an event was before one was taken out, and where it is then.
LEMMA EmbedFacts ==
    ASSUME NEW f, NEW t, NEW w, NEW k, Embeds(f, t, w, k), NEW p
    PROVE  /\ \A i \in Adds(t, p) : i \in DOMAIN t /\ f[i] \in Adds(w, p) /\ f[i] # k
           /\ \A i \in Removes(t, p) : i \in DOMAIN t /\ f[i] \in Removes(w, p) /\ f[i] # k
           /\ \A j \in Adds(w, p) : j # k => \E i \in Adds(t, p) : f[i] = j
           /\ \A j \in Removes(w, p) : j # k => \E i \in Removes(t, p) : f[i] = j
           /\ \A j \in Adds(w, p) \cup Removes(w, p) : j \in Nat /\ (k = 1 /\ j # k => k < j)
           /\ \A i, j \in DOMAIN t : i < j <=> f[i] < f[j]
<1>1. \A j \in DOMAIN w : j \in Nat /\ (k = 1 /\ j # k => k < j)
  BY DEF Embeds
<1>2. \A i \in DOMAIN t : f[i] \in DOMAIN w /\ f[i] # k /\ t[i] = w[f[i]]
  BY DEF Embeds
<1>3. \A j \in DOMAIN w \ {k} : \E i \in DOMAIN t : f[i] = j
  BY DEF Embeds
<1>4. \A i, j \in DOMAIN t : i < j <=> f[i] < f[j]
  BY DEF Embeds
<1>5. /\ \A i \in Adds(t, p) : i \in DOMAIN t /\ f[i] \in Adds(w, p) /\ f[i] # k
      /\ \A i \in Removes(t, p) : i \in DOMAIN t /\ f[i] \in Removes(w, p) /\ f[i] # k
  BY <1>2 DEF Adds, Removes
<1>6. /\ \A j \in Adds(w, p) : j # k => \E i \in Adds(t, p) : f[i] = j
      /\ \A j \in Removes(w, p) : j # k => \E i \in Removes(t, p) : f[i] = j
  BY <1>2, <1>3 DEF Adds, Removes
<1>7. \A j \in Adds(w, p) \cup Removes(w, p) : j \in DOMAIN w
  BY DEF Adds, Removes
<1> QED
  BY <1>1, <1>4, <1>5, <1>6, <1>7

\* What holds of the waiting events when one that does not matter, or the first, is
\* taken out.
LEMMA Shrinks ==
    ASSUME NEW f, NEW t, NEW w, NEW k, Embeds(f, t, w, k), NEW p
    PROVE  /\ ComesBack(w, p) /\ (k = 1 \/ w[k] # Event("add", p)) => ComesBack(t, p)
           /\ GoesAway(w, p) /\ (k = 1 \/ w[k] # Event("remove", p)) => GoesAway(t, p)
           /\ OneByOne(w, p) /\ (k = 1 \/ w[k] # Event("remove", p)) => OneByOne(t, p)
           /\ NotTwice(w, p) /\ w[k] # Event("remove", p) => NotTwice(t, p)
           /\ Removes(w, p) # {} /\ w[k] # Event("remove", p) => Removes(t, p) # {}
           /\ Adds(w, p) # {} /\ w[k] # Event("add", p) => Adds(t, p) # {}
           /\ (Adds(w, p) = {} => Adds(t, p) = {}) /\ (Removes(w, p) = {} => Removes(t, p) = {})
<1> DEFINE d == DiskOf(p)
<1>1. /\ \A i \in Adds(t, p) : i \in DOMAIN t /\ f[i] \in Adds(w, p) /\ f[i] # k
      /\ \A i \in Removes(t, p) : i \in DOMAIN t /\ f[i] \in Removes(w, p) /\ f[i] # k
      /\ \A j \in Adds(w, p) : j # k => \E i \in Adds(t, p) : f[i] = j
      /\ \A j \in Removes(w, p) : j # k => \E i \in Removes(t, p) : f[i] = j
      /\ \A j \in Adds(w, p) \cup Removes(w, p) : j \in Nat /\ (k = 1 /\ j # k => k < j)
      /\ \A i, j \in DOMAIN t : i < j <=> f[i] < f[j]
  BY EmbedFacts
<1>2. /\ \A i \in Removes(t, d) : i \in DOMAIN t /\ f[i] \in Removes(w, d) /\ f[i] # k
      /\ \A j \in Removes(w, d) : j \in Nat /\ (k = 1 /\ j # k => k < j)
  <2> HIDE DEF d
  <2> QED
    BY EmbedFacts
<1>3. /\ w[k] # Event("add", p) => k \notin Adds(w, p)
      /\ w[k] # Event("remove", p) => k \notin Removes(w, p)
  BY DEF Adds, Removes
<1>4. \A i, j \in Nat : k = 1 /\ i < j /\ k < i => j # k
  OBVIOUS
<1>5. ASSUME ComesBack(w, p), k = 1 \/ w[k] # Event("add", p)
      PROVE  ComesBack(t, p)
  <2> SUFFICES ASSUME NEW i \in Removes(t, p) \cup Removes(t, d)
               PROVE  \E j \in Adds(t, p) : i < j
    BY DEF ComesBack
  <2>1. i \in DOMAIN t /\ f[i] \in Removes(w, p) \cup Removes(w, d) /\ f[i] # k /\ f[i] \in Nat
    BY <1>1, <1>2
  <2>2. PICK j \in Adds(w, p) : f[i] < j
    BY <1>5, <2>1 DEF ComesBack
  <2>3. j # k
    BY <1>1, <1>2, <1>3, <1>4, <1>5, <2>1, <2>2
  <2> QED
    BY <1>1, <2>1, <2>2, <2>3
<1>6. ASSUME GoesAway(w, p), k = 1 \/ w[k] # Event("remove", p)
      PROVE  GoesAway(t, p)
  <2> SUFFICES ASSUME NEW i \in DOMAIN t, t[i].path = p, t[i].action # "remove"
               PROVE  \E j \in Removes(t, p) : i < j
    BY DEF GoesAway
  <2>1. f[i] \in DOMAIN w /\ w[f[i]] = t[i] /\ f[i] # k /\ f[i] \in Nat /\ (k = 1 => k < f[i])
    BY DEF Embeds
  <2>2. PICK j \in Removes(w, p) : f[i] < j
    BY <1>6, <2>1 DEF GoesAway
  <2>3. j # k
    BY <1>1, <1>3, <1>4, <1>6, <2>1, <2>2
  <2> QED
    BY <1>1, <2>1, <2>2, <2>3
<1>7. ASSUME OneByOne(w, p), k = 1 \/ w[k] # Event("remove", p)
      PROVE  OneByOne(t, p)
  <2> SUFFICES ASSUME NEW i \in Adds(t, p), NEW j \in Adds(t, p), i < j
               PROVE  \E h \in Removes(t, p) : i < h /\ h < j
    BY DEF OneByOne
  <2>1. PICK h \in Removes(w, p) : f[i] < h /\ h < f[j]
    BY <1>1, <1>7 DEF OneByOne
  <2>2. h # k
    BY <1>1, <1>3, <1>4, <1>7, <2>1
  <2> QED
    BY <1>1, <2>1, <2>2
<1>8. ASSUME NotTwice(w, p), w[k] # Event("remove", p)
      PROVE  NotTwice(t, p)
  <2> SUFFICES ASSUME NEW j \in Adds(t, p)
               PROVE  \E h \in Removes(t, p) : h < j
    BY DEF NotTwice
  <2>1. PICK h \in Removes(w, p) : h < f[j]
    BY <1>1, <1>8 DEF NotTwice
  <2> QED
    BY <1>1, <1>3, <1>8, <2>1
<1>9. /\ Removes(w, p) # {} /\ w[k] # Event("remove", p) => Removes(t, p) # {}
      /\ Adds(w, p) # {} /\ w[k] # Event("add", p) => Adds(t, p) # {}
      /\ (Adds(w, p) = {} => Adds(t, p) = {}) /\ (Removes(w, p) = {} => Removes(t, p) = {})
  BY <1>1, <1>3
<1> QED
  BY <1>5, <1>6, <1>7, <1>8, <1>9

\* What holds then of the disk of a partition.
LEMMA ShrinksParent ==
    ASSUME NEW f, NEW t, NEW w, NEW k, Embeds(f, t, w, k), NEW p, NEW L, NEW M,
           ParentFirst(w, p, L), k = 1 \/ w[k] # Event("remove", p),
           \/ w[k] # Event("add", DiskOf(p)) /\ (DiskOf(p) \in L /\ Removes(w, DiskOf(p)) = {} => DiskOf(p) \in M)
           \/ k = 1 /\ DiskOf(p) \in M
    PROVE  ParentFirst(t, p, M)
<1> DEFINE d == DiskOf(p)
<1>1. /\ \A i \in Adds(t, p) : i \in DOMAIN t /\ f[i] \in Adds(w, p) /\ f[i] # k
      /\ \A j \in Removes(w, p) : j # k => \E i \in Removes(t, p) : f[i] = j /\ i \in DOMAIN t
      /\ \A j \in Adds(w, p) \cup Removes(w, p) : j \in Nat /\ (k = 1 /\ j # k => k < j)
      /\ \A i, j \in DOMAIN t : i < j <=> f[i] < f[j]
  BY EmbedFacts
<1>2. /\ \A i \in Removes(t, d) : i \in DOMAIN t /\ f[i] \in Removes(w, d) /\ f[i] # k
      /\ \A j \in Adds(w, d) : j # k => \E i \in Adds(t, d) : f[i] = j /\ i \in DOMAIN t
      /\ \A j \in Adds(w, d) \cup Removes(w, d) : j \in Nat /\ (k = 1 /\ j # k => k < j)
  <2> HIDE DEF d
  <2> QED
    BY EmbedFacts
<1> SUFFICES ASSUME NEW j \in Adds(t, p), \A i \in Removes(t, p) : i < j
             PROVE  \/ \E h \in Adds(t, d) : h < j /\ \A i \in Removes(t, d) : i < h
                    \/ d \in M /\ Removes(t, d) = {}
  BY DEF ParentFirst
<1>3. f[j] \in Adds(w, p) /\ j \in DOMAIN t /\ f[j] # k
  BY <1>1
<1>4. ASSUME NEW i \in Removes(w, p)
      PROVE  i < f[j]
  <2>1. CASE i = k
    BY <1>1, <1>3, <2>1 DEF Removes
  <2>2. CASE i # k
    BY <1>1, <1>3, <2>2
  <2> QED
    BY <2>1, <2>2
<1>5. \/ \E h \in Adds(w, d) : h < f[j] /\ \A i \in Removes(w, d) : i < h
      \/ d \in L /\ Removes(w, d) = {}
  BY <1>3, <1>4 DEF ParentFirst
<1>6. ASSUME NEW h \in Adds(w, d), h # k, h < f[j], \A i \in Removes(w, d) : i < h
      PROVE  \E g \in Adds(t, d) : g < j /\ \A i \in Removes(t, d) : i < g
  <2>1. PICK g \in Adds(t, d) : f[g] = h /\ g \in DOMAIN t
    BY <1>2, <1>6
  <2>2. g < j
    BY <1>1, <1>3, <1>6, <2>1
  <2>3. \A i \in Removes(t, d) : i < g
    BY <1>1, <1>2, <1>6, <2>1
  <2> QED
    BY <2>1, <2>2, <2>3
<1>7. CASE \E h \in Adds(w, d) : h < f[j] /\ \A i \in Removes(w, d) : i < h
  <2>1. PICK h \in Adds(w, d) : h < f[j] /\ \A i \in Removes(w, d) : i < h
    BY <1>7
  <2>2. CASE h # k
    BY <1>6, <2>1, <2>2
  <2>3. CASE h = k
    <3>1. k = 1 /\ d \in M
      BY <2>3 DEF Adds
    <3>2. Removes(t, d) = {}
      <4> SUFFICES ASSUME NEW i \in Removes(t, d)
                   PROVE  FALSE
        OBVIOUS
      <4>1. f[i] \in Removes(w, d) /\ f[i] \in Nat /\ k < f[i] /\ f[i] < k
        BY <1>2, <2>1, <2>3, <3>1
      <4> QED
        BY <3>1, <4>1
    <3> QED
      BY <3>1, <3>2
  <2> QED
    BY <2>2, <2>3
<1>8. CASE d \in L /\ Removes(w, d) = {}
  <2>1. d \in M /\ Removes(t, d) = {}
    BY <1>2, <1>8
  <2> QED
    BY <2>1
<1> QED
  BY <1>5, <1>7, <1>8

\* The event "add" of a device that is gone is dropped.
LEMMA FitsDrop ==
    ASSUME NEW f, NEW t, NEW w, NEW k, Embeds(f, t, w, k),
           NEW there, NEW start, NEW listed, NEW x, w[k] = Event("add", x), x \notin there,
           NEW p, p \in there /\ IsPartition(p) => DiskOf(p) \in there, Agrees(w, p, there, start, listed)
    PROVE  Agrees(t, p, there, start, listed)
<1>1. /\ w[k] # Event("remove", p) /\ (p \in there => w[k] # Event("add", p))
      /\ p \in there /\ IsPartition(p) => w[k] # Event("add", DiskOf(p))
  BY DEF Event
<1>2. /\ p \in there => ComesBack(t, p)
      /\ p \notin there => GoesAway(t, p) /\ (p \in listed => Removes(t, p) # {})
      /\ OneByOne(t, p) /\ (p \in listed => NotTwice(t, p))
      /\ p \in there \ start /\ Recognised(p) /\ p \notin listed => Adds(t, p) # {}
  BY <1>1, Shrinks DEF Agrees
<1>3. ASSUME p \in there, IsPartition(p), Recognised(p)
      PROVE  ParentFirst(t, p, listed)
  BY <1>1, <1>3, ShrinksParent DEF Agrees
<1> QED
  BY <1>2, <1>3 DEF Agrees

\* What the event e, handled, makes of the list L, as far as p is concerned.
Handled(e, p, L, M) ==
    \/ e.action = "change" /\ (p \in M <=> p \in L) /\ (DiskOf(p) \in M <=> DiskOf(p) \in L)
    \/ /\ e.action = "add"
       /\ (p \in L => p \in M) /\ (DiskOf(p) \in L => DiskOf(p) \in M)
       /\ p \in M => p \in L \/ e.path = p
       /\ e.path = p => p \in M \/ ~Recognised(p) \/ (IsPartition(p) /\ DiskOf(p) \notin L)
       /\ e.path = DiskOf(p) => DiskOf(p) \in M \/ ~Recognised(p)
    \/ /\ e.action = "remove"
       /\ p \in M => p \in L /\ e.path # p
       /\ p \in L => p \in M \/ e.path = p \/ e.path = DiskOf(p)
       /\ DiskOf(p) \in L => DiskOf(p) \in M \/ e.path = DiskOf(p)

LEMMA FitsPop ==
    ASSUME NEW f, NEW t, NEW w, Embeds(f, t, w, 1), w[1] \in Events,
           NEW there, NEW start, NEW L, NEW M, NEW p, Handled(w[1], p, L, M), Agrees(w, p, there, start, L)
    PROVE  Agrees(t, p, there, start, M)
<1> DEFINE e == w[1]
           d == DiskOf(p)
<1>1. /\ \A q : e = Event("add", q) <=> e.action = "add" /\ e.path = q
      /\ \A q : e = Event("remove", q) <=> e.action = "remove" /\ e.path = q
      /\ 1 \in DOMAIN w
  BY DEF Events, Event, Embeds
<1>2. /\ \A q : 1 \in Adds(w, q) <=> e.action = "add" /\ e.path = q
      /\ \A q : 1 \in Removes(w, q) <=> e.action = "remove" /\ e.path = q
  BY <1>1 DEF Adds, Removes
<1>3. /\ \A i \in Adds(t, p) : i \in DOMAIN t /\ f[i] \in Adds(w, p) /\ f[i] # 1
      /\ \A j \in Adds(w, p) : j # 1 => \E i \in Adds(t, p) : f[i] = j
      /\ \A j \in Removes(w, p) : j # 1 => \E i \in Removes(t, p) : f[i] = j
      /\ \A i \in Removes(t, p) : i \in DOMAIN t
      /\ \A j \in Adds(w, p) \cup Removes(w, p) : j \in Nat /\ (j # 1 => 1 < j)
      /\ \A i, j \in DOMAIN t : i < j <=> f[i] < f[j]
  BY EmbedFacts
<1>4. \A i \in Nat : 1 < i => i # 1
  OBVIOUS
<1>5. (p \in there => ComesBack(t, p)) /\ (p \notin there => GoesAway(t, p)) /\ OneByOne(t, p)
  BY Shrinks DEF Agrees
<1>6. ASSUME p \notin there, p \in M
      PROVE  Removes(t, p) # {}
  <2>1. CASE p \in L
    <3>1. e # Event("remove", p)
      BY <1>1, <1>6, <2>1 DEF Handled
    <3> QED
      BY <1>6, <2>1, <3>1, Shrinks DEF Agrees
  <2>2. CASE p \notin L
    <3>1. e.action = "add" /\ e.path = p
      BY <1>6, <2>2 DEF Handled
    <3>2. PICK j \in Removes(w, p) : 1 < j
      BY <1>1, <1>6, <3>1 DEF Agrees, GoesAway
    <3> QED
      BY <1>3, <1>4, <3>2
  <2> QED
    BY <2>1, <2>2
<1>7. ASSUME p \in M
      PROVE  NotTwice(t, p)
  <2>1. CASE p \in L
    <3>1. e # Event("remove", p)
      BY <1>1, <1>7, <2>1 DEF Handled
    <3> QED
      BY <2>1, <3>1, Shrinks DEF Agrees
  <2>2. CASE p \notin L
    <3>1. 1 \in Adds(w, p)
      BY <1>2, <1>7, <2>2 DEF Handled
    <3> SUFFICES ASSUME NEW j \in Adds(t, p)
                 PROVE  \E h \in Removes(t, p) : h < j
      BY DEF NotTwice
    <3>2. f[j] \in Adds(w, p) /\ 1 < f[j] /\ j \in DOMAIN t
      BY <1>3
    <3>3. PICK h \in Removes(w, p) : 1 < h /\ h < f[j]
      BY <3>1, <3>2 DEF Agrees, OneByOne
    <3>4. PICK g \in Removes(t, p) : f[g] = h
      BY <1>3, <1>4, <3>3
    <3> QED
      BY <1>3, <3>2, <3>3, <3>4
  <2> QED
    BY <2>1, <2>2
<1>8. ASSUME p \in there, p \notin start, Recognised(p), p \notin M
      PROVE  Adds(t, p) # {}
  <2>1. ASSUME NEW i \in Removes(w, p) \cup Removes(w, d), i = 1 \/ 1 < i, i \in Nat
        PROVE  Adds(t, p) # {}
    <3>1. PICK j \in Adds(w, p) : i < j
      BY <1>8, <2>1 DEF Agrees, ComesBack
    <3>2. j # 1
      BY <1>3, <2>1, <3>1
    <3> QED
      BY <1>3, <3>2
  <2>2. CASE e.action = "change"
    <3>1. p \notin L /\ e # Event("add", p)
      BY <1>1, <1>8, <2>2 DEF Handled
    <3> QED
      BY <1>8, <3>1, Shrinks DEF Agrees
  <2>3. CASE e.action = "add"
    <3>1. p \notin L
      BY <1>8, <2>3 DEF Handled
    <3>2. CASE e.path # p
      BY <1>1, <1>8, <3>1, <3>2, Shrinks DEF Agrees
    <3>3. CASE e.path = p
      <4>1. IsPartition(p) /\ d \notin L /\ 1 \in Adds(w, p)
        BY <1>2, <1>8, <2>3, <3>3 DEF Handled
      <4>2. ~(\A i \in Removes(w, p) : i < 1)
        <5> SUFFICES ASSUME \A i \in Removes(w, p) : i < 1
                     PROVE  FALSE
          OBVIOUS
        <5>1. PICK h \in Adds(w, d) : h < 1
          BY <1>8, <4>1 DEF Agrees, ParentFirst
        <5>2. h \in Nat /\ h # 0
          BY DEF Adds, Embeds
        <5> QED
          BY <5>1, <5>2
      <4>3. PICK i \in Removes(w, p) : ~(i < 1)
        BY <4>2
      <4>4. i \in Nat /\ (i = 1 \/ 1 < i)
        BY <1>3, <4>3
      <4> QED
        BY <2>1, <4>4
    <3> QED
      BY <3>2, <3>3
  <2>4. CASE e.action = "remove"
    <3>1. CASE p \notin L
      BY <1>1, <1>8, <2>4, <3>1, Shrinks DEF Agrees
    <3>2. CASE p \in L
      <4>1. 1 \in Removes(w, p) \cup Removes(w, d)
        BY <1>2, <1>8, <2>4, <3>2 DEF Handled
      <4> QED
        BY <2>1, <4>1
    <3> QED
      BY <3>1, <3>2
  <2> QED
    BY <2>2, <2>3, <2>4 DEF Events, Actions
<1>9. ASSUME p \in there, IsPartition(p), Recognised(p)
      PROVE  ParentFirst(t, p, M)
  <2>1. ParentFirst(w, p, L)
    BY <1>9 DEF Agrees
  <2>2. CASE e = Event("add", d)
    <3>1. d \in M
      BY <1>1, <1>9, <2>2 DEF Handled
    <3> QED
      BY <2>1, <3>1, ShrinksParent
  <2>3. CASE e # Event("add", d)
    <3>1. d \in L /\ Removes(w, d) = {} => d \in M
      <4> SUFFICES ASSUME d \in L, Removes(w, d) = {}
                   PROVE  d \in M
        OBVIOUS
      <4>1. ~(e.action = "remove" /\ e.path = d)
        BY <1>2
      <4> QED
        BY <4>1 DEF Handled
    <3> QED
      BY <2>1, <2>3, <3>1, ShrinksParent
  <2> QED
    BY <2>2, <2>3
<1> QED
  BY <1>5, <1>6, <1>7, <1>8, <1>9 DEF Agrees

\* The events of before and the new ones.
LEMMA GrowSets ==
    ASSUME NEW t, NEW w, NEW ev, Grows(t, w, ev), NEW p
    PROVE  /\ Adds(w, p) \subseteq Adds(t, p) /\ Removes(w, p) \subseteq Removes(t, p)
           /\ \A i \in Adds(t, p) : i \in Adds(w, p) \/ \E j \in Adds(ev, p) : i = Len(w) + j
           /\ \A i \in Removes(t, p) : i \in Removes(w, p) \/ \E j \in Removes(ev, p) : i = Len(w) + j
           /\ \A j \in Adds(ev, p) : Len(w) + j \in Adds(t, p)
           /\ \A j \in Removes(ev, p) : Len(w) + j \in Removes(t, p)
           /\ Adds(w, p) \cup Removes(w, p) \subseteq DOMAIN w
           /\ Adds(ev, p) \cup Removes(ev, p) \subseteq DOMAIN ev
<1>1. \A i \in DOMAIN t : i \in DOMAIN w \/ \E j \in DOMAIN ev : i = Len(w) + j
  <2> TAKE i \in DOMAIN t
  <2>1. CASE i <= Len(w)
    BY <2>1 DEF Grows
  <2>2. CASE i > Len(w)
    <3>1. i - Len(w) \in DOMAIN ev /\ i = Len(w) + (i - Len(w))
      BY <2>2 DEF Grows
    <3> QED
      BY <3>1
  <2> QED
    BY <2>1, <2>2 DEF Grows
<1>2. \A i \in DOMAIN w : i \in DOMAIN t /\ t[i] = w[i]
  BY DEF Grows
<1>3. \A j \in DOMAIN ev : Len(w) + j \in DOMAIN t /\ t[Len(w) + j] = ev[j]
  BY DEF Grows
<1> QED
  BY <1>1, <1>2, <1>3 DEF Adds, Removes

LEMMA GrowNone ==
    ASSUME NEW t, NEW w, NEW ev, Grows(t, w, ev), NEW p
    PROVE  /\ Adds(ev, p) = {} => Adds(t, p) = Adds(w, p)
           /\ Removes(ev, p) = {} => Removes(t, p) = Removes(w, p)
           /\ Adds(w, p) \subseteq Adds(t, p) /\ Removes(w, p) \subseteq Removes(t, p)
<1>1. /\ Adds(w, p) \subseteq Adds(t, p) /\ Removes(w, p) \subseteq Removes(t, p)
      /\ \A i \in Adds(t, p) : i \in Adds(w, p) \/ \E j \in Adds(ev, p) : i = Len(w) + j
      /\ \A i \in Removes(t, p) : i \in Removes(w, p) \/ \E j \in Removes(ev, p) : i = Len(w) + j
  BY GrowSets
<1> QED
  BY <1>1

LEMMA GrowPlaces ==
    ASSUME NEW t, NEW w, NEW ev, Grows(t, w, ev)
    PROVE  /\ \A i \in DOMAIN w : i \in Nat /\ i \in DOMAIN t /\ t[i] = w[i] /\ ~(Len(w) < i)
           /\ \A j \in DOMAIN ev : /\ j \in Nat /\ Len(w) + j \in Nat /\ Len(w) + j \in DOMAIN t
                                   /\ t[Len(w) + j] = ev[j] /\ Len(w) < Len(w) + j
           /\ \A i \in DOMAIN w, j \in DOMAIN ev : i < Len(w) + j
           /\ \A i, j \in DOMAIN ev : i < j <=> Len(w) + i < Len(w) + j
           /\ \A i \in DOMAIN t : i \in DOMAIN w \/ \E j \in DOMAIN ev : i = Len(w) + j
<1>1. \A i \in DOMAIN t : i \in DOMAIN w \/ \E j \in DOMAIN ev : i = Len(w) + j
  <2> TAKE i \in DOMAIN t
  <2>1. CASE i <= Len(w)
    BY <2>1 DEF Grows
  <2>2. CASE i > Len(w)
    <3>1. i - Len(w) \in DOMAIN ev /\ i = Len(w) + (i - Len(w))
      BY <2>2 DEF Grows
    <3> QED
      BY <3>1
  <2> QED
    BY <2>1, <2>2 DEF Grows
<1>2. \A i \in DOMAIN w : i \in Nat /\ i \in DOMAIN t /\ t[i] = w[i] /\ ~(Len(w) < i)
  BY DEF Grows
<1>3. \A j \in DOMAIN ev : /\ j \in Nat /\ Len(w) + j \in Nat /\ Len(w) + j \in DOMAIN t
                           /\ t[Len(w) + j] = ev[j] /\ Len(w) < Len(w) + j
  BY DEF Grows
<1>4. /\ \A i \in DOMAIN w, j \in DOMAIN ev : i < Len(w) + j
      /\ \A i, j \in DOMAIN ev : i < j <=> Len(w) + i < Len(w) + j
  BY DEF Grows
<1> QED
  BY <1>1, <1>2, <1>3, <1>4

\* Events of other disks, and changes, do not matter.
LEMMA FitsOther ==
    ASSUME NEW t, NEW w, NEW ev, Grows(t, w, ev), NEW p, NEW there, NEW start, NEW listed,
           NEW then, NEW left,
           \A j \in DOMAIN ev : \/ ev[j].action = "change" /\ (ev[j].path = p => p \in there)
                                \/ ev[j].path # p /\ ev[j].path # DiskOf(p),
           p \in there <=> p \in then, p \in start <=> p \in left,
           Agrees(w, p, there, start, listed)
    PROVE  Agrees(t, p, then, left, listed)
<1> DEFINE d == DiskOf(p)
<1>1. Adds(ev, p) = {} /\ Removes(ev, p) = {} /\ Adds(ev, d) = {} /\ Removes(ev, d) = {}
  BY DEF Adds, Removes, Event
<1>2. Adds(t, p) = Adds(w, p) /\ Removes(t, p) = Removes(w, p)
  BY <1>1, GrowNone
<1>3. Adds(t, d) = Adds(w, d) /\ Removes(t, d) = Removes(w, d)
  <2> HIDE DEF d
  <2> QED
    BY <1>1, GrowNone
<1>4. ASSUME p \notin there
      PROVE  GoesAway(t, p)
  <2> SUFFICES ASSUME NEW i \in DOMAIN t, t[i].path = p, t[i].action # "remove"
               PROVE  \E j \in Removes(t, p) : i < j
    BY DEF GoesAway
  <2>1. i \in DOMAIN w /\ t[i] = w[i]
    BY <1>4, GrowPlaces
  <2> QED
    BY <1>2, <1>4, <2>1 DEF Agrees, GoesAway
<1>5. /\ p \in there => ComesBack(t, p)
      /\ p \notin there => (p \in listed => Removes(t, p) # {})
      /\ OneByOne(t, p) /\ (p \in listed => NotTwice(t, p))
      /\ p \in there /\ p \notin start /\ Recognised(p) /\ p \notin listed => Adds(t, p) # {}
      /\ p \in there /\ IsPartition(p) /\ Recognised(p) => ParentFirst(t, p, listed)
  BY <1>2, <1>3 DEF Agrees, ComesBack, OneByOne, NotTwice, ParentFirst
<1> QED
  BY <1>4, <1>5 DEF Agrees

\* A device comes, with its disk.
LEMMA FitsPlug ==
    ASSUME NEW t, NEW w, NEW ev, Grows(t, w, ev), NEW p \in Paths,
           NEW there, NEW start, NEW listed, NEW then,
           \A j \in DOMAIN ev : ev[j].action = "add",
           1 \in DOMAIN ev, ev[1] = Event("add", DiskOf(p)),
           \E j \in DOMAIN ev : ev[j] = Event("add", p),
           \A i, j \in DOMAIN ev : ev[i] = ev[j] => i = j,
           p \notin there, p \in then, Agrees(w, p, there, start, listed)
    PROVE  Agrees(t, p, then, start, listed)
<1> DEFINE d == DiskOf(p)
           n == Len(w)
<1>1. Removes(ev, p) = {} /\ Removes(ev, d) = {}
  BY DEF Removes, Event
<1>2. PICK a \in DOMAIN ev : ev[a] = Event("add", p)
  OBVIOUS
<1>3. Adds(ev, p) = {a}
  BY <1>2 DEF Adds
<1>4. /\ \A i \in DOMAIN w : i \in Nat /\ i \in DOMAIN t /\ t[i] = w[i] /\ ~(n < i)
      /\ \A j \in DOMAIN ev : j \in Nat /\ n + j \in Nat /\ n + j \in DOMAIN t /\ t[n + j] = ev[j] /\ n < n + j
      /\ \A i \in DOMAIN w, j \in DOMAIN ev : i < n + j
      /\ \A i, j \in DOMAIN ev : i < j <=> n + i < n + j
  BY GrowPlaces
<1>5. /\ Removes(t, p) = Removes(w, p) /\ Adds(t, p) = Adds(w, p) \cup {n + a}
      /\ Adds(w, p) \cup Removes(w, p) \subseteq DOMAIN w
  <2>1. /\ Adds(w, p) \subseteq Adds(t, p) /\ Removes(w, p) \subseteq Removes(t, p)
        /\ \A i \in Adds(t, p) : i \in Adds(w, p) \/ \E j \in Adds(ev, p) : i = n + j
        /\ \A i \in Removes(t, p) : i \in Removes(w, p) \/ \E j \in Removes(ev, p) : i = n + j
        /\ \A j \in Adds(ev, p) : n + j \in Adds(t, p)
        /\ Adds(w, p) \cup Removes(w, p) \subseteq DOMAIN w
    BY GrowSets
  <2> HIDE DEF n
  <2> QED
    BY <1>1, <1>3, <2>1
<1>6. /\ Removes(t, d) = Removes(w, d) /\ n + 1 \in Adds(t, d) /\ Removes(w, d) \subseteq DOMAIN w
  <2> HIDE DEF d
  <2>1. /\ Removes(w, d) \subseteq Removes(t, d)
        /\ \A i \in Removes(t, d) : i \in Removes(w, d) \/ \E j \in Removes(ev, d) : i = n + j
        /\ \A j \in Adds(ev, d) : n + j \in Adds(t, d)
        /\ Removes(w, d) \subseteq DOMAIN w
    BY GrowSets
  <2>2. 1 \in Adds(ev, d)
    BY DEF Adds, d
  <2> QED
    BY <1>1, <2>1, <2>2
<1> HIDE DEF n
<1>7. GoesAway(w, p) /\ OneByOne(w, p) /\ (p \in listed => Removes(w, p) # {} /\ NotTwice(w, p))
  BY DEF Agrees
<1>8. \A i \in Adds(w, p) : \E j \in Removes(w, p) : i < j
  BY <1>7 DEF GoesAway, Adds, Event
<1>9. ComesBack(t, p)
  BY <1>2, <1>4, <1>5, <1>6 DEF ComesBack
<1>10. OneByOne(t, p)
  <2> SUFFICES ASSUME NEW i \in Adds(t, p), NEW j \in Adds(t, p), i < j
               PROVE  \E k \in Removes(t, p) : i < k /\ k < j
    BY DEF OneByOne
  <2>1. CASE j \in Adds(w, p) /\ i \in Adds(w, p)
    BY <1>5, <1>7, <2>1 DEF OneByOne
  <2>2. CASE j = n + a /\ i \in Adds(w, p)
    <3>1. PICK k \in Removes(w, p) : i < k
      BY <1>8, <2>2
    <3> QED
      BY <1>2, <1>4, <1>5, <2>2, <3>1
  <2>3. CASE i = n + a
    <3>1. n + a \in Nat /\ ~(n + a < n + a)
      BY <1>2, <1>4
    <3>2. j \in Adds(w, p) /\ j \in Nat /\ j < n + a
      BY <1>2, <1>4, <1>5, <2>3, <3>1
    <3> QED
      BY <2>3, <3>1, <3>2
  <2> QED
    BY <1>5, <2>1, <2>2, <2>3
<1>11. ASSUME p \in listed
       PROVE  NotTwice(t, p)
  <2> SUFFICES ASSUME NEW j \in Adds(t, p)
               PROVE  \E k \in Removes(t, p) : k < j
    BY DEF NotTwice
  <2>1. CASE j \in Adds(w, p)
    BY <1>5, <1>7, <1>11, <2>1 DEF NotTwice
  <2>2. CASE j = n + a
    <3>1. PICK k \in Removes(w, p) : TRUE
      BY <1>7, <1>11
    <3> QED
      BY <1>2, <1>4, <1>5, <2>2, <3>1
  <2> QED
    BY <1>5, <2>1, <2>2
<1>12. Adds(t, p) # {}
  BY <1>5
<1>13. ASSUME IsPartition(p), d # p
       PROVE  ParentFirst(t, p, listed)
  <2> SUFFICES ASSUME NEW j \in Adds(t, p), \A i \in Removes(t, p) : i < j
               PROVE  \E k \in Adds(t, d) : k < j /\ \A i \in Removes(t, d) : i < k
    BY DEF ParentFirst
  <2>1. j \notin Adds(w, p)
    <3> SUFFICES ASSUME j \in Adds(w, p)
                 PROVE  FALSE
      OBVIOUS
    <3>1. PICK k \in Removes(w, p) : j < k
      BY <1>8
    <3>2. k < j /\ k \in Nat /\ j \in Nat
      BY <1>4, <1>5, <3>1
    <3> QED
      BY <3>1, <3>2
  <2>2. j = n + a
    BY <1>5, <2>1
  <2>3. 1 < a
    <3>1. a # 1
      BY <1>2, <1>13 DEF Event
    <3>2. a \in Nat /\ a # 0
      BY <1>2 DEF Grows
    <3> QED
      BY <3>1, <3>2
  <2>4. n + 1 < j
    BY <1>2, <1>4, <2>2, <2>3
  <2>5. \A i \in Removes(t, d) : i < n + 1
    BY <1>4, <1>6
  <2> QED
    BY <1>6, <2>4, <2>5
<1>14. IsPartition(p) => d # p
  BY DiskFacts
<1> QED
  BY <1>7, <1>9, <1>10, <1>11, <1>12, <1>13, <1>14 DEF Agrees

\* A device goes.
LEMMA FitsUnplug ==
    ASSUME NEW t, NEW w, NEW ev, Grows(t, w, ev), NEW p, NEW there, NEW start, NEW listed,
           NEW then, NEW left, \A j \in DOMAIN ev : ev[j].action = "remove",
           \E j \in DOMAIN ev : ev[j] = Event("remove", p),
           p \in there, p \notin then, Agrees(w, p, there, start, listed)
    PROVE  Agrees(t, p, then, left, listed)
<1> DEFINE n == Len(w)
<1>1. Adds(ev, p) = {}
  BY DEF Adds, Event
<1>2. PICK a \in DOMAIN ev : ev[a] = Event("remove", p)
  OBVIOUS
<1>3. /\ Adds(t, p) = Adds(w, p) /\ Removes(w, p) \subseteq Removes(t, p) /\ n + a \in Removes(t, p)
  <2>1. a \in Removes(ev, p)
    BY <1>2 DEF Removes
  <2>2. n + a \in Removes(t, p)
    BY <2>1, GrowSets
  <2> QED
    BY <1>1, <2>2, GrowNone
<1>4. GoesAway(t, p)
  <2> SUFFICES ASSUME NEW i \in DOMAIN t, t[i].path = p, t[i].action # "remove"
               PROVE  \E j \in Removes(t, p) : i < j
    BY DEF GoesAway
  <2>1. i \in DOMAIN w /\ i < n + a
    BY <1>2, GrowPlaces
  <2> QED
    BY <1>3, <2>1
<1>5. OneByOne(t, p) /\ (p \in listed => NotTwice(t, p)) /\ Removes(t, p) # {}
  BY <1>3 DEF Agrees, OneByOne, NotTwice
<1> QED
  BY <1>4, <1>5 DEF Agrees

(***************************************************************************)
(* What is done with the list.                                             *)
(***************************************************************************)
LEMMA AddItemFacts ==
    ASSUME NEW m, GoodList(m), NEW item, item.path \in Paths, item.kind \in Kinds,
           item.content \in Contents
    PROVE  LET r == AddItem(m, item)
           IN  /\ GoodList(r)
               /\ ~Known(item) \/ ~HasParent(m, item.path) => r = m
               /\ \A k \in DOMAIN r :
                     \/ r[k].path = item.path /\ r[k].kind = item.kind /\ r[k].content = item.content /\ Known(item)
                     \/ \E j \in DOMAIN m : r[k] = m[j]
               /\ \A j \in DOMAIN m : \E k \in DOMAIN r : r[k] = m[j]
               /\ Known(item) /\ HasParent(m, item.path) => \E k \in DOMAIN r : r[k].path = item.path
               /\ \A q : Once(m, q) /\ (q = item.path => \A j \in DOMAIN m : m[j].path # q) => Once(r, q)
<1> DEFINE r == AddItem(m, item)
           new == Node(item.path, item.kind, item.content)
<1>1. CASE ~Known(item) \/ ~HasParent(m, item.path)
  <2>1. r = m
    BY <1>1 DEF AddItem, Known
  <2> QED
    BY <1>1, <2>1
<1>2. CASE Known(item) /\ HasParent(m, item.path)
  <2>1. r = add_media(m, item.path, item.kind, item.content)
    BY <1>2 DEF AddItem, Known
  <2>2. Sequence(m) /\ Tree(m) /\ Ordered(m) /\ \A i \in DOMAIN m : m[i].path \in Paths
    BY DEF GoodList
  <2> HIDE DEF r
  <2>3. /\ Sequence(r)
        /\ \A k \in DOMAIN r : r[k] = new \/ \E j \in DOMAIN m : r[k] = m[j]
        /\ \A j \in DOMAIN m : \E k \in DOMAIN r : r[k] = m[j]
        /\ \E k \in DOMAIN r : r[k] = new
        /\ Tree(r) /\ Ordered(r)
        /\ \A q : Once(m, q) /\ (q = item.path => find_media(m, item.path) = 0) => Once(r, q)
    BY <1>2, <2>1, <2>2, AddFacts
  <2>4. /\ IsNode(new) /\ Counted(new)
        /\ new.path = item.path /\ new.kind = item.kind /\ new.content = item.content
    BY DEF Node, IsNode, Counted
  <2> HIDE DEF new
  <2>5. GoodList(r)
    BY <2>3, <2>4 DEF GoodList
  <2>6. ASSUME NEW q, Once(m, q), q = item.path => \A j \in DOMAIN m : m[j].path # q
        PROVE  Once(r, q)
    <3>1. q = item.path => find_media(m, item.path) = 0
      BY <2>2, <2>6, FindFacts
    <3> QED
      BY <2>3, <2>6, <3>1
  <2>7. /\ \A k \in DOMAIN r :
              \/ r[k].path = item.path /\ r[k].kind = item.kind /\ r[k].content = item.content
              \/ \E j \in DOMAIN m : r[k] = m[j]
        /\ \E k \in DOMAIN r : r[k].path = item.path
    BY <2>3, <2>4
  <2> QED
    BY <1>2, <2>3, <2>5, <2>6, <2>7 DEF r
<1> QED
  BY <1>1, <1>2

LEMMA RemoveItemFacts ==
    ASSUME NEW m, GoodList(m), NEW p \in Paths
    PROVE  LET r == IF find_media(m, p) = 0 THEN m ELSE remove_media(m, p)
           IN  /\ GoodList(r)
               /\ \A k \in DOMAIN r : \E j \in DOMAIN m : r[k] = m[j]
               /\ \A j \in DOMAIN m : m[j].path # p /\ DiskOf(m[j].path) # p => \E k \in DOMAIN r : r[k] = m[j]
               /\ \A q : Once(m, q) => Once(r, q)
               /\ Once(m, p) => \A k \in DOMAIN r : r[k].path # p
<1> DEFINE r == IF find_media(m, p) = 0 THEN m ELSE remove_media(m, p)
<1>0. Sequence(m) /\ Tree(m) /\ Ordered(m) /\ \A i \in DOMAIN m : m[i].path \in Paths
  BY DEF GoodList
<1>1. CASE find_media(m, p) = 0
  <2>1. r = m /\ \A k \in DOMAIN m : m[k].path # p
    BY <1>0, <1>1, FindFacts
  <2> QED
    BY <2>1
<1>2. CASE find_media(m, p) # 0
  <2>1. r = remove_media(m, p)
    BY <1>2
  <2> HIDE DEF r
  <2>2. /\ Sequence(r)
        /\ \A k \in DOMAIN r : \E j \in DOMAIN m : r[k] = m[j]
        /\ \A j \in DOMAIN m : m[j].path # p /\ ParentOf[m[j].path] # p => \E k \in DOMAIN r : r[k] = m[j]
        /\ Tree(r) /\ Ordered(r)
        /\ \A q : Once(m, q) => Once(r, q)
        /\ Once(m, p) => \A k \in DOMAIN r : r[k].path # p
    BY <1>0, <1>2, <2>1, RemoveFacts
  <2>3. GoodList(r)
    BY <2>2 DEF GoodList
  <2>4. \A j \in DOMAIN m : m[j].path # p /\ DiskOf(m[j].path) # p => ParentOf[m[j].path] # p
    BY PathAssumption DEF DiskOf, IsPartition
  <2> QED
    BY <2>2, <2>3, <2>4 DEF r
<1> QED
  BY <1>1, <1>2

LEMMA ChangeItemFacts ==
    ASSUME NEW m, GoodList(m), NEW p, NEW kind, NEW content \in Contents
    PROVE  LET r == change_media(m, p, kind, content)
           IN  /\ GoodList(r) /\ DOMAIN r = DOMAIN m
               /\ \A i \in DOMAIN m :
                     /\ r[i].path = m[i].path /\ r[i].kind = m[i].kind
                     /\ r[i].content = IF i = find_media(m, p) THEN content ELSE m[i].content
               /\ \A q : Once(m, q) => Once(r, q)
<1> DEFINE r == change_media(m, p, kind, content)
<1>1. /\ Sequence(r) /\ DOMAIN r = DOMAIN m
      /\ \A i \in DOMAIN m :
            /\ IsNode(r[i]) /\ Counted(r[i])
            /\ r[i].path = m[i].path /\ r[i].kind = m[i].kind
            /\ r[i].content = IF i = find_media(m, p) THEN content ELSE m[i].content
  BY ChangeFacts DEF GoodList
<1> HIDE DEF r
<1>2. Tree(r) /\ Ordered(r)
  BY <1>1, SamePaths DEF GoodList
<1>3. GoodList(r)
  BY <1>1, <1>2 DEF GoodList
<1>4. \A q : Once(m, q) => Once(r, q)
  BY <1>1 DEF Once
<1> QED
  BY <1>1, <1>3, <1>4 DEF r

(***************************************************************************)
(* Types.                                                                  *)
(***************************************************************************)
LEMMA KindFacts ==
    ASSUME NEW p \in Paths
    PROVE  /\ DiskOf(p) \in Disks /\ Kind(p) \in Kinds /\ UnknownKind \in Kinds /\ NoContent \in Contents
           /\ Kind(p).subtype = Subtype[DiskOf(p)]
           /\ Recognised(p) => Kind(p).type # "unknown" /\ Kind(p).subtype # "unknown"
           /\ ~Recognised(p) => Kind(p).subtype = "unknown"
<1>1. DiskOf(p) \in Disks
  BY DiskFacts DEF Disks
<1>2. Subtype[DiskOf(p)] \in {"removable_disk", "sd_card", "cdrom", "unknown"}
  BY <1>1, SysfsAssumption
<1>3. /\ MediaType(p) \in {"partition", "stateless", "stateful", "unknown"}
      /\ Subtype[DiskOf(p)] # "unknown" => MediaType(p) # "unknown"
  BY <1>2 DEF MediaType, device_subtype_from_string
<1> QED
  BY <1>1, <1>2, <1>3 DEF Kind, Kinds, UnknownKind, NoContent, Contents, Recognised, device_subtype_from_string

LEMMA InfoFacts ==
    ASSUME TypeOK, NEW p \in Paths, NEW s \in Ports \cup {NULL}
    PROVE  /\ Info(p, Kind(p), s) \in Devices
           /\ Info(p, Kind(p), s).path = p /\ Info(p, Kind(p), s).kind = Kind(p)
           /\ Info(p, Kind(p), s).content.sysfs = s
           /\ Info(p, Kind(p), s).content.state = BlkidState(p)
           /\ Info(p, Kind(p), s).content.fstype = BlkidType(p)
<1>1. BlkidState(p) \in {"unknown", "empty", "clear", "ok"}
  BY DEF BlkidState
<1>2. medium[p] \in {"none", "clear", "ext4"}
  BY DEF TypeOK
<1>3. BlkidType(p) \in {NULL, "ext4"}
  BY <1>2 DEF BlkidType
<1>4. Kind(p) \in Kinds
  BY KindFacts
<1> QED
  BY <1>1, <1>3, <1>4 DEF Info, Devices, Contents

LEMMA PartsFacts ==
    ASSUME NEW d, NEW parts \in InOrder(Partitions(d))
    PROVE  /\ parts \in Seq(Paths) /\ Len(parts) \in Nat /\ DOMAIN parts = 1..Len(parts)
           /\ \A i \in DOMAIN parts : parts[i] \in Partitions(d) /\ parts[i] \in Paths
           /\ \A p \in Partitions(d) : \E i \in DOMAIN parts : parts[i] = p
           /\ \A i, j \in DOMAIN parts : parts[i] = parts[j] => i = j
<1> DEFINE S == Partitions(d)
           n == Cardinality(S)
<1>1. IsFiniteSet(S) /\ S \subseteq Paths
  <2>1. S \subseteq Paths
    BY DEF Partitions
  <2> HIDE DEF S
  <2> QED
    BY <2>1, PathAssumption, FS_Subset
<1>2. parts \in [1..n -> S] /\ \A i, j \in 1..n : i < j => Rank[parts[i]] < Rank[parts[j]]
  BY DEF InOrder, Sortings
<1> HIDE DEF S
<1>3. n \in Nat
  BY <1>1, FS_CardinalityType
<1>4. \A i, j \in 1..n : i < j => parts[i] # parts[j]
  <2> SUFFICES ASSUME NEW i \in 1..n, NEW j \in 1..n, i < j, parts[i] = parts[j]
               PROVE  FALSE
    OBVIOUS
  <2>1. Rank[parts[i]] \in Nat /\ Rank[parts[i]] < Rank[parts[i]]
    BY <1>1, <1>2, PathAssumption
  <2> QED
    BY <2>1
<1>5. /\ parts \in Seq(S) /\ DOMAIN parts = 1..n
      /\ \A x \in S : \E i \in DOMAIN parts : parts[i] = x
  BY <1>1, <1>2, <1>4, OntoFacts
<1> HIDE DEF n
<1>6. parts \in Seq(Paths) /\ Len(parts) = n
  <2>1. parts \in [1..n -> Paths]
    BY <1>1, <1>2
  <2> QED
    BY <1>3, <2>1, FunctionIsSeq
<1>7. \A i, j \in 1..n : parts[i] = parts[j] => i = j
  BY <1>3, <1>4
<1> QED
  BY <1>1, <1>2, <1>3, <1>5, <1>6, <1>7 DEF S

\* The events of a disk that comes, and of one that goes.
Arrival(d, parts)   == <<Event("add", d)>> \o [i \in DOMAIN parts |-> Event("add", parts[i])]
Departure(d, parts) == Append([i \in DOMAIN parts |-> Event("remove", parts[i])], Event("remove", d))

LEMMA PlugEvents ==
    ASSUME NEW d \in Disks, NEW parts \in InOrder(Partitions(d))
    PROVE  LET ev == Arrival(d, parts)
           IN  /\ ev \in Seq(Events) /\ 1 \in DOMAIN ev /\ ev[1] = Event("add", d)
               /\ \A j \in DOMAIN ev : ev[j].action = "add" /\ ev[j].path \in {d} \cup Partitions(d)
               /\ \A p \in {d} \cup Partitions(d) : \E j \in DOMAIN ev : ev[j] = Event("add", p)
               /\ \A i, j \in DOMAIN ev : ev[i] = ev[j] => i = j
<1> DEFINE s == <<Event("add", d)>>
           t == [i \in DOMAIN parts |-> Event("add", parts[i])]
           ev == s \o t
           n == Len(parts)
<1>1. /\ n \in Nat /\ DOMAIN parts = 1..n
      /\ \A i \in DOMAIN parts : parts[i] \in Partitions(d) /\ parts[i] \in Paths
      /\ \A p \in Partitions(d) : \E i \in DOMAIN parts : parts[i] = p
      /\ \A i, j \in DOMAIN parts : parts[i] = parts[j] => i = j
  BY PartsFacts
<1>2. d \in Paths /\ d \notin Partitions(d)
  BY PathAssumption DEF Disks, IsPartition, Partitions
<1>3. \A p \in Paths : Event("add", p) \in Events
  BY DEF Event, Events, Actions
<1>4. s \in Seq(Events) /\ Len(s) = 1 /\ s[1] = Event("add", d)
  BY <1>2, <1>3
<1>5. t \in Seq(Events) /\ Len(t) = n /\ DOMAIN t = 1..n /\ \A i \in 1..n : t[i] = Event("add", parts[i])
  <2>1. t \in [1..n -> Events]
    BY <1>1, <1>3
  <2> HIDE DEF n
  <2> QED
    BY <1>1, <2>1, FunctionIsSeq
<1> HIDE DEF s, t, n
<1>6. ev \in Seq(Events) /\ Grows(ev, s, t)
  BY <1>4, <1>5, ConcatGrows
<1> HIDE DEF ev
<1>7. DOMAIN ev = 1..(1 + n) /\ ev[1] = Event("add", d) /\ \A i \in 1..n : ev[1 + i] = Event("add", parts[i])
  BY <1>4, <1>5, <1>6 DEF Grows
<1>8. \A j \in DOMAIN ev : j = 1 \/ (j - 1 \in 1..n /\ j = 1 + (j - 1))
  BY <1>1, <1>7
<1>9. \A x, y : Event("add", x).action = "add" /\ Event("add", x).path = x /\ (Event("add", x) = Event("add", y) => x = y)
  BY DEF Event
<1>10. \A j \in DOMAIN ev : j # 1 => /\ j - 1 \in 1..n /\ j = 1 + (j - 1) /\ ev[j] = Event("add", parts[j - 1])
                                    /\ parts[j - 1] \in Partitions(d)
  BY <1>1, <1>7, <1>8
<1>11. \A j \in DOMAIN ev : ev[j].action = "add" /\ ev[j].path \in {d} \cup Partitions(d)
  BY <1>7, <1>9, <1>10
<1>12. \A p \in {d} \cup Partitions(d) : \E j \in DOMAIN ev : ev[j] = Event("add", p)
  <2> TAKE p \in {d} \cup Partitions(d)
  <2>1. CASE p = d
    BY <1>1, <1>7, <2>1
  <2>2. CASE p \in Partitions(d)
    <3>1. PICK i \in 1..n : parts[i] = p
      BY <1>1, <2>2
    <3>2. 1 + i \in DOMAIN ev
      BY <1>1, <1>7
    <3> QED
      BY <1>7, <3>1, <3>2
  <2> QED
    BY <2>1, <2>2
<1>13. ASSUME NEW i \in DOMAIN ev, NEW j \in DOMAIN ev, ev[i] = ev[j]
       PROVE  i = j
  <2>1. CASE i = 1
    BY <1>2, <1>7, <1>9, <1>10, <1>13, <2>1
  <2>2. CASE j = 1
    BY <1>2, <1>7, <1>9, <1>10, <1>13, <2>2
  <2>3. CASE i # 1 /\ j # 1
    <3>1. parts[i - 1] = parts[j - 1] /\ i - 1 \in 1..n /\ j - 1 \in 1..n /\ i = 1 + (i - 1) /\ j = 1 + (j - 1)
      BY <1>9, <1>10, <1>13, <2>3
    <3>2. i - 1 = j - 1
      BY <1>1, <3>1
    <3> QED
      BY <3>1, <3>2
  <2> QED
    BY <2>1, <2>2, <2>3
<1>14. 1 \in DOMAIN ev
  BY <1>1, <1>7
<1> QED
  BY <1>6, <1>7, <1>11, <1>12, <1>13, <1>14 DEF ev, s, t, Arrival

LEMMA UnplugEvents ==
    ASSUME NEW d \in Disks, NEW parts \in InOrder(Partitions(d))
    PROVE  LET ev == Departure(d, parts)
           IN  /\ ev \in Seq(Events)
               /\ \A j \in DOMAIN ev : ev[j].action = "remove" /\ ev[j].path \in {d} \cup Partitions(d)
               /\ \A p \in {d} \cup Partitions(d) : \E j \in DOMAIN ev : ev[j] = Event("remove", p)
<1> DEFINE t == [i \in DOMAIN parts |-> Event("remove", parts[i])]
           ev == Append(t, Event("remove", d))
           n == Len(parts)
<1>1. /\ n \in Nat /\ DOMAIN parts = 1..n
      /\ \A i \in DOMAIN parts : parts[i] \in Partitions(d) /\ parts[i] \in Paths
      /\ \A p \in Partitions(d) : \E i \in DOMAIN parts : parts[i] = p
  BY PartsFacts
<1>2. d \in Paths
  BY DEF Disks
<1>3. \A p \in Paths : Event("remove", p) \in Events
  BY DEF Event, Events, Actions
<1>4. t \in Seq(Events) /\ Len(t) = n /\ DOMAIN t = 1..n /\ \A i \in 1..n : t[i] = Event("remove", parts[i])
  <2>1. t \in [1..n -> Events]
    BY <1>1, <1>3
  <2> HIDE DEF n
  <2> QED
    BY <1>1, <2>1, FunctionIsSeq
<1> HIDE DEF t, n
<1>5. /\ ev \in Seq(Events) /\ DOMAIN ev = 1..(n + 1) /\ ev[n + 1] = Event("remove", d)
      /\ \A i \in 1..n : ev[i] = Event("remove", parts[i])
  BY <1>1, <1>2, <1>3, <1>4, AppendProperties
<1> HIDE DEF ev
<1>6. \A j \in DOMAIN ev : j \in 1..n \/ j = n + 1
  BY <1>1, <1>5
<1>7. \A x : Event("remove", x).action = "remove" /\ Event("remove", x).path = x
  BY DEF Event
<1>8. \A j \in DOMAIN ev : ev[j].action = "remove" /\ ev[j].path \in {d} \cup Partitions(d)
  BY <1>1, <1>5, <1>6, <1>7
<1>9. \A i \in 1..(n + 1) : i \in DOMAIN ev
  BY <1>5
<1>10. n + 1 \in 1..(n + 1) /\ \A i \in 1..n : i \in 1..(n + 1)
  BY <1>1
<1>11. \A p \in {d} \cup Partitions(d) : \E j \in DOMAIN ev : ev[j] = Event("remove", p)
  BY <1>1, <1>5, <1>9, <1>10
<1> QED
  BY <1>5, <1>8, <1>11 DEF ev, t, Departure

LEMMA TypeInit ==
    Init => TypeInv
<1> SUFFICES ASSUME Init
             PROVE  TypeInv
  OBVIOUS
<1>1. attached \subseteq Paths /\ fromStart \subseteq attached /\ raced \subseteq Disks
  BY DEF Init, Partitions, Disks
<1>2. /\ medium \in [Paths -> {"none", "clear", "ext4"}] /\ port \in [Disks -> Ports \cup {NULL}]
      /\ changes \in 0..MaxChanges
  BY SysfsAssumption DEF Init
<1>3. /\ unread \in Seq(Events) /\ reading \in Readings \cup {NULL} /\ queue \in Seq(Items)
      /\ pc \in {"scan", "list", "loop", "failed"} /\ enumeration \in Seq(Devices)
  BY DEF Init
<1>4. /\ scan \in [directory : 1..4, seen : SUBSET Disks,
                   at : [disk : Disks \cup {NULL}, step : {"look", "read", "probe", "parts"}, parts : Seq(Paths)]]
      /\ scan.at.step = "look"
  <2>1. NoDisk \in [disk : Disks \cup {NULL}, step : {"look", "read", "probe", "parts"}, parts : Seq(Paths)]
        /\ NoDisk.step = "look"
    BY DEF NoDisk
  <2>2. scan = [directory |-> 1, seen |-> {}, at |-> NoDisk]
    BY DEF Init
  <2>3. 1 \in 1..4 /\ {} \in SUBSET Disks
    OBVIOUS
  <2> QED
    BY <2>1, <2>2, <2>3
<1>5. media = <<>> /\ Sequence(media) /\ DOMAIN media = {}
  <2>1. media = <<>> /\ media \in Seq({}) /\ DOMAIN media = {}
    BY DEF Init
  <2>2. Sequence(media)
    BY <2>1, SequenceOf, Zenon
  <2> QED
    BY <2>1, <2>2
<1>6. GoodList(media)
  BY <1>5 DEF GoodList, Tree, Ordered
<1>7. pc = "scan" <=> scan.directory < 4
  BY DEF Init
<1> QED
  BY <1>1, <1>2, <1>3, <1>4, <1>5, <1>6, <1>7 DEF TypeInv, TypeOK

\* The list of TypeOK is one of well formed nodes.
LEMMA GoodListTypes ==
    ASSUME NEW m, GoodList(m)
    PROVE  \A i \in DOMAIN m : [path |-> m[i].path, kind |-> m[i].kind, content |-> m[i].content] \in Devices
  BY DEF GoodList, Devices

\* What the world does.
LEMMA WorldTypes ==
    ASSUME TypeInv, NEW d \in Disks, Plug(d) \/ Unplug(d)
    PROVE  TypeInv'
<1>1. ASSUME NEW ev \in Seq(Events), Change(ev, d)
      PROVE  /\ changes' \in 0..MaxChanges /\ unread' \in Seq(Events) /\ raced' \subseteq Disks
             /\ UNCHANGED <<reading, queue, pc, scan, enumeration, media>>
  <2>1. changes' \in 0..MaxChanges
    BY <1>1, SysfsAssumption DEF TypeInv, TypeOK, Change
  <2>2. unread' \in Seq(Events) /\ raced' \subseteq Disks
    BY <1>1 DEF TypeInv, TypeOK, Change
  <2> QED
    BY <1>1, <2>1, <2>2 DEF Change
<1>2. {d} \cup Partitions(d) \subseteq Paths
  BY DEF Partitions, Disks
<1>3. /\ changes' \in 0..MaxChanges /\ unread' \in Seq(Events) /\ raced' \subseteq Disks
      /\ UNCHANGED <<reading, queue, pc, scan, enumeration, media>>
  <2>1. CASE Plug(d)
    <3>1. PICK parts \in InOrder(Partitions(d)) : Change(Arrival(d, parts), d)
      BY <2>1 DEF Plug, Arrival
    <3>2. Arrival(d, parts) \in Seq(Events)
      BY PlugEvents
    <3> QED
      BY <1>1, <3>1, <3>2
  <2>2. CASE Unplug(d)
    <3>1. PICK parts \in InOrder(Partitions(d)) : Change(Departure(d, parts), d)
      BY <2>2 DEF Unplug, Departure
    <3>2. Departure(d, parts) \in Seq(Events)
      BY UnplugEvents
    <3> QED
      BY <1>1, <3>1, <3>2
  <2> QED
    BY <2>1, <2>2
<1>4. medium' \in [Paths -> {"none", "clear", "ext4"}] /\ port' \in [Disks -> Ports \cup {NULL}]
  <2>0. medium \in [Paths -> {"none", "clear", "ext4"}] /\ port \in [Disks -> Ports \cup {NULL}]
    BY DEF TypeInv, TypeOK
  <2>1. CASE Plug(d)
    <3>1. PICK q \in Ports : port' = [port EXCEPT ![d] = IF Bus[d] = "usb" THEN q ELSE NULL]
      BY <2>1 DEF Plug
    <3> QED
      BY <2>0, <2>1, <3>1 DEF Plug
  <2>2. CASE Unplug(d)
    BY <2>0, <2>2 DEF Unplug
  <2> QED
    BY <2>1, <2>2
<1>5. attached' \subseteq Paths /\ fromStart' \subseteq attached'
  <2>1. CASE Plug(d)
    BY <1>2, <2>1 DEF TypeInv, TypeOK, Plug
  <2>2. CASE Unplug(d)
    BY <1>2, <2>2 DEF TypeInv, TypeOK, Unplug
  <2> QED
    BY <2>1, <2>2
<1> QED
  BY <1>3, <1>4, <1>5 DEF TypeInv, TypeOK

LEMMA AlterTypes ==
    ASSUME TypeInv, NEW p \in Paths, Alter(p)
    PROVE  TypeInv'
<1>1. medium' \in [Paths -> {"none", "clear", "ext4"}]
  <2>1. PICK m \in Media(p) : medium' = [medium EXCEPT ![p] = m]
    BY DEF Alter
  <2>2. m \in {"none", "clear", "ext4"}
    BY <2>1 DEF Media
  <2> QED
    BY <2>1, <2>2 DEF TypeInv, TypeOK
<1>2. changes' \in 0..MaxChanges
  BY SysfsAssumption DEF TypeInv, TypeOK, Alter
<1>3. unread' \in Seq(Events)
  <2>1. Event("change", p) \in Events
    BY DEF Event, Events, Actions
  <2> QED
    BY <2>1 DEF TypeInv, TypeOK, Alter
<1>4. UNCHANGED <<attached, port, fromStart, raced, reading, queue, pc, scan, enumeration, media>>
  BY DEF Alter
<1> QED
  BY <1>1, <1>2, <1>3, <1>4 DEF TypeInv, TypeOK

\* What a step of the enumeration does to scan.
LEMMA ScanTypes ==
    ASSUME TypeInv
    PROVE  /\ \A d \in Disks : Seen(d) =>
                 /\ scan' \in [directory : 1..4, seen : SUBSET Disks,
                               at : [disk : Disks \cup {NULL}, step : {"look", "read", "probe", "parts"},
                                     parts : Seq(Paths)]]
                 /\ scan'.directory = scan.directory /\ scan'.seen = scan.seen \cup {d}
                 /\ scan'.at.step = "look" /\ scan'.at.disk = NULL
           /\ scan = [directory |-> scan.directory, seen |-> scan.seen, at |-> scan.at]
           /\ scan.at = [disk |-> scan.at.disk, step |-> scan.at.step, parts |-> scan.at.parts]
           /\ scan.directory \in 1..4 /\ scan.seen \subseteq Disks /\ scan.at.disk \in Disks \cup {NULL}
           /\ scan.at.step \in {"look", "read", "probe", "parts"} /\ scan.at.parts \in Seq(Paths)
<1>1. scan \in [directory : 1..4, seen : SUBSET Disks,
                at : [disk : Disks \cup {NULL}, step : {"look", "read", "probe", "parts"}, parts : Seq(Paths)]]
  BY DEF TypeInv, TypeOK
<1>2. /\ scan = [directory |-> scan.directory, seen |-> scan.seen, at |-> scan.at]
      /\ scan.directory \in 1..4 /\ scan.seen \subseteq Disks
      /\ scan.at \in [disk : Disks \cup {NULL}, step : {"look", "read", "probe", "parts"}, parts : Seq(Paths)]
  BY <1>1
<1>3. ASSUME NEW d \in Disks, Seen(d)
      PROVE  /\ scan' = [directory |-> scan.directory, seen |-> scan.seen \cup {d}, at |-> NoDisk]
             /\ NoDisk \in [disk : Disks \cup {NULL}, step : {"look", "read", "probe", "parts"}, parts : Seq(Paths)]
             /\ NoDisk.step = "look" /\ NoDisk.disk = NULL
  <2>1. scan' = [directory |-> scan.directory, seen |-> scan.seen \cup {d}, at |-> NoDisk]
    BY <1>2, <1>3 DEF Seen
  <2> QED
    BY <2>1 DEF NoDisk
<1>4. ASSUME NEW d \in Disks, Seen(d)
      PROVE  /\ scan' \in [directory : 1..4, seen : SUBSET Disks,
                           at : [disk : Disks \cup {NULL}, step : {"look", "read", "probe", "parts"},
                                 parts : Seq(Paths)]]
             /\ scan'.directory = scan.directory /\ scan'.seen = scan.seen \cup {d}
             /\ scan'.at.step = "look" /\ scan'.at.disk = NULL
  BY <1>2, <1>3, <1>4
<1>5. /\ scan.at = [disk |-> scan.at.disk, step |-> scan.at.step, parts |-> scan.at.parts]
      /\ scan.at.disk \in Disks \cup {NULL}
      /\ scan.at.step \in {"look", "read", "probe", "parts"} /\ scan.at.parts \in Seq(Paths)
  BY <1>2
<1> QED
  BY <1>2, <1>4, <1>5

\* What enumeration_add_device does.
LEMMA EnumAdds ==
    ASSUME TypeOK, NEW info \in Devices, enumeration_add_device(info)
    PROVE  /\ enumeration' \in Seq(Devices) /\ Len(enumeration) \in Nat
           /\ DOMAIN enumeration = 1..Len(enumeration)
           /\ \/ InEnum(info.path) /\ enumeration' = enumeration
              \/ /\ ~InEnum(info.path) /\ enumeration' # enumeration
                 /\ DOMAIN enumeration' = 1..(Len(enumeration) + 1)
                 /\ enumeration'[Len(enumeration) + 1] = info
                 /\ \A i \in DOMAIN enumeration : enumeration'[i] = enumeration[i] /\ i # Len(enumeration) + 1
<1> DEFINE n == Len(enumeration)
<1>1. enumeration \in Seq(Devices) /\ n \in Nat /\ DOMAIN enumeration = 1..n
  BY DEF TypeOK
<1>2. CASE InEnum(info.path)
  <2>1. enumeration' = enumeration
    BY <1>2 DEF InEnum, Has, enumeration_add_device
  <2> QED
    BY <1>1, <1>2, <2>1
<1>3. CASE ~InEnum(info.path)
  <2>1. enumeration' = Append(enumeration, info)
    BY <1>3 DEF InEnum, Has, enumeration_add_device
  <2>2. /\ enumeration' \in Seq(Devices) /\ Len(enumeration') = n + 1 /\ enumeration'[n + 1] = info
        /\ \A i \in 1..n : enumeration'[i] = enumeration[i]
    BY <1>1, <2>1, AppendProperties
  <2>3. DOMAIN enumeration' = 1..(n + 1)
    <3> HIDE DEF n
    <3> QED
      BY <2>2
  <2>6. n + 1 # n
    <3> HIDE DEF n
    <3> QED
      BY <1>1
  <2>4. enumeration' # enumeration
    BY <1>1, <2>2, <2>3, <2>6
  <2>5. \A i \in DOMAIN enumeration : i \in 1..n /\ i # n + 1
    BY <1>1
  <2> QED
    BY <1>1, <1>3, <2>2, <2>3, <2>4, <2>5
<1> QED
  BY <1>2, <1>3

ScanType == [directory : 1..4, seen : SUBSET Disks,
             at : [disk : Disks \cup {NULL}, step : {"look", "read", "probe", "parts"}, parts : Seq(Paths)]]

\* What each step of the enumeration does.
LEMMA LookCases ==
    ASSUME TypeInv, NEW d \in Disks, LookAt(d)
    PROVE  /\ scan' \in ScanType /\ scan'.directory = scan.directory
           /\ \/ /\ Wanted(d) /\ scan'.seen = scan.seen
                 /\ scan'.at.disk = d /\ scan'.at.step = "read" /\ scan'.at.parts = <<>>
              \/ ~Wanted(d) /\ scan'.seen = scan.seen \cup {d} /\ scan'.at.step = "look" /\ scan'.at.disk = NULL
<1>1. CASE Wanted(d)
  <2>1. scan' = [scan EXCEPT !.at = [disk |-> d, step |-> "read", parts |-> <<>>]]
    BY <1>1 DEF LookAt
  <2>2. scan' = [directory |-> scan.directory, seen |-> scan.seen,
                 at |-> [disk |-> d, step |-> "read", parts |-> <<>>]]
    BY <2>1, ScanTypes
  <2>3. [disk |-> d, step |-> "read", parts |-> <<>>] \in
            [disk : Disks \cup {NULL}, step : {"look", "read", "probe", "parts"}, parts : Seq(Paths)]
    OBVIOUS
  <2>4. scan.directory \in 1..4 /\ scan.seen \subseteq Disks
    BY ScanTypes
  <2> QED
    BY <1>1, <2>2, <2>3, <2>4 DEF ScanType
<1>2. CASE ~Wanted(d)
  <2>1. Seen(d)
    BY <1>2 DEF LookAt
  <2> QED
    BY <1>2, <2>1, ScanTypes DEF ScanType
<1> QED
  BY <1>1, <1>2

LEMMA ReadDeviceCases ==
    ASSUME TypeInv, ReadDevice
    PROVE  LET d == scan.at.disk
               s == IF MediaType(d) = "stateless" THEN port[d] ELSE NULL
           IN  /\ d \in Disks /\ s \in Ports \cup {NULL}
               /\ enumeration_add_device(Info(d, Kind(d), s)) /\ Info(d, Kind(d), s) \in Devices
               /\ scan' \in ScanType /\ scan'.directory = scan.directory
               /\ \/ /\ MediaType(d) = "stateful" \/ enumeration' = enumeration
                     /\ scan'.seen = scan.seen \cup {d} /\ scan'.at.step = "look" /\ scan'.at.disk = NULL
                  \/ /\ enumeration' # enumeration /\ MediaType(d) # "stateful"
                     /\ scan'.seen = scan.seen /\ scan'.at.disk = d /\ scan'.at.step = "probe"
<1> DEFINE d == scan.at.disk
           s == IF MediaType(d) = "stateless" THEN port[d] ELSE NULL
<1>1. d \in Disks /\ d \in Paths
  BY DEF ReadDevice, Scanning, TypeInv, Disks
<1>2. s \in Ports \cup {NULL}
  BY <1>1 DEF TypeInv, TypeOK
<1>3. Info(d, Kind(d), s) \in Devices
  <2> HIDE DEF d, s
  <2> QED
    BY <1>1, <1>2, InfoFacts DEF TypeInv
<1>4. /\ enumeration_add_device(Info(d, Kind(d), s))
      /\ IF MediaType(d) = "stateful" \/ enumeration' = enumeration
         THEN Seen(d) ELSE scan' = [scan EXCEPT !.at.step = "probe"]
  BY DEF ReadDevice, get_usb_parent_syspath
<1>5. CASE MediaType(d) = "stateful" \/ enumeration' = enumeration
  <2>1. Seen(d)
    BY <1>4, <1>5
  <2>2. scan' \in ScanType /\ scan'.directory = scan.directory /\ scan'.seen = scan.seen \cup {d}
        /\ scan'.at.step = "look" /\ scan'.at.disk = NULL
    BY <1>1, <2>1, ScanTypes DEF ScanType
  <2> QED
    BY <1>1, <1>2, <1>3, <1>4, <1>5, <2>2
<1>6. CASE ~(MediaType(d) = "stateful" \/ enumeration' = enumeration)
  <2>1. scan' = [scan EXCEPT !.at.step = "probe"]
    BY <1>4, <1>6
  <2>2. scan' = [directory |-> scan.directory, seen |-> scan.seen,
                 at |-> [disk |-> d, step |-> "probe", parts |-> scan.at.parts]]
    BY <2>1, ScanTypes
  <2>3. [disk |-> d, step |-> "probe", parts |-> scan.at.parts] \in
            [disk : Disks \cup {NULL}, step : {"look", "read", "probe", "parts"}, parts : Seq(Paths)]
    BY <1>1, ScanTypes
  <2>4. scan.directory \in 1..4 /\ scan.seen \subseteq Disks
    BY ScanTypes
  <2>5. scan' \in ScanType /\ scan'.directory = scan.directory /\ scan'.seen = scan.seen
        /\ scan'.at.step = "probe" /\ scan'.at.disk = d
    BY <2>2, <2>3, <2>4 DEF ScanType
  <2> QED
    BY <1>1, <1>2, <1>3, <1>4, <1>6, <2>5
<1> QED
  BY <1>5, <1>6

LEMMA ProbeCases ==
    ASSUME TypeInv, Probe
    PROVE  LET d == scan.at.disk
           IN  /\ d \in Disks /\ scan' \in ScanType /\ scan'.directory = scan.directory
               /\ scan'.seen = scan.seen /\ scan'.at.disk = d /\ scan'.at.step = "parts"
               /\ \A i \in DOMAIN scan'.at.parts : scan'.at.parts[i] \in Partitions(d)
               /\ d \in attached => \A p \in Partitions(d) : \E i \in DOMAIN scan'.at.parts : scan'.at.parts[i] = p
<1> DEFINE d == scan.at.disk
<1>1. d \in Disks
  BY DEF Probe, Scanning, TypeInv
<1>2. PICK parts \in IF d \in attached THEN InOrder(Partitions(d)) ELSE {<<>>} :
          scan' = [scan EXCEPT !.at.step = "parts", !.at.parts = parts]
  BY DEF Probe
<1> HIDE DEF d
<1>3. /\ parts \in Seq(Paths) /\ \A i \in DOMAIN parts : parts[i] \in Partitions(d)
      /\ d \in attached => \A p \in Partitions(d) : \E i \in DOMAIN parts : parts[i] = p
  <2>1. CASE d \in attached
    BY <1>2, <2>1, PartsFacts
  <2>2. CASE d \notin attached
    <3>1. parts = <<>>
      BY <1>2, <2>2
    <3> QED
      BY <2>2, <3>1
  <2> QED
    BY <2>1, <2>2
<1>4. scan' = [directory |-> scan.directory, seen |-> scan.seen,
               at |-> [disk |-> d, step |-> "parts", parts |-> parts]]
  BY <1>2, ScanTypes DEF d
<1>5. [disk |-> d, step |-> "parts", parts |-> parts] \in
          [disk : Disks \cup {NULL}, step : {"look", "read", "probe", "parts"}, parts : Seq(Paths)]
  BY <1>1, <1>3
<1>6. scan.directory \in 1..4 /\ scan.seen \subseteq Disks
  BY ScanTypes
<1>7. /\ scan' \in ScanType /\ scan'.directory = scan.directory /\ scan'.seen = scan.seen
      /\ scan'.at.disk = d /\ scan'.at.step = "parts" /\ scan'.at.parts = parts
  BY <1>4, <1>5, <1>6 DEF ScanType
<1> QED
  BY <1>1, <1>3, <1>7 DEF d

LEMMA ReadPartitionCases ==
    ASSUME TypeInv, ReadPartition
    PROVE  LET d == scan.at.disk
               p == Head(scan.at.parts)
           IN  /\ d \in Disks /\ scan' \in ScanType /\ scan'.directory = scan.directory
               /\ \/ /\ scan.at.parts = <<>> \/ p \notin attached \/ d \notin Numbered
                     /\ enumeration' = enumeration
                     /\ scan'.seen = scan.seen \cup {d} /\ scan'.at.step = "look" /\ scan'.at.disk = NULL
                  \/ /\ scan.at.parts # <<>> /\ p \in attached /\ d \in Numbered /\ p \in Paths
                     /\ enumeration_add_device(Info(p, Kind(p), NULL)) /\ Info(p, Kind(p), NULL) \in Devices
                     /\ scan'.seen = scan.seen /\ scan'.at.disk = d /\ scan'.at.step = "parts"
                     /\ scan'.at.parts = Tail(scan.at.parts)
<1> DEFINE d == scan.at.disk
           p == Head(scan.at.parts)
<1>1. d \in Disks
  BY DEF ReadPartition, Scanning, TypeInv
<1>2. CASE scan.at.parts = <<>> \/ p \notin attached \/ d \notin Numbered
  <2>1. Seen(d) /\ enumeration' = enumeration
    BY <1>2 DEF ReadPartition
  <2>2. scan' \in ScanType /\ scan'.directory = scan.directory /\ scan'.seen = scan.seen \cup {d}
        /\ scan'.at.step = "look" /\ scan'.at.disk = NULL
    BY <1>1, <2>1, ScanTypes DEF ScanType
  <2> QED
    BY <1>1, <1>2, <2>1, <2>2
<1>3. CASE ~(scan.at.parts = <<>> \/ p \notin attached \/ d \notin Numbered)
  <2>1. /\ enumeration_add_device(Info(p, Kind(p), NULL))
        /\ scan' = [scan EXCEPT !.at.parts = Tail(@)]
    BY <1>3 DEF ReadPartition
  <2>2. p \in Paths /\ Tail(scan.at.parts) \in Seq(Paths)
    BY <1>3, ScanTypes
  <2>3. Info(p, Kind(p), NULL) \in Devices
    <3> HIDE DEF p
    <3> QED
      BY <2>2, InfoFacts DEF TypeInv
  <2>4. scan' = [directory |-> scan.directory, seen |-> scan.seen,
                 at |-> [disk |-> d, step |-> "parts", parts |-> Tail(scan.at.parts)]]
    BY <2>1, ScanTypes DEF ReadPartition, Scanning
  <2>5. [disk |-> d, step |-> "parts", parts |-> Tail(scan.at.parts)] \in
            [disk : Disks \cup {NULL}, step : {"look", "read", "probe", "parts"}, parts : Seq(Paths)]
    BY <1>1, <2>2
  <2>6. scan.directory \in 1..4 /\ scan.seen \subseteq Disks
    BY ScanTypes
  <2>7. scan' \in ScanType /\ scan'.directory = scan.directory /\ scan'.seen = scan.seen
        /\ scan'.at.step = "parts" /\ scan'.at.disk = d /\ scan'.at.parts = Tail(scan.at.parts)
    BY <2>4, <2>5, <2>6 DEF ScanType
  <2> QED
    BY <1>1, <1>3, <2>1, <2>2, <2>3, <2>7
<1> QED
  BY <1>2, <1>3

LEMMA NextDirectoryCases ==
    ASSUME TypeInv, NextDirectory
    PROVE  /\ scan' \in ScanType /\ scan'.directory = scan.directory + 1 /\ scan'.seen = {}
           /\ scan'.at = scan.at /\ scan.at.step = "look" /\ pc = "scan"
           /\ pc' = IF scan.directory = 3 THEN "list" ELSE "scan"
<1>1. scan' = [directory |-> scan.directory + 1, seen |-> {}, at |-> scan.at]
  BY ScanTypes DEF NextDirectory
<1>2. scan.directory + 1 \in 1..4 /\ {} \in SUBSET Disks
  BY ScanTypes DEF TypeInv, NextDirectory, Scanning
<1>3. scan.at \in [disk : Disks \cup {NULL}, step : {"look", "read", "probe", "parts"}, parts : Seq(Paths)]
  BY DEF TypeInv, TypeOK
<1>4. scan.at.step = "look" /\ pc = "scan" /\ pc' = IF scan.directory = 3 THEN "list" ELSE "scan"
  BY DEF NextDirectory, Scanning
<1> QED
  BY <1>1, <1>2, <1>3, <1>4 DEF ScanType

\* The state, apart from the world, the list and the enumeration.
LEMMA QueueTypes ==
    ASSUME TypeInv
    PROVE  /\ unread \in Seq(Events) /\ reading \in Readings \cup {NULL} /\ queue \in Seq(Items)
           /\ NULL \in Readings \cup {NULL} /\ NULL \notin Readings
           /\ enumeration \in Seq(Devices) /\ attached \subseteq Paths /\ GoodList(media)
           /\ medium \in [Paths -> {"none", "clear", "ext4"}] /\ port \in [Disks -> Ports \cup {NULL}]
           /\ fromStart \subseteq attached /\ raced \subseteq Disks
           /\ pc \in {"scan", "list", "loop", "failed"} /\ (pc = "scan" <=> scan.directory < 4)
  BY NullAssumption DEF TypeInv, TypeOK

\* What the worker does to the events.
LEMMA ReceiveCases ==
    ASSUME TypeInv, Receive
    PROVE  LET e == Head(unread)
               item == [action |-> e.action, path |-> e.path, kind |-> UnknownKind, content |-> NoContent]
           IN  /\ reading = NULL /\ unread # <<>> /\ e \in Events
               /\ unread' = Tail(unread) /\ unread' \in Seq(Events)
               /\ UNCHANGED <<attached, medium, port, changes, fromStart, raced, pc, scan, enumeration, media>>
               /\ \/ /\ e.action # "remove" /\ e.path \in attached /\ queue' = queue
                     /\ reading' \in Readings /\ reading'.event = e /\ reading'.step = "parent" /\ reading'.sysfs = NULL
                     /\ Waiting' = Waiting /\ Unposted' = Unposted
                  \/ /\ e.action = "add" /\ e.path \notin attached /\ queue' = queue /\ reading' = NULL
                     /\ Unposted' = Tail(unread)
                  \/ /\ e.action # "add" /\ (e.action = "remove" \/ e.path \notin attached)
                     /\ reading' = NULL /\ item \in Items /\ queue' = Append(queue, item)
                     /\ Waiting' = Waiting /\ Unposted' = Tail(unread)
<1> DEFINE e == Head(unread)
           item == [action |-> e.action, path |-> e.path, kind |-> UnknownKind, content |-> NoContent]
<1>1. /\ unread \in Seq(Events) /\ queue \in Seq(Items) /\ NULL \in Readings \cup {NULL} /\ NULL \notin Readings
  BY QueueTypes
<1>2. /\ reading = NULL /\ unread # <<>> /\ unread' = Tail(unread)
      /\ UNCHANGED <<attached, medium, port, changes, fromStart, raced, pc, scan, enumeration, media>>
  BY DEF Receive
<1>3. e \in Events /\ unread' \in Seq(Events) /\ e.action \in Actions /\ e.path \in Paths
  <2>1. e \in Events /\ unread' \in Seq(Events)
    BY <1>1, <1>2
  <2> QED
    BY <2>1 DEF Events
<1>4. CASE e.action # "remove" /\ e.path \in attached
  <2>1. reading' = [event |-> e, step |-> "parent", sysfs |-> NULL] /\ queue' = queue
    BY <1>4 DEF Receive
  <2>2. reading' \in Readings /\ reading'.event = e /\ reading'.step = "parent" /\ reading'.sysfs = NULL
    BY <1>3, <2>1 DEF Readings
  <2>3. UnpostedOf(reading', Tail(unread)) = UnpostedOf(NULL, unread)
    <3> DEFINE x == reading'
    <3>1. x \in Readings /\ x.event = Head(unread)
      BY <2>2
    <3> HIDE DEF x
    <3>2. UnpostedOf(x, Tail(unread)) = UnpostedOf(NULL, unread)
      BY <1>1, <1>2, <3>1, TakeFacts
    <3> QED
      BY <3>2 DEF x
  <2>4. Unposted' = Unposted
    BY <1>2, <2>3 DEF Unposted
  <2>5. Waiting' = Waiting
    BY <1>2, <2>1, <2>3 DEF Waiting, WaitingOf
  <2> QED
    BY <1>2, <1>3, <1>4, <2>1, <2>2, <2>4, <2>5
<1>5. CASE e.action = "add" /\ e.path \notin attached
  <2>1. reading' = reading /\ queue' = queue
    BY <1>5 DEF Receive
  <2>2. Unposted' = Tail(unread)
    BY <1>2, <2>1 DEF Unposted, UnpostedOf
  <2> QED
    BY <1>2, <1>3, <1>5, <2>1, <2>2
<1>6. CASE e.action # "add" /\ (e.action = "remove" \/ e.path \notin attached)
  <2>1. queue' = Append(queue, item) /\ reading' = NULL
    BY <1>6 DEF Receive, Post
  <2>2. item \in Items /\ item.action = e.action /\ item.path = e.path
    BY <1>3, KindFacts DEF Items
  <2>3. Unposted' = Tail(unread)
    BY <1>2, <2>1 DEF Unposted, UnpostedOf
  <2>4. Event(item.action, item.path) = e
    BY <1>3, <2>2 DEF Event, Events
  <2>5. UnpostedOf(NULL, unread) = <<Event(item.action, item.path)>> \o Tail(unread)
    <3>1. unread = <<e>> \o Tail(unread)
      BY <1>1, <1>2, UnreadSplit
    <3> QED
      BY <2>4, <3>1 DEF UnpostedOf
  <2>6. WaitingOf(Append(queue, item), NULL, Tail(unread)) = WaitingOf(queue, NULL, unread)
    <3>1. Tail(unread) \in Seq(Events) /\ item \in Items
      BY <1>2, <1>3, <2>2
    <3> HIDE DEF item
    <3> QED
      BY <1>1, <2>5, <3>1, PostFacts
  <2>7. Waiting' = Waiting
    BY <1>2, <2>1, <2>6 DEF Waiting
  <2> QED
    BY <1>2, <1>3, <1>6, <2>1, <2>2, <2>3, <2>7
<1>7. e.action # "remove" \/ e.action # "add"
  OBVIOUS
<1> QED
  BY <1>4, <1>5, <1>6, <1>7

LEMMA ReadParentCases ==
    ASSUME TypeInv, ReadParent
    PROVE  LET p == reading.event.path
           IN  /\ reading \in Readings /\ reading' \in Readings /\ reading'.event = reading.event /\ p \in Paths
               /\ reading.step = "parent" /\ reading'.step = "medium"
               /\ reading'.sysfs = IF IsPartition(p) THEN NULL ELSE port[p]
               /\ Waiting' = Waiting /\ Unposted' = Unposted
               /\ UNCHANGED <<world, queue, pc, scan, enumeration, media>>
<1> DEFINE p == reading.event.path
           s == IF IsPartition(p) THEN NULL ELSE port[p]
<1>1. reading \in Readings /\ reading.step = "parent" /\ reading \in Readings \cup {NULL}
  BY DEF TypeInv, TypeOK, ReadParent
<1>2. reading.event \in Events /\ p \in Paths /\ s \in Ports \cup {NULL}
  <2>1. reading.event \in Events /\ p \in Paths
    BY <1>1 DEF Readings, Events
  <2>2. CASE IsPartition(p)
    BY <2>1, <2>2
  <2>3. CASE ~IsPartition(p)
    <3>1. p \in Disks
      BY <2>1, <2>3 DEF Disks
    <3> QED
      BY <2>1, <2>3, <3>1, QueueTypes
  <2> QED
    BY <2>2, <2>3
<1>3. reading' = [reading EXCEPT !.step = "medium", !.sysfs = s]
  BY DEF ReadParent, get_usb_parent_syspath
<1>4. reading' = [event |-> reading.event, step |-> "medium", sysfs |-> s]
  BY <1>1, <1>3 DEF Readings
<1> HIDE DEF p, s
<1>5. reading' \in Readings /\ reading'.event = reading.event /\ reading'.step = "medium" /\ reading'.sysfs = s
  BY <1>2, <1>4 DEF Readings
<1>6. UNCHANGED <<world, queue, pc, scan, enumeration, media>>
  BY DEF ReadParent
<1>7. Unposted' = Unposted
  BY <1>1, <1>5, <1>6, NullAssumption DEF Unposted, UnpostedOf, world
<1>8. Waiting' = Waiting
  BY <1>6, <1>7 DEF Waiting, Unposted, WaitingOf
<1> QED
  BY <1>1, <1>2, <1>5, <1>6, <1>7, <1>8 DEF p, s

LEMMA ReadMediumCases ==
    ASSUME TypeInv, ReadMedium
    PROVE  LET p == reading.event.path
               item == Item(reading.event.action, Info(p, Kind(p), reading.sysfs))
           IN  /\ reading \in Readings /\ reading' = NULL /\ p \in Paths /\ reading.event.action \in Actions
               /\ reading.step = "medium" /\ item \in Items /\ queue' = Append(queue, item)
               /\ item.action = reading.event.action /\ item.path = p /\ item.kind = Kind(p)
               /\ item.content.sysfs = reading.sysfs
               /\ item.content.state = BlkidState(p) /\ item.content.fstype = BlkidType(p)
               /\ Waiting' = Waiting /\ Unposted = <<reading.event>> \o unread /\ Unposted' = unread
               /\ UNCHANGED <<world, pc, scan, enumeration, media>>
<1> DEFINE p == reading.event.path
           info == Info(p, Kind(p), reading.sysfs)
           item == Item(reading.event.action, info)
<1>1. /\ reading \in Readings /\ reading.step = "medium" /\ reading \in Readings \cup {NULL} /\ TypeOK
      /\ reading # NULL /\ queue \in Seq(Items) /\ unread \in Seq(Events)
  BY DEF TypeInv, TypeOK, ReadMedium
<1>2. /\ reading.event \in Events /\ p \in Paths /\ reading.event.action \in Actions
      /\ reading.sysfs \in Ports \cup {NULL} /\ Event(reading.event.action, p) = reading.event
  BY <1>1 DEF Readings, Events, Event
<1>3. /\ info \in Devices /\ info.path = p /\ info.kind = Kind(p) /\ info.content.sysfs = reading.sysfs
      /\ info.content.state = BlkidState(p) /\ info.content.fstype = BlkidType(p)
  <2> HIDE DEF p
  <2> QED
    BY <1>1, <1>2, InfoFacts
<1>4. queue' = Append(queue, item) /\ reading' = NULL /\ UNCHANGED <<world, pc, scan, enumeration, media>>
  BY DEF ReadMedium, Post
<1> HIDE DEF info, p
<1>5. /\ item \in Items /\ item.action = reading.event.action /\ item.path = p /\ item.kind = Kind(p)
      /\ item.content = info.content
  BY <1>2, <1>3 DEF Item, Items, Devices
<1> HIDE DEF item
<1>6. Unposted = <<reading.event>> \o unread /\ Unposted' = unread
  BY <1>1, <1>4 DEF Unposted, UnpostedOf, world
<1>7. WaitingOf(Append(queue, item), NULL, unread) = WaitingOf(queue, reading, unread)
  <2>1. UnpostedOf(reading, unread) = <<Event(item.action, item.path)>> \o unread
    BY <1>2, <1>5, <1>6 DEF Unposted
  <2> QED
    BY <1>1, <1>5, <2>1, PostFacts
<1>8. Waiting' = Waiting
  BY <1>4, <1>7 DEF Waiting, world
<1> QED
  BY <1>1, <1>2, <1>3, <1>4, <1>5, <1>6, <1>8 DEF p, info, item

\* What the main loop does.
LEMMA HandleCases ==
    ASSUME TypeInv, Handle
    PROVE  LET item == Head(queue)
           IN  /\ pc = "loop" /\ queue # <<>> /\ item \in Items /\ item = queue[1] /\ 1 \in DOMAIN queue
               /\ UNCHANGED <<world, reading, scan, enumeration>> /\ GoodList(media')
               /\ \/ /\ item.action = "change" /\ Known(item) /\ SysfsChanged(item)
                     /\ pc' = "failed" /\ queue' = queue /\ media' = media
                  \/ /\ pc' = "loop" /\ queue' = Tail(queue) /\ queue' \in Seq(Items)
                     /\ \/ item.action = "add" /\ media' = AddItem(media, item)
                        \/ /\ item.action = "remove"
                           /\ media' = IF find_media(media, item.path) = 0 THEN media ELSE remove_media(media, item.path)
                        \/ item.action = "change" /\ ~Known(item) /\ media' = media
                        \/ /\ item.action = "change" /\ Known(item) /\ ~SysfsChanged(item)
                           /\ media' = change_media(media, item.path, item.kind, item.content)
<1> DEFINE item == Head(queue)
           fails == item.action = "change" /\ Known(item) /\ SysfsChanged(item)
<1>1. queue \in Seq(Items) /\ pc = "loop" /\ queue # <<>> /\ UNCHANGED <<world, reading, scan, enumeration>>
  BY QueueTypes DEF Handle
<1>2. item \in Items /\ Tail(queue) \in Seq(Items) /\ item = queue[1] /\ 1 \in DOMAIN queue
  BY <1>1
<1>3. /\ item.action \in Actions /\ item.path \in Paths /\ item.kind \in Kinds /\ item.content \in Contents
  BY <1>2 DEF Items
<1>4. GoodList(media)
  BY QueueTypes
<1>5. CASE item.action = "add"
  <2>1. pc' = pc /\ queue' = Tail(queue) /\ media' = AddItem(media, item)
    BY <1>5 DEF Handle
  <2>2. GoodList(AddItem(media, item))
    <3> HIDE DEF item
    <3> QED
      BY <1>3, <1>4, AddItemFacts
  <2> QED
    BY <1>1, <1>2, <1>5, <2>1, <2>2
<1>6. CASE item.action = "remove"
  <2>1. /\ pc' = pc /\ queue' = Tail(queue)
        /\ media' = IF find_media(media, item.path) = 0 THEN media ELSE remove_media(media, item.path)
    BY <1>6 DEF Handle
  <2>2. GoodList(media')
    <3> DEFINE p == item.path
    <3>1. media' = IF find_media(media, p) = 0 THEN media ELSE remove_media(media, p)
      BY <2>1
    <3>2. p \in Paths
      BY <1>3
    <3> HIDE DEF p
    <3> QED
      BY <1>4, <3>1, <3>2, RemoveItemFacts
  <2> QED
    BY <1>1, <1>2, <1>6, <2>1, <2>2
<1>7. CASE item.action = "change"
  <2>1. CASE fails
    <3>1. pc' = "failed" /\ queue' = queue /\ media' = media
      BY <1>7, <2>1 DEF Handle
    <3> QED
      BY <1>1, <1>2, <1>4, <1>7, <2>1, <3>1
  <2>2. CASE ~fails /\ ~Known(item)
    <3>1. pc' = pc /\ queue' = Tail(queue) /\ media' = media
      BY <1>7, <2>2 DEF Handle
    <3> QED
      BY <1>1, <1>2, <1>4, <1>7, <2>2, <3>1
  <2>3. CASE ~fails /\ Known(item)
    <3>1. /\ pc' = pc /\ queue' = Tail(queue)
          /\ media' = change_media(media, item.path, item.kind, item.content)
      BY <1>7, <2>3 DEF Handle
    <3>2. GoodList(change_media(media, item.path, item.kind, item.content))
      <4> HIDE DEF item
      <4> QED
        BY <1>3, <1>4, ChangeItemFacts
    <3>3. ~SysfsChanged(item)
      BY <1>7, <2>3
    <3> QED
      BY <1>1, <1>2, <1>7, <2>3, <3>1, <3>2, <3>3
  <2> QED
    BY <2>1, <2>2, <2>3
<1> QED
  BY <1>3, <1>5, <1>6, <1>7 DEF Actions

LEMMA AddEnumeratedCases ==
    ASSUME TypeInv, AddEnumerated
    PROVE  /\ pc = "list" /\ UNCHANGED <<world, reading, queue, scan>> /\ GoodList(media')
           /\ \/ enumeration = <<>> /\ pc' = "loop" /\ enumeration' = enumeration /\ media' = media
              \/ /\ enumeration # <<>> /\ pc' = "list" /\ enumeration' = Tail(enumeration)
                 /\ enumeration' \in Seq(Devices) /\ Head(enumeration) \in Devices
                 /\ media' = AddItem(media, Head(enumeration))
<1>1. pc = "list" /\ UNCHANGED <<world, reading, queue, scan>> /\ enumeration \in Seq(Devices) /\ GoodList(media)
  BY QueueTypes DEF AddEnumerated
<1>2. CASE enumeration = <<>>
  BY <1>1, <1>2 DEF AddEnumerated
<1>3. CASE enumeration # <<>>
  <2>1. pc' = "list" /\ enumeration' = Tail(enumeration) /\ media' = AddItem(media, Head(enumeration))
    BY <1>1, <1>3 DEF AddEnumerated
  <2>2. Tail(enumeration) \in Seq(Devices) /\ Head(enumeration) \in Devices
    BY <1>1, <1>3
  <2>3. GoodList(AddItem(media, Head(enumeration)))
    <3>1. PICK info : info = Head(enumeration)
      OBVIOUS
    <3>2. info.path \in Paths /\ info.kind \in Kinds /\ info.content \in Contents
      BY <2>2, <3>1 DEF Devices
    <3>3. GoodList(AddItem(media, info))
      BY <1>1, <3>2, AddItemFacts
    <3> QED
      BY <3>1, <3>3
  <2> QED
    BY <1>1, <1>3, <2>1, <2>2, <2>3
<1> QED
  BY <1>2, <1>3

\* Type correctness is kept by every step.
LEMMA TypeStep ==
    ASSUME TypeInv, [Next]_vars
    PROVE  TypeInv'
<1>0. UNCHANGED world => UNCHANGED <<attached, medium, port, changes, unread, fromStart, raced>>
  BY DEF world
<1>1. ASSUME NEW d \in Disks, Plug(d) \/ Unplug(d)
      PROVE  TypeInv'
  BY <1>1, WorldTypes
<1>2. ASSUME NEW p \in Paths, Alter(p)
      PROVE  TypeInv'
  BY <1>2, AlterTypes
<1>3. ASSUME NEW d \in Disks, LookAt(d)
      PROVE  TypeInv'
  <2>1. UNCHANGED <<world, reading, queue, pc, enumeration, media>>
    BY <1>3 DEF LookAt
  <2>2. /\ scan' \in ScanType /\ scan'.directory = scan.directory
        /\ scan'.at.step # "look" => scan'.at.disk \in Disks
    BY <1>3, LookCases
  <2> QED
    BY <1>0, <2>1, <2>2 DEF TypeInv, TypeOK, ScanType
<1>4. CASE ReadDevice
  <2>1. UNCHANGED <<world, reading, queue, pc, media>>
    BY <1>4 DEF ReadDevice
  <2>2. /\ scan' \in ScanType /\ scan'.directory = scan.directory
        /\ scan'.at.step # "look" => scan'.at.disk \in Disks
    BY <1>4, ReadDeviceCases
  <2>3. enumeration' \in Seq(Devices)
    BY <1>4, ReadDeviceCases, EnumAdds DEF TypeInv
  <2> QED
    BY <1>0, <2>1, <2>2, <2>3 DEF TypeInv, TypeOK, ScanType
<1>5. CASE Probe
  <2>1. UNCHANGED <<world, reading, queue, pc, enumeration, media>>
    BY <1>5 DEF Probe
  <2>2. /\ scan' \in ScanType /\ scan'.directory = scan.directory
        /\ scan'.at.step # "look" => scan'.at.disk \in Disks
    BY <1>5, ProbeCases
  <2> QED
    BY <1>0, <2>1, <2>2 DEF TypeInv, TypeOK, ScanType
<1>6. CASE ReadPartition
  <2>1. UNCHANGED <<world, reading, queue, pc, media>>
    BY <1>6 DEF ReadPartition
  <2>2. /\ scan' \in ScanType /\ scan'.directory = scan.directory
        /\ scan'.at.step # "look" => scan'.at.disk \in Disks
    BY <1>6, ReadPartitionCases
  <2>3. enumeration' \in Seq(Devices)
    <3>1. \/ enumeration' = enumeration
          \/ \E info \in Devices : enumeration_add_device(info)
      BY <1>6, ReadPartitionCases
    <3> QED
      BY <3>1, EnumAdds DEF TypeInv, TypeOK
  <2> QED
    BY <1>0, <2>1, <2>2, <2>3 DEF TypeInv, TypeOK, ScanType
<1>7. CASE NextDirectory
  <2>1. UNCHANGED <<world, reading, queue, enumeration, media>>
    BY <1>7 DEF NextDirectory
  <2>2. /\ scan' \in ScanType /\ scan'.directory = scan.directory + 1
        /\ scan'.at.step # "look" => scan'.at.disk \in Disks
        /\ pc' = IF scan.directory = 3 THEN "list" ELSE "scan"
        /\ pc = "scan"
    BY <1>7, NextDirectoryCases
  <2>3. pc' = "scan" <=> scan'.directory < 4
    BY <2>2, ScanTypes DEF TypeInv
  <2> QED
    BY <1>0, <2>1, <2>2, <2>3 DEF TypeInv, TypeOK, ScanType
<1>8. CASE AddEnumerated
  <2>1. /\ UNCHANGED <<world, reading, queue, scan>> /\ GoodList(media') /\ pc = "list" /\ pc' \in {"list", "loop"}
        /\ enumeration' \in Seq(Devices)
    BY <1>8, AddEnumeratedCases, QueueTypes
  <2>2. \A i \in DOMAIN media' :
            [path |-> media'[i].path, kind |-> media'[i].kind, content |-> media'[i].content] \in Devices
    BY <2>1, GoodListTypes
  <2> QED
    BY <1>0, <2>1, <2>2 DEF TypeInv, TypeOK
<1>9. CASE Receive
  <2>1. UNCHANGED <<attached, medium, port, changes, fromStart, raced, pc, scan, enumeration, media>>
    BY <1>9 DEF Receive
  <2>2. unread' \in Seq(Events) /\ reading' \in Readings \cup {NULL} /\ queue' \in Seq(Items)
    <3>1. /\ unread' \in Seq(Events) /\ reading' \in Readings \cup {NULL}
          /\ queue' = queue \/ \E item \in Items : queue' = Append(queue, item)
      BY <1>9, ReceiveCases
    <3>2. queue \in Seq(Items)
      BY QueueTypes
    <3> QED
      BY <3>1, <3>2
  <2> QED
    BY <2>1, <2>2 DEF TypeInv, TypeOK
<1>10. CASE ReadParent
  <2>1. UNCHANGED <<world, queue, pc, scan, enumeration, media>> /\ reading' \in Readings
    BY <1>10, ReadParentCases
  <2> QED
    BY <1>0, <2>1 DEF TypeInv, TypeOK
<1>11. CASE ReadMedium
  <2>1. UNCHANGED <<world, pc, scan, enumeration, media>> /\ reading' = NULL /\ queue' \in Seq(Items)
    <3>1. /\ UNCHANGED <<world, pc, scan, enumeration, media>> /\ reading' = NULL
          /\ \E item \in Items : queue' = Append(queue, item)
      BY <1>11, ReadMediumCases
    <3>2. queue \in Seq(Items)
      BY QueueTypes
    <3> QED
      BY <3>1, <3>2
  <2> QED
    BY <1>0, <2>1 DEF TypeInv, TypeOK
<1>12. CASE Handle
  <2>1. /\ UNCHANGED <<world, reading, scan, enumeration>> /\ GoodList(media') /\ pc = "loop"
        /\ pc' \in {"loop", "failed"} /\ queue' \in Seq(Items)
    BY <1>12, HandleCases, QueueTypes
  <2>2. \A i \in DOMAIN media' :
            [path |-> media'[i].path, kind |-> media'[i].kind, content |-> media'[i].content] \in Devices
    BY <2>1, GoodListTypes
  <2> QED
    BY <1>0, <2>1, <2>2 DEF TypeInv, TypeOK
<1>13. CASE UNCHANGED vars
  BY <1>13 DEF vars, world, TypeInv, TypeOK
<1> QED
  BY <1>1, <1>2, <1>3, <1>4, <1>5, <1>6, <1>7, <1>8, <1>9, <1>10, <1>11, <1>12, <1>13
  DEF Next, Scan, Worker, Failed, Idle

\* TypeOK: what the worker and the enumeration read about a device, and what is
\* queued and listed, is a path, a kind and a content.  add_media, remove_media and
\* change_media keep this up because the list is always a tree (GoodList).
THEOREM TypeCorrect == Spec => []TypeOK
<1>1. Init => TypeInv
  BY TypeInit
<1>2. TypeInv /\ [Next]_vars => TypeInv'
  BY TypeStep
<1>3. TypeInv => TypeOK
  BY DEF TypeInv
<1> QED
  BY <1>1, <1>2, <1>3, PTL DEF Spec

(***************************************************************************)
(* What the steps do to the waiting events.                                *)
(***************************************************************************)
\* A disk comes and goes with the paths whose disk it is.
LEMMA FamilyFacts ==
    ASSUME NEW d \in Disks
    PROVE  /\ d \in Paths /\ DiskOf(d) = d
           /\ \A p \in Paths : p \in {d} \cup Partitions(d) <=> DiskOf(p) = d
           /\ \A p \in Partitions(d) : p \in Paths /\ IsPartition(p) /\ DiskOf(p) = d
<1>1. d \in Paths /\ ~IsPartition(d) /\ d # Root
  BY PathAssumption DEF Disks
<1> QED
  BY <1>1 DEF Partitions, DiskOf, IsPartition

LEMMA PlugFacts ==
    ASSUME TypeInv, NEW d \in Disks, Plug(d)
    PROVE  /\ d \notin attached /\ attached' = attached \cup ({d} \cup Partitions(d))
           /\ fromStart' = fromStart /\ medium' = medium /\ UNCHANGED <<reading, queue, pc, scan, enumeration, media>>
           /\ \A x \in Disks : x # d => port'[x] = port[x]
           /\ Bus[d] # "usb" => port'[d] = NULL
           /\ raced' = IF pc = "scan" THEN raced \cup {d} ELSE raced
           /\ \E ev \in Seq(Events) :
                 /\ Grows(Waiting', Waiting, ev) /\ Grows(Unposted', Unposted, ev)
                 /\ 1 \in DOMAIN ev /\ ev[1] = Event("add", d)
                 /\ \A j \in DOMAIN ev : ev[j].action = "add" /\ ev[j].path \in {d} \cup Partitions(d)
                 /\ \A p \in {d} \cup Partitions(d) : \E j \in DOMAIN ev : ev[j] = Event("add", p)
                 /\ \A i, j \in DOMAIN ev : ev[i] = ev[j] => i = j
<1>1. /\ d \notin attached /\ attached' = attached \cup ({d} \cup Partitions(d))
      /\ fromStart' = fromStart /\ medium' = medium
  BY DEF Plug
<1>2. PICK parts \in InOrder(Partitions(d)) : Change(Arrival(d, parts), d)
  BY DEF Plug, Arrival
<1>3. PICK ev : ev = Arrival(d, parts)
  OBVIOUS
<1>4. /\ ev \in Seq(Events) /\ 1 \in DOMAIN ev /\ ev[1] = Event("add", d)
      /\ \A j \in DOMAIN ev : ev[j].action = "add" /\ ev[j].path \in {d} \cup Partitions(d)
      /\ \A p \in {d} \cup Partitions(d) : \E j \in DOMAIN ev : ev[j] = Event("add", p)
      /\ \A i, j \in DOMAIN ev : ev[i] = ev[j] => i = j
  BY <1>3, PlugEvents
<1>5. /\ unread' = unread \o ev /\ raced' = IF pc = "scan" THEN raced \cup {d} ELSE raced
      /\ UNCHANGED <<reading, queue, pc, scan, enumeration, media>>
  BY <1>2, <1>3 DEF Change
<1>6. Grows(Waiting', Waiting, ev) /\ Grows(Unposted', Unposted, ev)
  <2>1. /\ Grows(UnpostedOf(reading, unread \o ev), UnpostedOf(reading, unread), ev)
        /\ Grows(WaitingOf(queue, reading, unread \o ev), WaitingOf(queue, reading, unread), ev)
    BY <1>4, QueueTypes, GrowFacts
  <2> QED
    BY <1>5, <2>1 DEF Waiting, Unposted
<1>7. PICK q \in Ports : port' = [port EXCEPT ![d] = IF Bus[d] = "usb" THEN q ELSE NULL]
  BY DEF Plug
<1>8. (\A x \in Disks : x # d => port'[x] = port[x]) /\ (Bus[d] # "usb" => port'[d] = NULL)
  BY <1>7, QueueTypes
<1> QED
  BY <1>1, <1>4, <1>5, <1>6, <1>8

LEMMA UnplugFacts ==
    ASSUME TypeInv, NEW d \in Disks, Unplug(d)
    PROVE  /\ d \in attached /\ attached' = attached \ ({d} \cup Partitions(d))
           /\ fromStart' = fromStart \ ({d} \cup Partitions(d)) /\ medium' = medium
           /\ UNCHANGED <<reading, queue, pc, scan, enumeration, media>>
           /\ \A x \in Disks : x # d => port'[x] = port[x]
           /\ port'[d] = NULL
           /\ raced' = IF pc = "scan" THEN raced \cup {d} ELSE raced
           /\ \E ev \in Seq(Events) :
                 /\ Grows(Waiting', Waiting, ev) /\ Grows(Unposted', Unposted, ev)
                 /\ \A j \in DOMAIN ev : ev[j].action = "remove" /\ ev[j].path \in {d} \cup Partitions(d)
                 /\ \A p \in {d} \cup Partitions(d) : \E j \in DOMAIN ev : ev[j] = Event("remove", p)
<1>1. /\ d \in attached /\ attached' = attached \ ({d} \cup Partitions(d))
      /\ fromStart' = fromStart \ ({d} \cup Partitions(d)) /\ medium' = medium
      /\ port' = [port EXCEPT ![d] = NULL]
  BY DEF Unplug
<1>2. PICK parts \in InOrder(Partitions(d)) : Change(Departure(d, parts), d)
  BY DEF Unplug, Departure
<1>3. PICK ev : ev = Departure(d, parts)
  OBVIOUS
<1>4. /\ ev \in Seq(Events)
      /\ \A j \in DOMAIN ev : ev[j].action = "remove" /\ ev[j].path \in {d} \cup Partitions(d)
      /\ \A p \in {d} \cup Partitions(d) : \E j \in DOMAIN ev : ev[j] = Event("remove", p)
  BY <1>3, UnplugEvents
<1>5. /\ unread' = unread \o ev /\ raced' = IF pc = "scan" THEN raced \cup {d} ELSE raced
      /\ UNCHANGED <<reading, queue, pc, scan, enumeration, media>>
  BY <1>2, <1>3 DEF Change
<1>6. Grows(Waiting', Waiting, ev) /\ Grows(Unposted', Unposted, ev)
  <2>1. /\ Grows(UnpostedOf(reading, unread \o ev), UnpostedOf(reading, unread), ev)
        /\ Grows(WaitingOf(queue, reading, unread \o ev), WaitingOf(queue, reading, unread), ev)
    BY <1>4, QueueTypes, GrowFacts
  <2> QED
    BY <1>5, <2>1 DEF Waiting, Unposted
<1>8. (\A x \in Disks : x # d => port'[x] = port[x]) /\ port'[d] = NULL
  BY <1>1, QueueTypes
<1> QED
  BY <1>1, <1>4, <1>5, <1>6, <1>8

LEMMA AlterFacts ==
    ASSUME TypeInv, NEW p \in Paths, Alter(p)
    PROVE  /\ p \in attached /\ UNCHANGED <<attached, port, fromStart, raced, reading, queue, pc, scan, enumeration, media>>
           /\ \A q \in Paths : q # p => medium'[q] = medium[q]
           /\ Grows(Waiting', Waiting, <<Event("change", p)>>)
           /\ Grows(Unposted', Unposted, <<Event("change", p)>>)
           /\ <<Event("change", p)>> \in Seq(Events) /\ DOMAIN <<Event("change", p)>> = {1}
           /\ <<Event("change", p)>>[1] = Event("change", p)
<1>1. /\ p \in attached /\ unread' = Append(unread, Event("change", p))
      /\ UNCHANGED <<attached, port, fromStart, raced, reading, queue, pc, scan, enumeration, media>>
  BY DEF Alter
<1>2. PICK m \in Media(p) : medium' = [medium EXCEPT ![p] = m]
  BY DEF Alter
<1>3. \A q \in Paths : q # p => medium'[q] = medium[q]
  BY <1>2, QueueTypes
<1>4. PICK ev : ev = <<Event("change", p)>>
  OBVIOUS
<1>5. /\ ev \in Seq(Events) /\ DOMAIN ev = {1} /\ ev[1] = Event("change", p)
  <2>1. Event("change", p) \in Events
    BY DEF Event, Events, Actions
  <2>2. ev \in Seq(Events) /\ Len(ev) = 1 /\ ev[1] = Event("change", p)
    BY <1>4, <2>1
  <2> QED
    BY <2>2
<1>6. unread' = unread \o ev
  <2>1. unread \in Seq(Events) /\ Event("change", p) \in Events
    BY QueueTypes DEF Event, Events, Actions
  <2>2. Append(unread, Event("change", p)) = unread \o <<Event("change", p)>>
    BY ONLY <2>1, AppendIsConcat
  <2> QED
    BY <1>1, <1>4, <2>2
<1>7. Grows(Waiting', Waiting, ev) /\ Grows(Unposted', Unposted, ev)
  <2>1. /\ Grows(UnpostedOf(reading, unread \o ev), UnpostedOf(reading, unread), ev)
        /\ Grows(WaitingOf(queue, reading, unread \o ev), WaitingOf(queue, reading, unread), ev)
    BY <1>5, QueueTypes, GrowFacts
  <2> QED
    BY <1>1, <1>6, <2>1 DEF Waiting, Unposted
<1> QED
  BY <1>1, <1>3, <1>4, <1>5, <1>7

\* The event at hand is dropped; the first posted event is handled.
LEMMA DropStep ==
    ASSUME TypeInv, reading = NULL, unread # <<>>, unread' = Tail(unread), reading' = NULL, queue' = queue
    PROVE  /\ Waiting[Len(queue) + 1] = Head(unread)
           /\ \E f : Embeds(f, Waiting', Waiting, Len(queue) + 1) /\ \A i \in DOMAIN queue : f[i] = i
<1>1. queue \in Seq(Items) /\ unread \in Seq(Events)
  BY QueueTypes
<1>2. /\ WaitingOf(queue, NULL, unread)[Len(queue) + 1] = Head(unread)
      /\ \E f : Embeds(f, WaitingOf(queue, NULL, Tail(unread)), WaitingOf(queue, NULL, unread), Len(queue) + 1)
                /\ \A i \in DOMAIN queue : f[i] = i
  BY <1>1, DropFacts
<1> QED
  BY <1>2 DEF Waiting

LEMMA PopStep ==
    ASSUME TypeInv, queue # <<>>, queue' = Tail(queue), reading' = reading, unread' = unread
    PROVE  /\ Waiting[1] = Event(Head(queue).action, Head(queue).path)
           /\ \E f : Embeds(f, Waiting', Waiting, 1) /\ \A i \in DOMAIN Waiting' : f[i] = i + 1
<1>1. queue \in Seq(Items) /\ unread \in Seq(Events) /\ reading \in Readings \cup {NULL}
  BY QueueTypes
<1>2. /\ WaitingOf(queue, reading, unread)[1] = Event(Head(queue).action, Head(queue).path)
      /\ \E f : Embeds(f, WaitingOf(Tail(queue), reading, unread), WaitingOf(queue, reading, unread), 1)
                /\ \A i \in DOMAIN WaitingOf(Tail(queue), reading, unread) : f[i] = i + 1
  BY <1>1, PopFacts
<1> QED
  BY <1>2 DEF Waiting

\* The waiting events of other disks are as before.
LEMMA OthersWait ==
    ASSUME NEW t, NEW w, NEW ev, Grows(t, w, ev), NEW d \in Disks,
           \A j \in DOMAIN ev : ev[j].path \in {d} \cup Partitions(d),
           NEW p \in Paths, DiskOf(p) # d
    PROVE  Adds(t, p) = Adds(w, p) /\ Removes(t, p) = Removes(w, p)
<1>1. p \notin {d} \cup Partitions(d)
  BY FamilyFacts
<1>2. Adds(ev, p) = {} /\ Removes(ev, p) = {}
  BY <1>1 DEF Adds, Removes, Event
<1> QED
  BY <1>2, GrowNone

\* The other steps leave the waiting events as they are, or take one of them out.
LEMMA SameWaiting ==
    ASSUME UNCHANGED <<unread, reading, queue>>
    PROVE  Waiting' = Waiting /\ Unposted' = Unposted
  BY DEF Waiting, Unposted

\* The steps of the enumeration change the enumeration alone.
LEMMA ScanStill ==
    ASSUME \/ \E d \in Disks : LookAt(d)
           \/ ReadDevice \/ Probe \/ ReadPartition \/ NextDirectory
    PROVE  /\ pc = "scan"
           /\ UNCHANGED <<attached, medium, port, unread, fromStart, raced, reading, queue, media>>
           /\ Waiting' = Waiting /\ Unposted' = Unposted
<1>1. pc = "scan" /\ UNCHANGED <<world, reading, queue, media>>
  BY DEF LookAt, ReadDevice, Probe, ReadPartition, NextDirectory, Scanning
<1>2. UNCHANGED <<attached, medium, port, unread, fromStart, raced, reading, queue, media>>
  BY <1>1 DEF world
<1> QED
  BY <1>1, <1>2, SameWaiting

(***************************************************************************)
(* What is posted was read.                                                *)
(***************************************************************************)
LEMMA ItemStep ==
    ASSUME TypeInv, ItemInv, [Next]_vars
    PROVE  ItemInv'
<1>0. queue \in Seq(Items) /\ NULL \notin Readings
  BY QueueTypes
<1>1. CASE UNCHANGED <<queue, reading>>
  BY <1>1 DEF ItemInv
<1> DEFINE Good(item) == /\ item.action = "add" => item.kind = Kind(item.path)
                         /\ Known(item) => item.kind = Kind(item.path)
                         /\ IsPartition(item.path) => item.content.sysfs = NULL
<1>2. ASSUME NEW item, queue' = Append(queue, item), Good(item)
      PROVE  \A i \in DOMAIN queue' : Good(queue'[i])
  <2>1. /\ \A i \in DOMAIN queue : Append(queue, item)[i] = queue[i]
        /\ Append(queue, item)[Len(queue) + 1] = item
        /\ \A i \in DOMAIN Append(queue, item) : i \in DOMAIN queue \/ i = Len(queue) + 1
    BY <1>0, SequenceOf, AppendFacts
  <2>2. \A i \in DOMAIN queue : Good(queue[i])
    BY DEF ItemInv
  <2> HIDE DEF Good
  <2> QED
    BY <1>2, <2>1, <2>2
<1>3. CASE Receive
  <2>1. CASE queue' = queue
    <3>1. reading' = NULL \/ (reading'.event.action # "remove" /\ reading'.sysfs = NULL)
      BY <1>3, <2>1, ReceiveCases
    <3> QED
      BY <2>1, <3>1 DEF ItemInv
  <2>2. CASE queue' # queue
    <3>1. PICK e, item : /\ item = [action |-> e.action, path |-> e.path, kind |-> UnknownKind, content |-> NoContent]
                         /\ queue' = Append(queue, item) /\ reading' = NULL /\ e.action # "add"
      BY <1>3, <2>2, ReceiveCases
    <3>2. Good(item)
      BY <3>1 DEF Known, UnknownKind, NoContent
    <3> QED
      BY <1>2, <3>1, <3>2 DEF ItemInv
  <2> QED
    BY <2>1, <2>2
<1>4. CASE ReadParent
  <2>1. /\ reading \in Readings /\ reading'.event = reading.event /\ queue' = queue
        /\ reading'.sysfs = IF IsPartition(reading.event.path) THEN NULL ELSE port[reading.event.path]
    BY <1>4, ReadParentCases
  <2>2. reading # NULL
    BY <1>0, <2>1
  <2> QED
    BY <2>1, <2>2 DEF ItemInv
<1>5. CASE ReadMedium
  <2>1. PICK item : /\ queue' = Append(queue, item) /\ reading' = NULL /\ reading \in Readings
                    /\ item.action = reading.event.action /\ item.path = reading.event.path
                    /\ item.kind = Kind(item.path) /\ item.content.sysfs = reading.sysfs
    BY <1>5, ReadMediumCases
  <2>2. Good(item)
    BY <1>0, <2>1 DEF ItemInv
  <2> QED
    BY <1>2, <2>1, <2>2 DEF ItemInv
<1>6. CASE Handle
  <2>1. reading' = reading /\ (queue' = queue \/ queue' = Tail(queue)) /\ queue # <<>>
    BY <1>6, HandleCases
  <2>2. \A i \in DOMAIN Tail(queue) : i + 1 \in DOMAIN queue /\ Tail(queue)[i] = queue[i + 1]
    BY <1>0, <2>1, SequenceOf, TailFacts
  <2>3. CASE queue' = queue
    BY <2>1, <2>3 DEF ItemInv
  <2>4. CASE queue' = Tail(queue)
    BY <2>1, <2>2, <2>4 DEF ItemInv
  <2> QED
    BY <2>1, <2>3, <2>4
<1>7. ASSUME \/ \E d \in Disks : Plug(d) \/ Unplug(d) \/ LookAt(d)
             \/ \E p \in Paths : Alter(p)
             \/ ReadDevice \/ Probe \/ ReadPartition \/ NextDirectory \/ AddEnumerated
             \/ UNCHANGED vars
      PROVE  UNCHANGED <<queue, reading>>
  BY <1>7 DEF Plug, Unplug, Change, LookAt, Alter, ReadDevice, Probe, ReadPartition, NextDirectory, AddEnumerated, vars
<1> QED
  BY <1>1, <1>3, <1>4, <1>5, <1>6, <1>7 DEF Next, Scan, Worker, Failed, Idle

(***************************************************************************)
(* The world and the waiting events.                                       *)
(***************************************************************************)
LEMMA WorldStep ==
    ASSUME TypeInv, WorldInv, [Next]_vars
    PROVE  WorldInv'
<1>0. attached \subseteq Paths /\ fromStart \subseteq attached /\ \A p \in Paths : DiskOf(p) \in Paths /\ DiskOf(p) \in Disks
  BY QueueTypes, KindFacts, DiskFacts
\* Nothing is added to the waiting events.
<1>1. ASSUME UNCHANGED <<attached, fromStart, raced, port>>, pc' = "scan" => pc = "scan",
             \A p \in Paths : /\ Adds(Waiting, p) = {} => Adds(Waiting', p) = {}
                              /\ Removes(Waiting, p) = {} => Removes(Waiting', p) = {}
      PROVE  WorldInv'
  <2>1. Steady' = Steady
    BY <1>1 DEF Steady
  <2>2. fromStart \subseteq Paths /\ Steady \subseteq Paths
    BY <1>0 DEF Steady
  <2>3. \A p \in fromStart : Adds(Waiting, p) = {} /\ Removes(Waiting, p) = {}
    BY DEF WorldInv
  <2>4. \A p \in fromStart : Adds(Waiting', p) = {} /\ Removes(Waiting', p) = {}
    BY <1>1, <2>2, <2>3
  <2>5. ASSUME pc' = "scan", NEW p \in Steady
        PROVE  (p \in attached => p \in fromStart) /\ Adds(Waiting', p) = {} /\ Removes(Waiting', p) = {}
    <3>1. (p \in attached => p \in fromStart) /\ Adds(Waiting, p) = {} /\ Removes(Waiting, p) = {}
      BY <1>1, <2>5 DEF WorldInv
    <3> QED
      BY <1>1, <2>2, <3>1
  <2>6. /\ \A p \in Paths : p \in attached <=> DiskOf(p) \in attached
        /\ \A p \in Paths : p \in fromStart <=> DiskOf(p) \in fromStart
        /\ fromStart \subseteq Steady /\ \A d \in Disks : port[d] # NULL => Bus[d] = "usb"
    BY DEF WorldInv
  <2> QED
    BY <1>1, <2>1, <2>4, <2>5, <2>6 DEF WorldInv
\* A disk comes or goes.
<1>2. ASSUME NEW d \in Disks, Plug(d) \/ Unplug(d)
      PROVE  WorldInv'
  <2> DEFINE F == {d} \cup Partitions(d)
  <2>1. /\ attached' = attached \cup F \/ attached' = attached \ F
        /\ fromStart' = fromStart \ F /\ UNCHANGED pc
        /\ \A x \in Disks : x # d => port'[x] = port[x]
        /\ port'[d] # NULL => Bus[d] = "usb"
        /\ raced' = IF pc = "scan" THEN raced \cup {d} ELSE raced
    <3>1. CASE Plug(d)
      <4>1. /\ attached' = attached \cup F /\ fromStart' = fromStart /\ UNCHANGED pc /\ d \notin attached
            /\ \A x \in Disks : x # d => port'[x] = port[x]
            /\ Bus[d] # "usb" => port'[d] = NULL
            /\ raced' = IF pc = "scan" THEN raced \cup {d} ELSE raced
        BY <3>1, PlugFacts
      <4>2. fromStart \cap F = {}
        BY <1>0, <4>1, FamilyFacts DEF WorldInv
      <4> HIDE DEF F
      <4>3. fromStart' = fromStart \ F
        BY <4>1, <4>2
      <4> QED
        BY <4>1, <4>3
    <3>2. CASE Unplug(d)
      BY <3>2, UnplugFacts
    <3> QED
      BY <1>2, <3>1, <3>2
  <2>2. PICK ev : Grows(Waiting', Waiting, ev) /\ \A j \in DOMAIN ev : ev[j].path \in F
    <3>1. CASE Plug(d)
      BY <3>1, PlugFacts
    <3>2. CASE Unplug(d)
      BY <3>2, UnplugFacts
    <3> QED
      BY <1>2, <3>1, <3>2
  <2>3. \A p \in Paths : p \in F <=> DiskOf(p) = d
    BY FamilyFacts
  <2>4. \A p \in Paths : DiskOf(p) # d =>
            Adds(Waiting', p) = Adds(Waiting, p) /\ Removes(Waiting', p) = Removes(Waiting, p)
    BY <2>2, OthersWait
  <2> HIDE DEF F
  <2>5. \A p \in Paths : DiskOf(DiskOf(p)) = DiskOf(p)
    BY <1>0, FamilyFacts
  <2>6. \A p \in Paths : p \in attached' <=> DiskOf(p) \in attached'
    BY <1>0, <2>1, <2>3, <2>5 DEF WorldInv
  <2>7. \A p \in Paths : p \in fromStart' <=> DiskOf(p) \in fromStart'
    BY <1>0, <2>1, <2>3, <2>5 DEF WorldInv
  <2>8. \A p \in Steady' : p \in Steady /\ p \in Paths
    BY <2>1 DEF Steady
  <2>9. fromStart' \subseteq Steady'
    BY <1>0, <2>1, <2>3 DEF WorldInv, Steady
  <2>10. \A p \in fromStart' : Adds(Waiting', p) = {} /\ Removes(Waiting', p) = {}
    BY <1>0, <2>1, <2>3, <2>4 DEF WorldInv
  <2>11. \A x \in Disks : port'[x] # NULL => Bus[x] = "usb"
    BY <2>1 DEF WorldInv
  <2>12. ASSUME pc' = "scan", NEW p \in Steady'
         PROVE  (p \in attached' => p \in fromStart') /\ Adds(Waiting', p) = {} /\ Removes(Waiting', p) = {}
    <3>1. pc = "scan" /\ p \in Steady /\ p \in Paths /\ DiskOf(p) # d
      BY <2>1, <2>8, <2>12 DEF Steady
    <3>2. (p \in attached => p \in fromStart) /\ Adds(Waiting, p) = {} /\ Removes(Waiting, p) = {}
      BY <3>1 DEF WorldInv
    <3>3. p \notin F
      BY <2>3, <3>1
    <3> QED
      BY <2>1, <2>4, <3>1, <3>2, <3>3
  <2> QED
    BY <2>6, <2>7, <2>9, <2>10, <2>11, <2>12 DEF WorldInv
<1>3. ASSUME NEW p \in Paths, Alter(p)
      PROVE  WorldInv'
  <2>1. PICK ev : /\ Grows(Waiting', Waiting, ev) /\ \A j \in DOMAIN ev : ev[j].action = "change"
                  /\ UNCHANGED <<attached, fromStart, raced, port, pc>>
    <3>1. PICK ev : ev = <<Event("change", p)>>
      OBVIOUS
    <3>2. /\ Grows(Waiting', Waiting, ev) /\ UNCHANGED <<attached, fromStart, raced, port, pc>>
          /\ DOMAIN ev = {1} /\ ev[1] = Event("change", p)
      BY <1>3, <3>1, AlterFacts
    <3> QED
      BY <3>2 DEF Event
  <2>2. \A q : Adds(ev, q) = {} /\ Removes(ev, q) = {}
    BY <2>1 DEF Adds, Removes, Event
  <2>3. \A q \in Paths : Adds(Waiting', q) = Adds(Waiting, q) /\ Removes(Waiting', q) = Removes(Waiting, q)
    BY <2>1, <2>2, GrowNone
  <2> QED
    BY <1>1, <2>1, <2>3
<1>4. ASSUME \/ \E d \in Disks : LookAt(d)
             \/ ReadDevice \/ Probe \/ ReadPartition \/ NextDirectory
      PROVE  WorldInv'
  <2>1. UNCHANGED <<attached, fromStart, raced, port>> /\ pc = "scan" /\ Waiting' = Waiting
    BY <1>4, ScanStill
  <2> QED
    BY <1>1, <2>1
<1>5. CASE AddEnumerated
  <2>1. UNCHANGED <<world, reading, queue>> /\ pc' # "scan"
    BY <1>5, AddEnumeratedCases
  <2>2. Waiting' = Waiting /\ UNCHANGED <<attached, fromStart, raced, port>>
    BY <2>1, SameWaiting DEF world
  <2> QED
    BY <1>1, <2>1, <2>2
<1>6. CASE Receive
  <2>1. UNCHANGED <<attached, fromStart, raced, port, pc>>
    BY <1>6, ReceiveCases
  <2>2. CASE Waiting' = Waiting
    BY <1>1, <2>1, <2>2
  <2>3. CASE Waiting' # Waiting
    <3>1. reading = NULL /\ unread # <<>> /\ unread' = Tail(unread) /\ reading' = NULL /\ queue' = queue
      BY <1>6, <2>3, ReceiveCases
    <3>2. PICK f : Embeds(f, Waiting', Waiting, Len(queue) + 1)
      BY <3>1, DropStep
    <3>3. \A p \in Paths : /\ Adds(Waiting, p) = {} => Adds(Waiting', p) = {}
                           /\ Removes(Waiting, p) = {} => Removes(Waiting', p) = {}
      BY <3>2, Shrinks
    <3> QED
      BY <1>1, <2>1, <3>3
  <2> QED
    BY <2>2, <2>3
<1>7. CASE ReadParent \/ ReadMedium
  <2>1. Waiting' = Waiting /\ UNCHANGED <<world, pc>>
    BY <1>7, ReadParentCases, ReadMediumCases
  <2>2. UNCHANGED <<attached, fromStart, raced, port, pc>>
    BY <2>1 DEF world
  <2> QED
    BY <1>1, <2>1, <2>2
<1>8. CASE Handle
  <2>1. UNCHANGED <<world, reading>> /\ queue # <<>> /\ (queue' = queue \/ queue' = Tail(queue)) /\ pc' # "scan"
    BY <1>8, HandleCases
  <2>2. UNCHANGED <<attached, fromStart, raced, port, unread, reading>>
    BY <2>1 DEF world
  <2>3. CASE queue' = queue
    BY <1>1, <2>1, <2>2, <2>3, SameWaiting
  <2>4. CASE queue' = Tail(queue)
    <3>2. PICK f : Embeds(f, Waiting', Waiting, 1)
      BY <2>1, <2>2, <2>4, PopStep
    <3>3. \A p \in Paths : /\ Adds(Waiting, p) = {} => Adds(Waiting', p) = {}
                           /\ Removes(Waiting, p) = {} => Removes(Waiting', p) = {}
      BY <3>2, Shrinks
    <3> QED
      BY <1>1, <2>1, <2>2, <3>3
  <2> QED
    BY <2>1, <2>3, <2>4
<1>9. CASE UNCHANGED vars
  <2>1. UNCHANGED <<attached, fromStart, raced, port, pc, unread, reading, queue>>
    BY <1>9 DEF vars, world
  <2> QED
    BY <1>1, <2>1, SameWaiting
<1> QED
  BY <1>2, <1>3, <1>4, <1>5, <1>6, <1>7, <1>8, <1>9 DEF Next, Scan, Worker, Failed, Idle

(***************************************************************************)
(* The enumeration.                                                        *)
(***************************************************************************)
\* What a directory shows of a disk and is wanted there.
LEMMA DirectoryFacts ==
    ASSUME TypeInv, pc = "scan", NEW d \in Disks
    PROVE  scan.directory \in 1..3 /\ (Wants(scan.directory, d) <=> InDirectory(d) /\ Wanted(d))
<1>1. scan.directory \in 1..3
  BY ScanTypes DEF TypeInv
<1>2. Directories[1] = "block" /\ Directories[2] = "usb" /\ Directories[3] = "mmc"
  BY DEF Directories
<1>3. IsRemovable[d] \in BOOLEAN
  BY SysfsAssumption
<1>4. CASE scan.directory = 1
  <2>1. Wants(1, d) <=> Recognised(d) /\ IsRemovable[d]
    BY <1>3 DEF Wants
  <2>2. InDirectory(d) /\ (Wanted(d) <=> Recognised(d) /\ IsRemovable[d])
    BY <1>2, <1>3, <1>4 DEF InDirectory, Wanted, Recognised
  <2> QED
    BY <1>4, <2>1, <2>2
<1>5. CASE scan.directory = 2
  <2>1. Wants(2, d) <=> Recognised(d) /\ Bus[d] = "usb"
    BY DEF Wants
  <2>2. (InDirectory(d) <=> Bus[d] = "usb") /\ (Wanted(d) <=> Recognised(d))
    BY <1>2, <1>5 DEF InDirectory, Wanted, Recognised
  <2> QED
    BY <1>5, <2>1, <2>2
<1>6. CASE scan.directory = 3
  <2>1. Wants(3, d) <=> Recognised(d) /\ Bus[d] = "mmc"
    BY DEF Wants
  <2>2. (InDirectory(d) <=> Bus[d] = "mmc") /\ (Wanted(d) <=> Recognised(d))
    BY <1>2, <1>6 DEF InDirectory, Wanted, Recognised
  <2> QED
    BY <1>6, <2>1, <2>2
<1> QED
  BY <1>1, <1>4, <1>5, <1>6

LEMMA EnumGrows ==
    ASSUME TypeOK, NEW info \in Devices, enumeration_add_device(info)
    PROVE  \A q : Has(enumeration', q) <=> Has(enumeration, q) \/ q = info.path
<1>1. CASE InEnum(info.path) /\ enumeration' = enumeration
  BY <1>1 DEF InEnum, Has
<1>2. CASE /\ ~InEnum(info.path) /\ enumeration' # enumeration
           /\ DOMAIN enumeration' = 1..(Len(enumeration) + 1)
           /\ enumeration'[Len(enumeration) + 1] = info
           /\ \A i \in DOMAIN enumeration : enumeration'[i] = enumeration[i] /\ i # Len(enumeration) + 1
  <2>1. Len(enumeration) \in Nat /\ DOMAIN enumeration = 1..Len(enumeration)
    BY EnumAdds
  <2>2. /\ \A i \in DOMAIN enumeration : i \in DOMAIN enumeration'
        /\ \A i \in DOMAIN enumeration' : i \in DOMAIN enumeration \/ i = Len(enumeration) + 1
        /\ Len(enumeration) + 1 \in DOMAIN enumeration'
    BY <1>2, <2>1
  <2> QED
    BY <1>2, <2>2 DEF Has
<1> QED
  BY <1>1, <1>2, EnumAdds

\* The steps that leave the enumeration as it is.
LEMMA ScanWorld ==
    ASSUME ScanInv, UNCHANGED <<pc, scan, enumeration>>, fromStart' \subseteq fromStart,
           raced \subseteq raced', pc = "scan" => \A p \in Steady' : p \in fromStart => p \in fromStart'
    PROVE  ScanInv'
<1>1. Steady' \subseteq Steady
  BY DEF Steady
<1>2. ASSUME pc = "scan"
      PROVE  AtInv(scan, enumeration, fromStart', Steady') /\ SeenInv(scan, enumeration, fromStart')
  BY <1>1, <1>2 DEF ScanInv, AtInv, SeenInv
<1> QED
  BY <1>2 DEF ScanInv

LEMMA LookScan ==
    ASSUME TypeInv, WorldInv, ScanInv, NEW x \in Disks, LookAt(x)
    PROVE  ScanInv'
<1>1. /\ pc = "scan" /\ pc' = pc /\ scan.at.step = "look" /\ x \in attached /\ InDirectory(x)
      /\ enumeration' = enumeration
  BY DEF LookAt, Scanning
<1>2. UNCHANGED <<fromStart, raced>>
  BY ScanStill
<1>3. Steady' = Steady
  BY <1>2 DEF Steady
<1>4. \A d \in fromStart \cap Disks :
          /\ Has(enumeration, d) => Done(enumeration, d)
          /\ \A k \in 1..3 :
                Wants(k, d) /\ (k < scan.directory \/ (k = scan.directory /\ d \in scan.seen)) => Done(enumeration, d)
  BY <1>1 DEF ScanInv, SeenInv
<1>5. Wants(scan.directory, x) <=> Wanted(x)
  BY <1>1, DirectoryFacts
<1>6. AtInv(scan', enumeration, fromStart, Steady)
  <2>1. CASE scan'.at.step = "look"
    BY <2>1 DEF AtInv
  <2>2. CASE scan'.at.step # "look"
    <3>1. Wanted(x) /\ scan'.at.disk = x /\ scan'.at.step = "read" /\ scan'.directory = scan.directory
      BY <2>2, LookCases
    <3>2. x \in Steady => x \in fromStart
      BY <1>1 DEF WorldInv
    <3> QED
      BY <1>5, <3>1, <3>2 DEF AtInv
  <2> QED
    BY <2>1, <2>2
<1>7. SeenInv(scan', enumeration, fromStart)
  <2>1. /\ scan'.directory = scan.directory
        /\ scan'.seen = scan.seen \/ (~Wanted(x) /\ scan'.seen = scan.seen \cup {x})
    BY LookCases
  <2> QED
    BY <1>4, <1>5, <2>1 DEF SeenInv
<1> QED
  BY <1>1, <1>2, <1>3, <1>6, <1>7 DEF ScanInv

LEMMA ReadDeviceScan ==
    ASSUME TypeInv, WorldInv, ScanInv, ReadDevice
    PROVE  ScanInv'
<1>1. pc = "scan" /\ pc' = pc /\ scan.at.step = "read"
  BY DEF ReadDevice, Scanning
<1>2. UNCHANGED <<fromStart, raced>>
  BY ScanStill
<1>3. Steady' = Steady
  BY <1>2 DEF Steady
<1>4. \A d \in fromStart \cap Disks :
          /\ Has(enumeration, d) => Done(enumeration, d)
          /\ \A k \in 1..3 :
                Wants(k, d) /\ (k < scan.directory \/ (k = scan.directory /\ d \in scan.seen)) => Done(enumeration, d)
  BY <1>1 DEF ScanInv, SeenInv
<1>5. PICK x : x = scan.at.disk
  OBVIOUS
<1>6. x \in Disks /\ Wants(scan.directory, x) /\ (x \in Steady => x \in fromStart)
  BY <1>1, <1>5 DEF ScanInv, AtInv
<1>7. /\ scan'.directory = scan.directory
      /\ \/ /\ MediaType(x) = "stateful" \/ enumeration' = enumeration
            /\ scan'.seen = scan.seen \cup {x} /\ scan'.at.step = "look" /\ scan'.at.disk = NULL
         \/ scan'.seen = scan.seen /\ scan'.at.disk = x /\ scan'.at.step = "probe"
  BY <1>5, ReadDeviceCases
<1>8. \A q : Has(enumeration', q) <=> Has(enumeration, q) \/ q = x
  <2>1. PICK info \in Devices : info.path = x /\ enumeration_add_device(info)
    <3>1. PICK y, info : /\ y \in Ports \cup {NULL} /\ info = Info(x, Kind(x), y)
                         /\ enumeration_add_device(info) /\ info \in Devices
      BY <1>5, ReadDeviceCases
    <3>2. info.path = x
      BY <3>1 DEF Info
    <3> QED
      BY <3>1, <3>2
  <2> QED
    BY <2>1, EnumGrows DEF TypeInv
<1>9. \A d : Done(enumeration, d) => Done(enumeration', d)
  BY <1>8 DEF Done
<1>10. MediaType(x) = "stateful" => Done(enumeration', x)
  <2>1. ASSUME MediaType(x) = "stateful", NEW p \in Partitions(x)
        PROVE  FALSE
    <3>1. x \in Paths /\ ~IsPartition(x) /\ Subtype[x] = "cdrom"
      BY <1>6, <2>1 DEF MediaType, device_subtype_from_string, DiskOf, Disks
    <3>2. p \in Paths /\ IsPartition(p) /\ ParentOf[p] = x
      BY <1>6, <2>1, FamilyFacts DEF Partitions
    <3> QED
      BY <3>1, <3>2, SysfsAssumption
  <2> QED
    BY <1>8, <2>1 DEF Done
<1>11. AtInv(scan', enumeration', fromStart, Steady)
  BY <1>6, <1>7, <1>8 DEF AtInv
<1>12. SeenInv(scan', enumeration', fromStart)
  <2>1. ASSUME NEW d \in fromStart \cap Disks
        PROVE  /\ Has(enumeration', d) => Done(enumeration', d) \/ (scan'.at.disk = d /\ scan'.at.step \in {"probe", "parts"})
               /\ \A k \in 1..3 :
                     Wants(k, d) /\ (k < scan'.directory \/ (k = scan'.directory /\ d \in scan'.seen)) => Done(enumeration', d)
    <3>1. CASE d # x
      <4>1. Has(enumeration', d) => Done(enumeration', d)
        BY <1>4, <1>8, <1>9, <2>1, <3>1
      <4>2. d \in scan'.seen => d \in scan.seen
        BY <1>7, <3>1
      <4> QED
        BY <1>4, <1>7, <1>9, <2>1, <4>1, <4>2
    <3>2. CASE d = x /\ scan'.at.step = "look"
      <4>1. Done(enumeration', x)
        <5>1. CASE MediaType(x) = "stateful"
          BY <1>10, <5>1
        <5>2. CASE enumeration' = enumeration
          BY <1>4, <1>8, <2>1, <3>2, <5>2
        <5> QED
          BY <1>7, <3>2, <5>1, <5>2
      <4> QED
        BY <3>2, <4>1
    <3>3. CASE d = x /\ scan'.at.step # "look"
      BY <1>4, <1>7, <1>9, <2>1, <3>3
    <3> QED
      BY <3>1, <3>2, <3>3
  <2> QED
    BY <2>1 DEF SeenInv
<1> QED
  BY <1>1, <1>2, <1>3, <1>11, <1>12 DEF ScanInv

LEMMA ProbeScan ==
    ASSUME TypeInv, WorldInv, ScanInv, Probe
    PROVE  ScanInv'
<1>1. pc = "scan" /\ pc' = pc /\ scan.at.step = "probe" /\ enumeration' = enumeration
  BY DEF Probe, Scanning
<1>2. UNCHANGED <<fromStart, raced>>
  BY ScanStill
<1>3. Steady' = Steady
  BY <1>2 DEF Steady
<1>5. PICK x : x = scan.at.disk
  OBVIOUS
<1>6. x \in Disks /\ Wants(scan.directory, x) /\ (x \in Steady => x \in fromStart) /\ Has(enumeration, x)
  BY <1>1, <1>5 DEF ScanInv, AtInv
<1>7. /\ scan'.directory = scan.directory
      /\ scan'.seen = scan.seen /\ scan'.at.disk = x /\ scan'.at.step = "parts"
      /\ \A i \in DOMAIN scan'.at.parts : scan'.at.parts[i] \in Partitions(x)
      /\ x \in attached => \A p \in Partitions(x) : \E i \in DOMAIN scan'.at.parts : scan'.at.parts[i] = p
  BY <1>5, ProbeCases
<1>8. x \in Steady => x \in attached
  BY <1>6, QueueTypes
<1>11. AtInv(scan', enumeration, fromStart, Steady)
  BY <1>6, <1>7, <1>8 DEF AtInv
<1>12. SeenInv(scan', enumeration, fromStart)
  BY <1>1, <1>5, <1>7 DEF ScanInv, SeenInv
<1> QED
  BY <1>1, <1>2, <1>3, <1>11, <1>12 DEF ScanInv

LEMMA ReadPartitionScan ==
    ASSUME TypeInv, WorldInv, ScanInv, ReadPartition
    PROVE  ScanInv'
<1>1. pc = "scan" /\ pc' = pc /\ scan.at.step = "parts"
  BY DEF ReadPartition, Scanning
<1>2. UNCHANGED <<fromStart, raced>>
  BY ScanStill
<1>3. Steady' = Steady
  BY <1>2 DEF Steady
<1>5. PICK x, y : x = scan.at.disk /\ y = Head(scan.at.parts)
  OBVIOUS
<1>6. /\ x \in Disks /\ Wants(scan.directory, x) /\ (x \in Steady => x \in fromStart) /\ Has(enumeration, x)
      /\ \A i \in DOMAIN scan.at.parts : scan.at.parts[i] \in Partitions(x)
      /\ x \in Steady /\ x \in Numbered => \A p \in Partitions(x) :
            Has(enumeration, p) \/ \E i \in DOMAIN scan.at.parts : scan.at.parts[i] = p
  BY <1>1, <1>5 DEF ScanInv, AtInv
<1>7. SeenInv(scan, enumeration, fromStart)
  BY <1>1 DEF ScanInv
<1>8. fromStart \subseteq Steady /\ fromStart \subseteq attached
  BY QueueTypes DEF WorldInv
<1>9. scan.at.parts \in Seq(Paths)
  BY ScanTypes
<1>10. CASE /\ scan.at.parts = <<>> \/ y \notin attached \/ x \notin Numbered
            /\ enumeration' = enumeration /\ scan'.directory = scan.directory
            /\ scan'.seen = scan.seen \cup {x} /\ scan'.at.step = "look" /\ scan'.at.disk = NULL
  <2>1. x \in fromStart => Done(enumeration, x)
    <3> SUFFICES ASSUME x \in fromStart, x \in Numbered, NEW p \in Partitions(x)
                 PROVE  Has(enumeration, p)
      BY <1>6 DEF Done
    <3>1. scan.at.parts = <<>>
      <4> SUFFICES ASSUME scan.at.parts # <<>>
                   PROVE  y \in attached
        BY <1>10
      <4>1. 1 \in DOMAIN scan.at.parts /\ y = scan.at.parts[1]
        BY <1>5, <1>9
      <4>2. y \in Partitions(x)
        BY <1>6, <4>1
      <4>3. y \in Paths /\ DiskOf(y) = x
        BY <1>6, <4>2, FamilyFacts
      <4> QED
        BY <1>8, <4>3 DEF WorldInv
    <3> QED
      BY <1>6, <1>8, <3>1
  <2>2. AtInv(scan', enumeration, fromStart, Steady)
    BY <1>10 DEF AtInv
  <2>3. SeenInv(scan', enumeration, fromStart)
    BY <1>5, <1>7, <1>10, <2>1 DEF SeenInv
  <2> QED
    BY <1>1, <1>2, <1>3, <1>10, <2>2, <2>3 DEF ScanInv
<1>11. CASE /\ scan.at.parts # <<>> /\ y \in Paths
            /\ enumeration_add_device(Info(y, Kind(y), NULL)) /\ Info(y, Kind(y), NULL) \in Devices
            /\ scan'.seen = scan.seen /\ scan'.at.disk = x /\ scan'.at.step = "parts"
            /\ scan'.at.parts = Tail(scan.at.parts) /\ scan'.directory = scan.directory
  <2>1. \A q : Has(enumeration', q) <=> Has(enumeration, q) \/ q = y
    <3>1. PICK info \in Devices : enumeration_add_device(info) /\ info.path = y
      BY <1>11 DEF Info
    <3> QED
      BY <3>1, EnumGrows DEF TypeInv
  <2>2. \A d : Done(enumeration, d) => Done(enumeration', d)
    BY <2>1 DEF Done
  <2>3. PICK s : s = scan.at.parts
    OBVIOUS
  <2>4. /\ s \in Seq(Paths) /\ s # <<>> /\ y = s[1] /\ \A i \in DOMAIN Tail(s) : i + 1 \in DOMAIN s /\ Tail(s)[i] = s[i + 1]
    BY <1>5, <1>9, <1>11, <2>3, SequenceOf, TailFacts
  <2>5. \A i \in DOMAIN s : i = 1 \/ \E j \in DOMAIN Tail(s) : Tail(s)[j] = s[i]
    <3>1. Len(s) \in Nat /\ DOMAIN s = 1..Len(s) /\ Len(Tail(s)) = Len(s) - 1 /\ DOMAIN Tail(s) = 1..(Len(s) - 1)
      BY <2>4
    <3>2. \A i \in DOMAIN s : i = 1 \/ (i - 1 \in DOMAIN Tail(s) /\ (i - 1) + 1 = i)
      BY <3>1
    <3> QED
      BY <2>4, <3>2
  <2>6. AtInv(scan', enumeration', fromStart, Steady)
    <3>1. \A i \in DOMAIN Tail(s) : Tail(s)[i] \in Partitions(x)
      BY <1>6, <2>3, <2>4
    <3>2. ASSUME x \in Steady, x \in Numbered, NEW p \in Partitions(x)
          PROVE  Has(enumeration', p) \/ \E i \in DOMAIN Tail(s) : Tail(s)[i] = p
      <4>1. Has(enumeration, p) \/ \E i \in DOMAIN s : s[i] = p
        BY <1>6, <2>3, <3>2
      <4> QED
        BY <2>1, <2>4, <2>5, <4>1
    <3> QED
      BY <1>6, <1>11, <2>1, <2>3, <3>1, <3>2 DEF AtInv
  <2>7. SeenInv(scan', enumeration', fromStart)
    <3>1. ASSUME NEW d \in fromStart \cap Disks, Has(enumeration', d)
          PROVE  Has(enumeration, d)
      <4>1. y \in Partitions(x)
        BY <1>6, <2>3, <2>4
      <4>2. IsPartition(y) /\ ~IsPartition(d)
        BY <1>6, <3>1, <4>1, FamilyFacts DEF Disks
      <4> QED
        BY <2>1, <3>1, <4>2
    <3> QED
      BY <1>1, <1>5, <1>7, <1>11, <2>2, <3>1 DEF SeenInv
  <2> QED
    BY <1>1, <1>2, <1>3, <2>6, <2>7 DEF ScanInv
<1> QED
  BY <1>5, <1>10, <1>11, ReadPartitionCases

LEMMA NextDirectoryScan ==
    ASSUME TypeInv, WorldInv, ScanInv, NextDirectory
    PROVE  /\ ScanInv'
           /\ \A d \in fromStart \cap Disks : \A k \in 1..3 :
                 k <= scan.directory /\ Wants(k, d) => Done(enumeration, d)
<1>1. /\ pc = "scan" /\ scan.at.step = "look" /\ enumeration' = enumeration
      /\ \A d \in fromStart \cap Disks : InDirectory(d) => d \in scan.seen
  BY DEF NextDirectory, Scanning
<1>2. UNCHANGED <<fromStart, raced>>
  BY ScanStill
<1>3. Steady' = Steady
  BY <1>2 DEF Steady
<1>4. scan'.directory = scan.directory + 1 /\ scan'.seen = {} /\ scan'.at = scan.at
  BY NextDirectoryCases
<1>5. scan.directory \in 1..3
  BY <1>1, ScanTypes DEF TypeInv
<1>6. ASSUME NEW d \in fromStart \cap Disks, NEW k \in 1..3, k <= scan.directory, Wants(k, d)
      PROVE  Done(enumeration, d)
  <2>1. k < scan.directory \/ k = scan.directory
    BY <1>5, <1>6
  <2>2. k = scan.directory => d \in scan.seen
    BY <1>1, <1>6, DirectoryFacts
  <2> QED
    BY <1>1, <1>6, <2>1, <2>2 DEF ScanInv, SeenInv
<1>7. AtInv(scan', enumeration, fromStart, Steady)
  BY <1>1, <1>4 DEF AtInv
<1>8. SeenInv(scan', enumeration, fromStart)
  <2>1. \A k \in 1..3 : k < scan'.directory => k <= scan.directory
    BY <1>4, <1>5
  <2> QED
    BY <1>1, <1>4, <1>6, <2>1 DEF ScanInv, SeenInv
<1> QED
  BY <1>1, <1>2, <1>3, <1>6, <1>7, <1>8 DEF ScanInv

LEMMA ScanStep ==
    ASSUME TypeInv, WorldInv, ScanInv, [Next]_vars
    PROVE  ScanInv'
<1>1. ASSUME NEW d \in Disks, Plug(d)
      PROVE  ScanInv'
  <2>1. UNCHANGED <<pc, scan, enumeration, fromStart>> /\ raced \subseteq raced'
    BY <1>1, PlugFacts
  <2> QED
    BY <2>1, ScanWorld
<1>2. ASSUME NEW d \in Disks, Unplug(d)
      PROVE  ScanInv'
  <2>1. /\ UNCHANGED <<pc, scan, enumeration>> /\ fromStart' = fromStart \ ({d} \cup Partitions(d))
        /\ raced' = IF pc = "scan" THEN raced \cup {d} ELSE raced
    BY <1>2, UnplugFacts
  <2>2. ASSUME pc = "scan", NEW p \in Steady', p \in fromStart
        PROVE  p \in fromStart'
    <3>1. p \in Paths /\ DiskOf(p) # d
      BY <2>1, <2>2 DEF Steady
    <3> QED
      BY <2>1, <2>2, <3>1, FamilyFacts
  <2> QED
    BY <2>1, <2>2, ScanWorld
<1>3. CASE UNCHANGED <<pc, scan, enumeration, fromStart, raced>>
  BY <1>3, ScanWorld
<1>4. ASSUME NEW p \in Paths, Alter(p)
      PROVE  UNCHANGED <<pc, scan, enumeration, fromStart, raced>>
  BY <1>4 DEF Alter
<1>5. CASE Receive
  BY <1>3, <1>5 DEF Receive
<1>6. CASE ReadParent \/ ReadMedium
  BY <1>3, <1>6 DEF ReadParent, ReadMedium, world
<1>7. CASE AddEnumerated
  <2>1. pc' # "scan"
    BY <1>7, AddEnumeratedCases
  <2> QED
    BY <2>1 DEF ScanInv
<1>8. CASE Handle
  <2>1. pc' # "scan"
    BY <1>8, HandleCases
  <2> QED
    BY <2>1 DEF ScanInv
<1>9. CASE UNCHANGED vars
  BY <1>3, <1>9 DEF vars, world
<1> QED
  BY <1>1, <1>2, <1>3, <1>4, <1>5, <1>6, <1>7, <1>8, <1>9, LookScan, ReadDeviceScan, ProbeScan,
     ReadPartitionScan, NextDirectoryScan
  DEF Next, Scan, Worker, Failed, Idle

(***************************************************************************)
(* What is listed.                                                         *)
(***************************************************************************)
LEMMA FindIsHas ==
    ASSUME NEW m, GoodList(m)
    PROVE  /\ \A p : find_media(m, p) # 0 <=> Has(m, p)
           /\ \A p \in Paths : HasParent(m, p) <=> (IsPartition(p) => Has(m, DiskOf(p)))
<1>1. \A p : find_media(m, p) # 0 <=> Has(m, p)
  BY FindFacts DEF GoodList, Has
<1> QED
  BY <1>1 DEF HasParent, DiskOf

\* A device goes from the enumeration to the list.
LEMMA MoveFacts ==
    ASSUME TypeInv, EnumInv, AddEnumerated, enumeration # <<>>
    PROVE  LET info == Head(enumeration)
           IN  /\ info \in Devices /\ info = enumeration[1] /\ 1 \in DOMAIN enumeration
               /\ info.kind = Kind(info.path) /\ Recognised(info.path) /\ Enumerable(info.path)
               /\ IsPartition(info.path) => info.content.sysfs = NULL
               /\ ~Has(media, info.path) /\ ~Has(enumeration', info.path)
               /\ \A q : Has(media', q) <=> Has(media, q) \/ q = info.path
               /\ \A q : Has(enumeration, q) <=> Has(enumeration', q) \/ q = info.path
               /\ \A i \in DOMAIN enumeration' :
                     i \in Nat /\ i + 1 \in DOMAIN enumeration /\ enumeration'[i] = enumeration[i + 1]
               /\ Listed' = Listed
               /\ \A k \in DOMAIN media' :
                     \/ media'[k].path = info.path /\ media'[k].kind = info.kind /\ media'[k].content = info.content
                     \/ \E j \in DOMAIN media : media'[k] = media[j]
               /\ \A q : Once(media, q) => Once(media', q)
<1>1. PICK info : info = Head(enumeration)
  OBVIOUS
<1>2. /\ info \in Devices /\ enumeration' = Tail(enumeration) /\ media' = AddItem(media, info)
      /\ enumeration \in Seq(Devices) /\ GoodList(media)
  BY <1>1, AddEnumeratedCases, QueueTypes
<1>3. /\ 1 \in DOMAIN enumeration /\ info = enumeration[1]
      /\ \A i \in DOMAIN Tail(enumeration) : i + 1 \in DOMAIN enumeration /\ Tail(enumeration)[i] = enumeration[i + 1]
  BY <1>1, <1>2, SequenceOf, TailFacts
<1>4. /\ Len(enumeration) \in Nat /\ DOMAIN enumeration = 1..Len(enumeration)
      /\ DOMAIN Tail(enumeration) = 1..(Len(enumeration) - 1)
  BY <1>2
<1>5. /\ info.path \in Paths /\ info.kind \in Kinds /\ info.content \in Contents
  BY <1>2 DEF Devices
<1>6. /\ info.kind = Kind(info.path) /\ Recognised(info.path) /\ Enumerable(info.path) /\ ~Has(media, info.path)
      /\ IsPartition(info.path) => info.content.sysfs = NULL /\ Has(media, DiskOf(info.path))
  <2>1. ~\E j \in 1..(1 - 1) : enumeration[j].path = DiskOf(info.path)
    OBVIOUS
  <2> QED
    BY <1>3, <2>1 DEF EnumInv, InMedia
<1>7. Known(info) /\ HasParent(media, info.path)
  BY <1>2, <1>5, <1>6, KindFacts, FindIsHas DEF Known
<1>8. LET r == AddItem(media, info)
      IN  /\ \A k \in DOMAIN r :
                \/ r[k].path = info.path /\ r[k].kind = info.kind /\ r[k].content = info.content /\ Known(info)
                \/ \E j \in DOMAIN media : r[k] = media[j]
          /\ \A j \in DOMAIN media : \E k \in DOMAIN r : r[k] = media[j]
          /\ Known(info) /\ HasParent(media, info.path) => \E k \in DOMAIN r : r[k].path = info.path
          /\ \A q : Once(media, q) /\ (q = info.path => \A j \in DOMAIN media : media[j].path # q) => Once(r, q)
  BY <1>2, <1>5, AddItemFacts
<1>9. \A q : Has(media', q) <=> Has(media, q) \/ q = info.path
  BY <1>2, <1>7, <1>8 DEF Has
<1>10. \A q : Once(media, q) => Once(media', q)
  BY <1>2, <1>6, <1>8 DEF Has
<1>11. \A i \in DOMAIN Tail(enumeration) : i \in Nat /\ i + 1 # 1
  BY <1>4
<1>12. \A i \in DOMAIN enumeration : i = 1 \/ \E j \in DOMAIN Tail(enumeration) : Tail(enumeration)[j] = enumeration[i]
  <2>1. \A i \in DOMAIN enumeration : i = 1 \/ (i - 1 \in DOMAIN Tail(enumeration) /\ (i - 1) + 1 = i)
    BY <1>4
  <2> QED
    BY <1>3, <2>1
<1>13. ~Has(enumeration', info.path)
  BY <1>2, <1>3, <1>11 DEF EnumInv, Distinct, Has
<1>14. \A q : Has(enumeration, q) <=> Has(enumeration', q) \/ q = info.path
  BY <1>2, <1>3, <1>12 DEF Has
<1>15. Listed' = Listed
  BY <1>9, <1>14 DEF Listed, InMedia, InEnum
<1> QED
  BY <1>1, <1>2, <1>3, <1>6, <1>8, <1>9, <1>10, <1>11, <1>13, <1>14, <1>15

\* What Handle does to the list, as far as p is concerned.
LEMMA HandledFacts ==
    ASSUME TypeInv, ItemInv, EnumInv, Handle, queue' # queue, NEW p \in Paths, Once(media, p)
    PROVE  /\ Waiting[1] \in Events /\ Waiting[1] = Event(Head(queue).action, Head(queue).path)
           /\ Handled(Waiting[1], p, Listed, Listed') /\ \E f : Embeds(f, Waiting', Waiting, 1)
<1>1. PICK item : item = Head(queue)
  OBVIOUS
<1>2. /\ pc = "loop" /\ queue # <<>> /\ item \in Items /\ item = queue[1] /\ 1 \in DOMAIN queue
      /\ UNCHANGED <<world, reading, scan, enumeration>> /\ queue' = Tail(queue)
      /\ \/ item.action = "add" /\ media' = AddItem(media, item)
         \/ /\ item.action = "remove"
            /\ media' = IF find_media(media, item.path) = 0 THEN media ELSE remove_media(media, item.path)
         \/ item.action = "change" /\ ~Known(item) /\ media' = media
         \/ /\ item.action = "change" /\ Known(item) /\ ~SysfsChanged(item)
            /\ media' = change_media(media, item.path, item.kind, item.content)
  BY <1>1, HandleCases
<1>3. /\ item.action \in Actions /\ item.path \in Paths /\ item.kind \in Kinds /\ item.content \in Contents
      /\ GoodList(media)
  BY <1>2, QueueTypes DEF Items
<1>4. unread' = unread /\ reading' = reading
  BY <1>2 DEF world
<1>5. Waiting[1] = Event(item.action, item.path) /\ \E f : Embeds(f, Waiting', Waiting, 1)
  BY <1>1, <1>2, <1>4, PopStep
<1>6. Waiting[1] \in Events /\ Waiting[1].action = item.action /\ Waiting[1].path = item.path
  BY <1>3, <1>5 DEF Event, Events
<1>7. /\ \A q \in Paths : q \in Listed <=> Has(media, q)
      /\ \A q \in Paths : q \in Listed' <=> Has(media', q)
  <2>1. enumeration = <<>> /\ enumeration' = <<>>
    BY <1>2 DEF EnumInv
  <2>2. \A q : ~Has(<<>>, q)
    BY DEF Has
  <2> QED
    BY <2>1, <2>2 DEF Listed, InMedia, InEnum
<1>8. DiskOf(p) \in Paths /\ ~IsPartition(DiskOf(p)) /\ DiskOf(DiskOf(p)) = DiskOf(p)
  BY DiskFacts DEF DiskOf
<1>9. CASE item.action = "add"
  <2>1. media' = AddItem(media, item)
    BY <1>2, <1>9
  <2>2. LET r == AddItem(media, item)
        IN  /\ \A k \in DOMAIN r :
                  \/ r[k].path = item.path /\ r[k].kind = item.kind /\ r[k].content = item.content /\ Known(item)
                  \/ \E j \in DOMAIN media : r[k] = media[j]
            /\ \A j \in DOMAIN media : \E k \in DOMAIN r : r[k] = media[j]
            /\ Known(item) /\ HasParent(media, item.path) => \E k \in DOMAIN r : r[k].path = item.path
    BY <1>3, AddItemFacts
  <2>3. \A q : (Has(media, q) => Has(media', q)) /\ (Has(media', q) => Has(media, q) \/ item.path = q)
    BY <2>1, <2>2 DEF Has
  <2>4. Recognised(item.path) => Known(item)
    <3>1. item.kind = Kind(item.path)
      BY <1>2, <1>9 DEF ItemInv
    <3> QED
      BY <1>3, <3>1, KindFacts DEF Known
  <2>5. item.path = p => Has(media', p) \/ ~Recognised(p) \/ (IsPartition(p) /\ ~Has(media, DiskOf(p)))
    BY <1>3, <2>1, <2>2, <2>4, FindIsHas DEF Has
  <2>6. item.path = DiskOf(p) => Has(media', DiskOf(p)) \/ ~Recognised(p)
    <3>1. Recognised(DiskOf(p)) <=> Recognised(p)
      BY <1>8 DEF Recognised, device_subtype_from_string
    <3> QED
      BY <1>3, <1>8, <2>1, <2>2, <2>4, <3>1, FindIsHas DEF Has
  <2> QED
    BY <1>1, <1>5, <1>6, <1>7, <1>8, <1>9, <2>3, <2>5, <2>6 DEF Handled
<1>10. CASE item.action = "remove"
  <2>1. PICK q : q = item.path
    OBVIOUS
  <2>2. media' = IF find_media(media, q) = 0 THEN media ELSE remove_media(media, q)
    BY <1>2, <1>10, <2>1
  <2>3. LET r == IF find_media(media, q) = 0 THEN media ELSE remove_media(media, q)
        IN  /\ \A k \in DOMAIN r : \E j \in DOMAIN media : r[k] = media[j]
            /\ \A j \in DOMAIN media : media[j].path # q /\ DiskOf(media[j].path) # q => \E k \in DOMAIN r : r[k] = media[j]
            /\ Once(media, q) => \A k \in DOMAIN r : r[k].path # q
    BY <1>3, <2>1, RemoveItemFacts
  <2>4. Has(media', p) => Has(media, p) /\ q # p
    BY <2>2, <2>3 DEF Has
  <2>5. \A x : Has(media, x) => Has(media', x) \/ q = x \/ q = DiskOf(x)
    BY <2>2, <2>3 DEF Has
  <2> QED
    BY <1>1, <1>5, <1>6, <1>7, <1>8, <1>10, <2>1, <2>4, <2>5 DEF Handled
<1>11. CASE item.action = "change"
  <2>1. \A q : Has(media', q) <=> Has(media, q)
    <3>1. CASE media' = media
      BY <3>1
    <3>2. CASE media' = change_media(media, item.path, item.kind, item.content)
      <4>1. DOMAIN media' = DOMAIN media /\ \A i \in DOMAIN media : media'[i].path = media[i].path
        BY <1>3, <3>2, ChangeItemFacts
      <4> QED
        BY <4>1 DEF Has
    <3> QED
      BY <1>2, <1>11, <3>1, <3>2
  <2> QED
    BY <1>1, <1>5, <1>6, <1>7, <1>8, <1>11, <2>1 DEF Handled
<1> QED
  BY <1>3, <1>9, <1>10, <1>11 DEF Actions

LEMMA EnumWorld ==
    ASSUME EnumInv, UNCHANGED <<pc, enumeration, media>>, fromStart' \subseteq fromStart,
           raced \subseteq raced', pc = "scan" => \A p \in Steady' : p \in fromStart => p \in fromStart'
    PROVE  EnumInv'
<1>1. Steady' \subseteq Steady /\ Listed' = Listed
  BY DEF Steady, Listed, InMedia, InEnum
<1>2. \A p : InMedia(p)' <=> InMedia(p)
  BY DEF InMedia
<1>3. ASSUME NEW i \in DOMAIN enumeration
      PROVE  LET p == enumeration[i].path
             IN  /\ enumeration[i].kind = Kind(p) /\ Recognised(p) /\ Enumerable(p) /\ ~Has(media, p)
                 /\ p \in Steady' /\ pc = "scan" => p \in fromStart'
                 /\ IsPartition(p) =>
                       /\ enumeration[i].content.sysfs = NULL
                       /\ \/ Has(media, DiskOf(p))
                          \/ \E j \in 1..(i - 1) : enumeration[j].path = DiskOf(p)
  BY <1>1, <1>3 DEF EnumInv, InMedia
<1>4. /\ Distinct(enumeration) /\ (pc \in {"loop", "failed"} => enumeration = <<>>)
      /\ pc # "scan" => \A p \in fromStart' : p \in Listed <=> Enumerable(p) /\ Recognised(p)
  BY DEF EnumInv
<1> QED
  BY <1>1, <1>3, <1>4 DEF EnumInv, InMedia

LEMMA EnumAppend ==
    ASSUME TypeInv, EnumInv, ListInv, pc = "scan", UNCHANGED <<pc, media, fromStart, raced>>,
           NEW info \in Devices, enumeration_add_device(info),
           info.kind = Kind(info.path), Recognised(info.path), Enumerable(info.path),
           info.path \in Steady => info.path \in fromStart,
           IsPartition(info.path) => info.content.sysfs = NULL /\ Has(enumeration, DiskOf(info.path))
    PROVE  EnumInv'
<1>1. CASE enumeration' = enumeration
  BY <1>1, EnumWorld
<1>2. CASE /\ ~InEnum(info.path) /\ enumeration' # enumeration
           /\ DOMAIN enumeration' = 1..(Len(enumeration) + 1)
           /\ enumeration'[Len(enumeration) + 1] = info
           /\ \A i \in DOMAIN enumeration : enumeration'[i] = enumeration[i] /\ i # Len(enumeration) + 1
  <2> DEFINE n == Len(enumeration)
  <2>1. n \in Nat /\ DOMAIN enumeration = 1..n
    BY EnumAdds DEF TypeInv
  <2> HIDE DEF n
  <2>2. /\ \A i \in DOMAIN enumeration : i \in DOMAIN enumeration' /\ enumeration'[i] = enumeration[i] /\ i # n + 1
        /\ \A i \in DOMAIN enumeration' : i \in DOMAIN enumeration \/ i = n + 1
        /\ n + 1 \in DOMAIN enumeration' /\ enumeration'[n + 1] = info
    BY <1>2, <2>1 DEF n
  <2>3. Distinct(enumeration')
    BY <1>2, <2>2 DEF EnumInv, Distinct, InEnum, Has
  <2>4. Steady' = Steady /\ media = <<>> /\ \A p : ~Has(media, p)
    <3>1. media = <<>>
      BY DEF ListInv
    <3> QED
      BY <3>1 DEF Steady, Has
  <2>5. ASSUME NEW i \in DOMAIN enumeration'
        PROVE  LET p == enumeration'[i].path
               IN  /\ enumeration'[i].kind = Kind(p) /\ Recognised(p) /\ Enumerable(p)
                   /\ p \in Steady => p \in fromStart
                   /\ IsPartition(p) =>
                         /\ enumeration'[i].content.sysfs = NULL
                         /\ \E j \in 1..(i - 1) : enumeration'[j].path = DiskOf(p)
    <3>1. CASE i \in DOMAIN enumeration
      <4>1. PICK p : p = enumeration[i].path
        OBVIOUS
      <4>2. /\ enumeration[i].kind = Kind(p) /\ Recognised(p) /\ Enumerable(p)
            /\ p \in Steady => p \in fromStart
            /\ IsPartition(p) =>
                  /\ enumeration[i].content.sysfs = NULL
                  /\ \E j \in 1..(i - 1) : enumeration[j].path = DiskOf(p)
        BY <2>4, <3>1, <4>1 DEF EnumInv, InMedia
      <4>3. \A j \in 1..(i - 1) : j \in DOMAIN enumeration
        BY <2>1, <3>1
      <4> QED
        BY <2>2, <3>1, <4>1, <4>2, <4>3
    <3>2. CASE i = n + 1
      <4>1. (n + 1) - 1 = n
        BY <2>1
      <4>2. ASSUME IsPartition(info.path)
            PROVE  \E j \in 1..n : enumeration'[j].path = DiskOf(info.path)
        BY <2>1, <2>2, <4>2 DEF Has
      <4> QED
        BY <2>2, <3>2, <4>1, <4>2
    <3> QED
      BY <2>2, <3>1, <3>2
  <2> QED
    BY <2>3, <2>4, <2>5 DEF EnumInv, InMedia
<1> QED
  BY <1>1, <1>2, EnumAdds DEF TypeInv

\* What the directories of sysfs show is what an enumeration shows.
LEMMA WantsFacts ==
    ASSUME NEW d \in Disks
    PROVE  /\ \A k \in 1..3 : Wants(k, d) => Recognised(d) /\ Enumerable(d)
           /\ \A p \in Paths : DiskOf(p) = d /\ Enumerable(p) /\ Recognised(p) => \E k \in 1..3 : Wants(k, d)
           /\ \A p \in Partitions(d) : /\ Recognised(d) <=> Recognised(p)
                                       /\ Enumerable(p) <=> Enumerable(d) /\ d \in Numbered
<1>1. DiskOf(d) = d /\ d \in Paths /\ ~IsPartition(d)
  BY FamilyFacts DEF Disks
<1>2. /\ Wants(1, d) <=> Recognised(d) /\ IsRemovable[d]
      /\ Wants(2, d) <=> Recognised(d) /\ Bus[d] = "usb"
      /\ Wants(3, d) <=> Recognised(d) /\ Bus[d] = "mmc"
      /\ IsRemovable[d] \in BOOLEAN /\ Bus[d] \in {"usb", "mmc", "other"}
  <2>1. IsRemovable[d] \in BOOLEAN /\ Bus[d] \in {"usb", "mmc", "other"}
    BY SysfsAssumption
  <2> QED
    BY <2>1 DEF Wants
<1>3. Enumerable(d) <=> IsRemovable[d] \/ Bus[d] # "other"
  BY <1>1, <1>2 DEF Enumerable
<1>4. \A k \in 1..3 : Wants(k, d) => Recognised(d) /\ Enumerable(d)
  <2>1. \A k \in 1..3 : k = 1 \/ k = 2 \/ k = 3
    OBVIOUS
  <2> QED
    BY <1>2, <1>3, <2>1
<1>5. ASSUME NEW p \in Paths, DiskOf(p) = d
      PROVE  (Recognised(d) <=> Recognised(p)) /\ (Enumerable(p) => Enumerable(d))
  <2>1. Recognised(d) <=> Recognised(p)
    BY <1>1, <1>5 DEF Recognised, device_subtype_from_string
  <2>2. Enumerable(p) => Enumerable(d)
    BY <1>2, <1>3, <1>5 DEF Enumerable
  <2> QED
    BY <2>1, <2>2
<1>6. ASSUME NEW p \in Partitions(d)
      PROVE  p \in Paths /\ DiskOf(p) = d /\ (Enumerable(p) <=> Enumerable(d) /\ d \in Numbered)
  <2>1. p \in Paths /\ DiskOf(p) = d /\ IsPartition(p) /\ ParentOf[p] = d
    BY <1>6, FamilyFacts DEF Partitions
  <2> QED
    BY <1>2, <1>3, <2>1 DEF Enumerable
<1>7. ASSUME NEW p \in Paths, DiskOf(p) = d, Enumerable(p), Recognised(p)
      PROVE  \E k \in 1..3 : Wants(k, d)
  <2>1. Recognised(d) /\ Enumerable(d)
    BY <1>5, <1>7
  <2>2. Wants(1, d) \/ Wants(2, d) \/ Wants(3, d)
    BY <1>2, <1>3, <2>1
  <2> QED
    BY <2>2
<1> QED
  BY <1>4, <1>5, <1>6, <1>7

LEMMA ReadDeviceEnum ==
    ASSUME TypeInv, ScanInv, EnumInv, ListInv, ReadDevice
    PROVE  EnumInv'
<1>1. pc = "scan" /\ scan.at.step = "read" /\ UNCHANGED <<pc, media, fromStart, raced>>
  BY ScanStill DEF ReadDevice, Scanning
<1>2. PICK x : x = scan.at.disk
  OBVIOUS
<1>3. x \in Disks /\ x \in Paths /\ Wants(scan.directory, x) /\ (x \in Steady => x \in fromStart) /\ ~IsPartition(x)
  BY <1>1, <1>2 DEF ScanInv, AtInv, Disks
<1>4. PICK info \in Devices : /\ enumeration_add_device(info) /\ info.path = x /\ info.kind = Kind(x)
  <2>1. PICK y, info : /\ info = Info(x, Kind(x), y) /\ enumeration_add_device(info) /\ info \in Devices
    BY <1>2, ReadDeviceCases
  <2>2. info.path = x /\ info.kind = Kind(x)
    BY <2>1 DEF Info
  <2> QED
    BY <2>1, <2>2
<1>5. Recognised(x) /\ Enumerable(x)
  BY <1>1, <1>3, WantsFacts, DirectoryFacts
<1> QED
  BY <1>1, <1>3, <1>4, <1>5, EnumAppend

LEMMA ReadPartitionEnum ==
    ASSUME TypeInv, WorldInv, ScanInv, EnumInv, ListInv, ReadPartition
    PROVE  EnumInv'
<1>1. pc = "scan" /\ scan.at.step = "parts" /\ UNCHANGED <<pc, media, fromStart, raced>>
  BY ScanStill DEF ReadPartition, Scanning
<1>2. PICK x, y : x = scan.at.disk /\ y = Head(scan.at.parts)
  OBVIOUS
<1>3. /\ x \in Disks /\ Wants(scan.directory, x) /\ (x \in Steady => x \in fromStart) /\ Has(enumeration, x)
      /\ \A i \in DOMAIN scan.at.parts : scan.at.parts[i] \in Partitions(x)
  BY <1>1, <1>2 DEF ScanInv, AtInv
<1>4. CASE enumeration' = enumeration
  BY <1>1, <1>4, EnumWorld
<1>5. CASE /\ scan.at.parts # <<>> /\ x \in Numbered
           /\ enumeration_add_device(Info(y, Kind(y), NULL)) /\ Info(y, Kind(y), NULL) \in Devices
  <2>1. y \in Partitions(x)
    <3>1. scan.at.parts \in Seq(Paths)
      BY ScanTypes
    <3>2. 1 \in DOMAIN scan.at.parts /\ y = scan.at.parts[1]
      BY <1>2, <1>5, <3>1
    <3> QED
      BY <1>3, <3>2
  <2>2. y \in Paths /\ DiskOf(y) = x /\ IsPartition(y)
    BY <1>3, <2>1, FamilyFacts
  <2>3. Recognised(y) /\ Enumerable(y)
    BY <1>1, <1>3, <1>5, <2>1, WantsFacts, DirectoryFacts
  <2>4. y \in Steady => y \in fromStart
    <3>1. x \in Paths /\ DiskOf(x) = x
      BY <1>3, FamilyFacts
    <3>2. y \in Steady => x \in Steady
      BY <2>2, <3>1 DEF Steady
    <3> QED
      BY <1>3, <2>2, <3>2 DEF WorldInv
  <2>5. PICK info \in Devices : /\ enumeration_add_device(info) /\ info.path = y /\ info.kind = Kind(y)
                                /\ info.content.sysfs = NULL
    BY <1>5 DEF Info
  <2> QED
    BY <1>1, <1>3, <2>2, <2>3, <2>4, <2>5, EnumAppend
<1> QED
  BY <1>2, <1>4, <1>5, ReadPartitionCases

LEMMA NextDirectoryEnum ==
    ASSUME TypeInv, WorldInv, ScanInv, EnumInv, ListInv, NextDirectory
    PROVE  EnumInv'
<1>1. pc = "scan" /\ UNCHANGED <<enumeration, media, fromStart, raced>>
  BY ScanStill DEF NextDirectory
<1>2. pc' = IF scan.directory = 3 THEN "list" ELSE "scan"
  BY NextDirectoryCases
<1>3. CASE pc' = "scan"
  BY <1>1, <1>3, EnumWorld
<1>4. CASE pc' # "scan"
  <2>1. pc' = "list" /\ scan.directory = 3
    BY <1>2, <1>4
  <2>2. media = <<>> /\ \A p : ~Has(media, p)
    <3>1. media = <<>>
      BY <1>1 DEF ListInv
    <3> QED
      BY <3>1 DEF Has
  <2>3. ASSUME NEW p \in fromStart
        PROVE  p \in Listed <=> Enumerable(p) /\ Recognised(p)
    <3>1. p \in Paths /\ DiskOf(p) \in Disks /\ DiskOf(p) \in fromStart
      BY <2>3, QueueTypes, KindFacts DEF WorldInv
    <3>2. p \in Listed <=> Has(enumeration, p)
      BY <2>2, <3>1 DEF Listed, InMedia, InEnum
    <3>3. Has(enumeration, p) => Enumerable(p) /\ Recognised(p)
      BY DEF EnumInv, Has
    <3>4. ASSUME Enumerable(p), Recognised(p)
          PROVE  Has(enumeration, p)
      <4>1. PICK d : d = DiskOf(p)
        OBVIOUS
      <4>2. PICK k \in 1..3 : Wants(k, d)
        BY <3>1, <3>4, <4>1, WantsFacts
      <4>3. k <= scan.directory
        BY <2>1, <4>2
      <4>4. Done(enumeration, d)
        BY <3>1, <4>1, <4>2, <4>3, NextDirectoryScan
      <4>5. CASE p = d
        BY <4>4, <4>5 DEF Done
      <4>6. CASE p # d
        <5>1. p \in Partitions(d)
          BY <3>1, <4>1, <4>6 DEF Partitions, DiskOf
        <5>2. d \in Numbered
          BY <3>1, <3>4, <4>1, <5>1, WantsFacts
        <5> QED
          BY <4>4, <5>1, <5>2 DEF Done
      <4> QED
        BY <4>5, <4>6
    <3> QED
      BY <3>2, <3>3, <3>4
  <2>4. Listed' = Listed
    BY <1>1 DEF Listed, InMedia, InEnum
  <2>5. ASSUME NEW i \in DOMAIN enumeration
        PROVE  LET p == enumeration[i].path
               IN  /\ enumeration[i].kind = Kind(p) /\ Recognised(p) /\ Enumerable(p) /\ ~Has(media, p)
                   /\ IsPartition(p) =>
                         /\ enumeration[i].content.sysfs = NULL
                         /\ \/ Has(media, DiskOf(p))
                            \/ \E j \in 1..(i - 1) : enumeration[j].path = DiskOf(p)
    BY <2>5 DEF EnumInv, InMedia
  <2>6. Distinct(enumeration)
    BY DEF EnumInv
  <2> QED
    BY <1>1, <2>1, <2>3, <2>4, <2>5, <2>6 DEF EnumInv, InMedia
<1> QED
  BY <1>3, <1>4

LEMMA AddEnumeratedEnum ==
    ASSUME TypeInv, EnumInv, AddEnumerated
    PROVE  EnumInv'
<1>1. pc = "list" /\ UNCHANGED <<fromStart, raced>> /\ GoodList(media')
  BY AddEnumeratedCases DEF world
<1>2. CASE enumeration = <<>>
  <2>1. pc' = "loop" /\ enumeration' = <<>> /\ enumeration = <<>> /\ media' = media
    BY <1>2, AddEnumeratedCases
  <2>2. DOMAIN enumeration' = {} /\ Listed' = Listed
    BY <2>1 DEF Listed, InMedia, InEnum
  <2>3. \A p \in fromStart : p \in Listed <=> Enumerable(p) /\ Recognised(p)
    BY <1>1 DEF EnumInv
  <2> QED
    BY <1>1, <2>1, <2>2, <2>3 DEF EnumInv, Distinct
<1>3. CASE enumeration # <<>>
  <2>1. pc' = "list"
    BY <1>3, AddEnumeratedCases
  <2>2. PICK info : info = Head(enumeration)
    OBVIOUS
  <2>3. /\ info = enumeration[1] /\ 1 \in DOMAIN enumeration
        /\ ~Has(enumeration', info.path)
        /\ \A q : Has(media', q) <=> Has(media, q) \/ q = info.path
        /\ \A i \in DOMAIN enumeration' :
              i \in Nat /\ i + 1 \in DOMAIN enumeration /\ enumeration'[i] = enumeration[i + 1]
        /\ Listed' = Listed
    BY <1>3, <2>2, MoveFacts
  <2>4. Distinct(enumeration')
    <3>1. \A i, j \in DOMAIN enumeration' : i + 1 = j + 1 => i = j
      BY <2>3
    <3> QED
      BY <2>3, <3>1 DEF EnumInv, Distinct
  <2>5. ASSUME NEW i \in DOMAIN enumeration'
        PROVE  LET p == enumeration'[i].path
               IN  /\ enumeration'[i].kind = Kind(p) /\ Recognised(p) /\ Enumerable(p) /\ ~Has(media', p)
                   /\ IsPartition(p) =>
                         /\ enumeration'[i].content.sysfs = NULL
                         /\ \/ Has(media', DiskOf(p))
                            \/ \E j \in 1..(i - 1) : enumeration'[j].path = DiskOf(p)
    <3>1. PICK p : p = enumeration'[i].path
      OBVIOUS
    <3>2. /\ i \in Nat /\ i + 1 \in DOMAIN enumeration /\ enumeration'[i] = enumeration[i + 1] /\ p # info.path
      BY <2>3, <2>5, <3>1 DEF Has
    <3>3. /\ enumeration[i + 1].kind = Kind(p) /\ Recognised(p) /\ Enumerable(p) /\ ~Has(media, p)
          /\ IsPartition(p) =>
                /\ enumeration[i + 1].content.sysfs = NULL
                /\ \/ Has(media, DiskOf(p))
                   \/ \E j \in 1..((i + 1) - 1) : enumeration[j].path = DiskOf(p)
      BY <3>1, <3>2 DEF EnumInv, InMedia
    <3>4. ASSUME NEW j \in 1..((i + 1) - 1), enumeration[j].path = DiskOf(p)
          PROVE  Has(media', DiskOf(p)) \/ \E k \in 1..(i - 1) : enumeration'[k].path = DiskOf(p)
      <4>1. CASE j = 1
        BY <2>3, <3>4, <4>1
      <4>2. CASE j # 1
        <5>1. j - 1 \in 1..(i - 1) /\ (j - 1) + 1 = j /\ j - 1 \in Nat
          BY <3>2, <4>2
        <5>2. j - 1 \in DOMAIN enumeration'
          <6>1. enumeration' \in Seq(Devices)
            BY <1>3, AddEnumeratedCases
          <6>2. Len(enumeration') \in Nat /\ DOMAIN enumeration' = 1..Len(enumeration')
            BY <6>1
          <6> QED
            BY <2>5, <5>1, <6>2
        <5> QED
          BY <2>3, <3>4, <5>1, <5>2
      <4> QED
        BY <4>1, <4>2
    <3> QED
      BY <2>3, <3>1, <3>2, <3>3, <3>4
  <2>6. \A p \in fromStart : p \in Listed <=> Enumerable(p) /\ Recognised(p)
    BY <1>1 DEF EnumInv
  <2> QED
    BY <1>1, <2>1, <2>3, <2>4, <2>5, <2>6 DEF EnumInv, InMedia
<1> QED
  BY <1>2, <1>3

LEMMA HandleEnum ==
    ASSUME TypeInv, WorldInv, ItemInv, ListInv, EnumInv, Handle
    PROVE  EnumInv'
<1>1. /\ pc = "loop" /\ pc' \in {"loop", "failed"} /\ UNCHANGED <<enumeration, fromStart, raced>> /\ queue # <<>>
      /\ (queue' = queue => media' = media) /\ enumeration = <<>>
  <2>1. queue \in Seq(Items) /\ queue # <<>> => Tail(queue) # queue
    <3>1. queue \in Seq(Items) /\ queue # <<>> => Len(Tail(queue)) = Len(queue) - 1 /\ Len(queue) \in Nat
      OBVIOUS
    <3>2. queue \in Seq(Items) /\ queue # <<>> => Len(Tail(queue)) # Len(queue)
      BY <3>1
    <3> QED
      BY <3>2
  <2>2. pc = "loop" => enumeration = <<>>
    BY DEF EnumInv
  <2> QED
    BY <2>1, <2>2, QueueTypes, HandleCases DEF world
<1>2. DOMAIN enumeration' = {} /\ DOMAIN enumeration = {} /\ Distinct(enumeration')
  BY <1>1 DEF Distinct
<1>3. ASSUME NEW p \in fromStart
      PROVE  p \in Listed' <=> p \in Listed
  <2>1. CASE queue' = queue
    BY <1>1, <2>1 DEF Listed, InMedia, InEnum
  <2>2. CASE queue' # queue
    <3>1. p \in Paths /\ DiskOf(p) \in fromStart /\ p \in Steady
      BY <1>3, QueueTypes DEF WorldInv
    <3>2. /\ Waiting[1] \in Events /\ Handled(Waiting[1], p, Listed, Listed')
          /\ \E f : Embeds(f, Waiting', Waiting, 1)
      BY <2>2, <3>1, HandledFacts DEF ListInv
    <3>3. 1 \in DOMAIN Waiting
      BY <3>2 DEF Embeds
    <3>4. /\ Adds(Waiting, p) = {} /\ Removes(Waiting, p) = {}
          /\ Adds(Waiting, DiskOf(p)) = {} /\ Removes(Waiting, DiskOf(p)) = {}
      BY <1>3, <3>1 DEF WorldInv
    <3>5. /\ Waiting[1] # Event("add", p) /\ Waiting[1] # Event("remove", p)
          /\ Waiting[1] # Event("remove", DiskOf(p))
      BY <3>3, <3>4 DEF Adds, Removes
    <3>6. \A a \in Actions, q \in Paths : Waiting[1].action = a /\ Waiting[1].path = q => Waiting[1] = Event(a, q)
      BY <3>2 DEF Events, Event
    <3>7. /\ Waiting[1].action = "add" => Waiting[1].path # p
          /\ Waiting[1].action = "remove" => Waiting[1].path # p /\ Waiting[1].path # DiskOf(p)
      BY <3>1, <3>5, <3>6, DiskFacts DEF Actions
    <3> QED
      BY <3>2, <3>7 DEF Handled
  <2> QED
    BY <2>1, <2>2
<1>4. \A p \in fromStart : p \in Listed <=> Enumerable(p) /\ Recognised(p)
  BY <1>1 DEF EnumInv
<1> QED
  BY <1>1, <1>2, <1>3, <1>4 DEF EnumInv

LEMMA EnumStep ==
    ASSUME TypeInv, WorldInv, ScanInv, ItemInv, ListInv, EnumInv, [Next]_vars
    PROVE  EnumInv'
<1>1. ASSUME NEW d \in Disks, Plug(d)
      PROVE  EnumInv'
  <2>1. UNCHANGED <<pc, media, enumeration, fromStart>> /\ raced \subseteq raced'
    BY <1>1, PlugFacts
  <2> QED
    BY <2>1, EnumWorld
<1>2. ASSUME NEW d \in Disks, Unplug(d)
      PROVE  EnumInv'
  <2>1. /\ UNCHANGED <<pc, media, enumeration>> /\ fromStart' = fromStart \ ({d} \cup Partitions(d))
        /\ raced' = IF pc = "scan" THEN raced \cup {d} ELSE raced
    BY <1>2, UnplugFacts
  <2>2. ASSUME pc = "scan", NEW p \in Steady', p \in fromStart
        PROVE  p \in fromStart'
    <3>1. p \in Paths /\ DiskOf(p) # d
      BY <2>1, <2>2 DEF Steady
    <3> QED
      BY <2>1, <2>2, <3>1, FamilyFacts
  <2> QED
    BY <2>1, <2>2, EnumWorld
<1>3. CASE UNCHANGED <<pc, media, enumeration, fromStart, raced>>
  BY <1>3, EnumWorld
<1>4. ASSUME NEW p \in Paths, Alter(p)
      PROVE  UNCHANGED <<pc, media, enumeration, fromStart, raced>>
  BY <1>4 DEF Alter
<1>5. CASE Receive
  BY <1>3, <1>5 DEF Receive
<1>6. CASE ReadParent \/ ReadMedium
  BY <1>3, <1>6 DEF ReadParent, ReadMedium, world
<1>7. ASSUME NEW d \in Disks, LookAt(d)
      PROVE  UNCHANGED <<pc, media, enumeration, fromStart, raced>>
  BY <1>7 DEF LookAt, world
<1>8. CASE Probe
  BY <1>3, <1>8 DEF Probe, world
<1>9. CASE UNCHANGED vars
  BY <1>3, <1>9 DEF vars, world
<1> QED
  BY <1>1, <1>2, <1>3, <1>4, <1>5, <1>6, <1>7, <1>8, <1>9, ReadDeviceEnum,
     ReadPartitionEnum, NextDirectoryEnum, AddEnumeratedEnum, HandleEnum
  DEF Next, Scan, Worker, Failed, Idle

\* Where the nodes come from that are in the list after Handle.
LEMMA HandleNodes ==
    ASSUME TypeInv, Handle
    PROVE  LET item == Head(queue)
           IN  /\ \A k \in DOMAIN media' :
                     \/ \E j \in DOMAIN media : /\ media'[k].path = media[j].path /\ media'[k].kind = media[j].kind
                                                /\ media'[k].content = media[j].content
                     \/ /\ media'[k].path = item.path /\ media'[k].content = item.content
                        /\ Known(item) /\ item.action # "remove" /\ queue' = Tail(queue)
                        /\ \/ item.action = "add" /\ media'[k].kind = item.kind
                           \/ \E j \in DOMAIN media : media[j].path = item.path /\ media'[k].kind = media[j].kind
               /\ \A q : Once(media, q) /\ (q = item.path /\ item.action = "add" => ~Has(media, q)) => Once(media', q)
               /\ Once(media, item.path) /\ item.action = "remove" => ~Has(media', item.path)
               /\ Once(media, item.path) /\ item.action = "change" /\ Known(item) /\ queue' # queue =>
                     \A k \in DOMAIN media' : media'[k].path = item.path => media'[k].content = item.content
<1>1. PICK item : item = Head(queue)
  OBVIOUS
<1>2. /\ item \in Items /\ queue # <<>>
      /\ \/ item.action = "change" /\ media' = media /\ queue' = queue
         \/ item.action = "change" /\ media' = media /\ ~Known(item)
         \/ queue' = Tail(queue) /\ item.action = "add" /\ media' = AddItem(media, item)
         \/ /\ queue' = Tail(queue) /\ item.action = "remove"
            /\ media' = IF find_media(media, item.path) = 0 THEN media ELSE remove_media(media, item.path)
         \/ /\ queue' = Tail(queue) /\ item.action = "change" /\ Known(item)
            /\ media' = change_media(media, item.path, item.kind, item.content)
  BY <1>1, HandleCases
<1>3. /\ item.path \in Paths /\ item.kind \in Kinds /\ item.content \in Contents /\ GoodList(media)
  BY <1>2, QueueTypes DEF Items
<1>4. CASE media' = media /\ item.action = "change" /\ (queue' = queue \/ ~Known(item))
  BY <1>1, <1>4
<1>5. CASE queue' = Tail(queue) /\ item.action = "add" /\ media' = AddItem(media, item)
  <2>1. LET r == AddItem(media, item)
        IN  /\ \A k \in DOMAIN r :
                  \/ r[k].path = item.path /\ r[k].kind = item.kind /\ r[k].content = item.content /\ Known(item)
                  \/ \E j \in DOMAIN media : r[k] = media[j]
            /\ \A q : Once(media, q) /\ (q = item.path => \A j \in DOMAIN media : media[j].path # q) => Once(r, q)
    BY <1>3, AddItemFacts
  <2>2. \A q : Once(media, q) /\ (q = item.path => ~Has(media, q)) => Once(media', q)
    BY <1>5, <2>1 DEF Has
  <2> QED
    BY <1>1, <1>5, <2>1, <2>2
<1>6. CASE /\ queue' = Tail(queue) /\ item.action = "remove"
           /\ media' = IF find_media(media, item.path) = 0 THEN media ELSE remove_media(media, item.path)
  <2>1. PICK q : q = item.path
    OBVIOUS
  <2>2. media' = IF find_media(media, q) = 0 THEN media ELSE remove_media(media, q)
    BY <1>6, <2>1
  <2>3. LET r == IF find_media(media, q) = 0 THEN media ELSE remove_media(media, q)
        IN  /\ \A k \in DOMAIN r : \E j \in DOMAIN media : r[k] = media[j]
            /\ \A x : Once(media, x) => Once(r, x)
            /\ Once(media, q) => \A k \in DOMAIN r : r[k].path # q
    BY <1>3, <2>1, RemoveItemFacts
  <2>4. /\ \A k \in DOMAIN media' : \E j \in DOMAIN media : media'[k] = media[j]
        /\ \A x : Once(media, x) => Once(media', x)
        /\ Once(media, q) => ~Has(media', q)
    BY <2>2, <2>3 DEF Has
  <2> QED
    BY <1>1, <1>6, <2>1, <2>4
<1>7. CASE /\ queue' = Tail(queue) /\ item.action = "change" /\ Known(item)
           /\ media' = change_media(media, item.path, item.kind, item.content)
  <2>1. /\ DOMAIN media' = DOMAIN media
        /\ \A i \in DOMAIN media :
              /\ media'[i].path = media[i].path /\ media'[i].kind = media[i].kind
              /\ media'[i].content = IF i = find_media(media, item.path) THEN item.content ELSE media[i].content
        /\ \A q : Once(media, q) => Once(media', q)
    BY <1>3, <1>7, ChangeItemFacts
  <2>2. \/ find_media(media, item.path) = 0 /\ \A k \in DOMAIN media : media[k].path # item.path
        \/ find_media(media, item.path) \in DOMAIN media /\ media[find_media(media, item.path)].path = item.path
    BY <1>3, FindFacts DEF GoodList
  <2>3. Once(media, item.path) =>
            \A k \in DOMAIN media' : media'[k].path = item.path => media'[k].content = item.content
    BY <2>1, <2>2 DEF Once
  <2>4. ASSUME NEW k \in DOMAIN media'
        PROVE  \/ \E j \in DOMAIN media : /\ media'[k].path = media[j].path /\ media'[k].kind = media[j].kind
                                          /\ media'[k].content = media[j].content
               \/ /\ media'[k].path = item.path /\ media'[k].content = item.content
                  /\ \E j \in DOMAIN media : media[j].path = item.path /\ media'[k].kind = media[j].kind
    <3>1. CASE k = find_media(media, item.path)
      <4>1. k \in DOMAIN media /\ k # 0
        BY <1>3, <2>1, <2>4, SequenceFacts DEF GoodList
      <4>2. media[k].path = item.path
        BY <2>2, <3>1, <4>1
      <4> QED
        BY <2>1, <3>1, <4>1, <4>2
    <3>2. CASE k # find_media(media, item.path)
      BY <2>1, <2>4, <3>2
    <3> QED
      BY <3>1, <3>2
  <2> QED
    BY <1>1, <1>7, <2>1, <2>3, <2>4
<1> QED
  BY <1>2, <1>4, <1>5, <1>6, <1>7

\* What is added is not there yet.
LEMMA AddsNew ==
    ASSUME TypeInv, WaitInv, queue # <<>>, Head(queue).action = "add", Head(queue).path \in Steady
    PROVE  ~Has(media, Head(queue).path) /\ ~Has(enumeration, Head(queue).path)
<1>1. PICK p : p = Head(queue).path
  OBVIOUS
<1>2. queue \in Seq(Items) /\ reading \in Readings \cup {NULL} /\ unread \in Seq(Events)
  BY QueueTypes
<1>3. 1 \in DOMAIN queue /\ Head(queue) = queue[1]
  BY <1>2
<1>4. Waiting[1] = Event("add", p) /\ DOMAIN Waiting \subseteq Nat \ {0} /\ 1 \in DOMAIN Waiting
  <2>1. LET w == WaitingOf(queue, reading, unread)
            x == UnpostedOf(reading, unread)
        IN  /\ Len(queue) \in Nat /\ Len(x) \in Nat /\ DOMAIN queue = 1..Len(queue)
            /\ DOMAIN w = 1..(Len(queue) + Len(x))
            /\ \A i \in DOMAIN queue : w[i] = Event(queue[i].action, queue[i].path)
    BY <1>2, WaitingFacts
  <2>2. PICK n \in Nat : DOMAIN Waiting = 1..n /\ Len(queue) <= n
    BY <2>1 DEF Waiting
  <2>3. Len(queue) \in Nat /\ DOMAIN queue = 1..Len(queue)
    BY <2>1
  <2>4. 1 \in DOMAIN Waiting /\ DOMAIN Waiting \subseteq Nat \ {0}
    BY <1>3, <2>2, <2>3
  <2>5. Waiting[1] = Event("add", p)
    BY <1>1, <1>3, <2>1 DEF Waiting
  <2> QED
    BY <2>4, <2>5
<1>5. p \in Listed => NotTwice(Waiting, p)
  BY <1>1 DEF WaitInv, Agrees
<1>6. ~NotTwice(Waiting, p)
  <2>1. 1 \in Adds(Waiting, p)
    BY <1>4 DEF Adds
  <2>2. \A k \in Removes(Waiting, p) : ~(k < 1)
    BY <1>4 DEF Removes
  <2> QED
    BY <2>1, <2>2 DEF NotTwice
<1> QED
  BY <1>1, <1>5, <1>6 DEF Listed, Steady, InMedia, InEnum

LEMMA ListStep ==
    ASSUME TypeInv, ItemInv, WaitInv, ListInv, EnumInv, [Next]_vars
    PROVE  ListInv'
<1>1. ASSUME media' = media, raced \subseteq raced', pc' = "scan" => pc = "scan"
      PROVE  ListInv'
  <2>1. Steady' \subseteq Steady
    BY <1>1 DEF Steady
  <2> QED
    BY <1>1, <2>1 DEF ListInv
<1>2. ASSUME NEW d \in Disks, Plug(d) \/ Unplug(d)
      PROVE  ListInv'
  <2>1. UNCHANGED <<media, pc>> /\ raced \subseteq raced'
    BY <1>2, PlugFacts, UnplugFacts
  <2> QED
    BY <1>1, <2>1
<1>3. ASSUME NEW p \in Paths, Alter(p)
      PROVE  ListInv'
  BY <1>1, <1>3, AlterFacts
<1>4. ASSUME \/ \E d \in Disks : LookAt(d)
             \/ ReadDevice \/ Probe \/ ReadPartition \/ NextDirectory
      PROVE  ListInv'
  BY <1>1, <1>4, ScanStill
<1>5. CASE Receive
  BY <1>1, <1>5, ReceiveCases
<1>6. CASE ReadParent \/ ReadMedium
  <2>1. UNCHANGED <<world, media, pc>>
    BY <1>6 DEF ReadParent, ReadMedium
  <2> QED
    BY <1>1, <2>1 DEF world
<1>7. CASE AddEnumerated
  <2>1. UNCHANGED world /\ pc' # "scan"
    BY <1>7, AddEnumeratedCases
  <2>2. Steady' = Steady
    BY <2>1 DEF world, Steady
  <2>3. CASE enumeration = <<>>
    BY <1>1, <1>7, <2>1, <2>3, AddEnumeratedCases DEF world
  <2>4. CASE enumeration # <<>>
    <3>1. PICK info : info = Head(enumeration)
      OBVIOUS
    <3>2. /\ info.kind = Kind(info.path) /\ Recognised(info.path)
          /\ IsPartition(info.path) => info.content.sysfs = NULL
          /\ \A k \in DOMAIN media' :
                \/ media'[k].path = info.path /\ media'[k].kind = info.kind /\ media'[k].content = info.content
                \/ \E j \in DOMAIN media : media'[k] = media[j]
          /\ \A q : Once(media, q) => Once(media', q)
      BY <1>7, <2>4, <3>1, MoveFacts
    <3> QED
      BY <2>1, <2>2, <3>2 DEF ListInv
  <2> QED
    BY <2>3, <2>4
<1>8. CASE Handle
  <2>1. PICK item : item = Head(queue)
    OBVIOUS
  <2>2. /\ item \in Items /\ item = queue[1] /\ 1 \in DOMAIN queue /\ pc' # "scan" /\ UNCHANGED world /\ queue # <<>>
    BY <1>8, <2>1, HandleCases
  <2>3. Steady' = Steady
    BY <2>2 DEF world, Steady
  <2>4. /\ Known(item) => item.kind = Kind(item.path)
        /\ IsPartition(item.path) => item.content.sysfs = NULL
    BY <2>2 DEF ItemInv
  <2>5. Known(item) => Recognised(item.path)
    BY <2>2, <2>4, KindFacts DEF Known, Items
  <2>6. /\ \A k \in DOMAIN media' :
              \/ \E j \in DOMAIN media : /\ media'[k].path = media[j].path /\ media'[k].kind = media[j].kind
                                         /\ media'[k].content = media[j].content
              \/ /\ media'[k].path = item.path /\ media'[k].content = item.content
                 /\ Known(item)
                 /\ \/ item.action = "add" /\ media'[k].kind = item.kind
                    \/ \E j \in DOMAIN media : media[j].path = item.path /\ media'[k].kind = media[j].kind
        /\ \A q : Once(media, q) /\ (q = item.path /\ item.action = "add" => ~Has(media, q)) => Once(media', q)
    BY <1>8, <2>1, HandleNodes
  <2>7. \A q \in Steady : q = item.path /\ item.action = "add" => ~Has(media, q)
    BY <2>1, <2>2, AddsNew
  <2>8. \A q \in Steady : Once(media', q)
    BY <2>6, <2>7 DEF ListInv
  <2>9. ASSUME NEW k \in DOMAIN media'
        PROVE  /\ media'[k].kind = Kind(media'[k].path) /\ Recognised(media'[k].path)
               /\ IsPartition(media'[k].path) => media'[k].content.sysfs = NULL
    BY <2>4, <2>5, <2>6, <2>9 DEF ListInv
  <2> QED
    BY <2>2, <2>3, <2>8, <2>9 DEF ListInv
<1>9. CASE UNCHANGED vars
  BY <1>1, <1>9 DEF vars, world
<1> QED
  BY <1>2, <1>3, <1>4, <1>5, <1>6, <1>7, <1>8, <1>9 DEF Next, Scan, Worker, Failed, Idle

(***************************************************************************)
(* The waiting events agree with the list and the world.                   *)
(***************************************************************************)
LEMMA WaitStep ==
    ASSUME TypeInv, WorldInv, ItemInv, WaitInv, ListInv, EnumInv, EnumInv', [Next]_vars
    PROVE  WaitInv'
<1>0. Steady \subseteq Paths /\ \A p \in Steady : DiskOf(p) \in Paths /\ DiskOf(p) \in Steady
  BY DiskFacts DEF Steady, DiskOf
<1>1. ASSUME Waiting' = Waiting, UNCHANGED <<attached, fromStart, raced>>, Listed' = Listed
      PROVE  WaitInv'
  <2>1. Steady' = Steady
    BY <1>1 DEF Steady
  <2> QED
    BY <1>1, <2>1 DEF WaitInv
<1>2. ASSUME NEW d \in Disks, Plug(d)
      PROVE  WaitInv'
  <2>1. /\ d \notin attached /\ attached' = attached \cup ({d} \cup Partitions(d))
        /\ fromStart' = fromStart /\ UNCHANGED <<enumeration, media>> /\ raced \subseteq raced'
    BY <1>2, PlugFacts
  <2>2. PICK ev \in Seq(Events) :
            /\ Grows(Waiting', Waiting, ev)
            /\ 1 \in DOMAIN ev /\ ev[1] = Event("add", d)
            /\ \A j \in DOMAIN ev : ev[j].action = "add" /\ ev[j].path \in {d} \cup Partitions(d)
            /\ \A p \in {d} \cup Partitions(d) : \E j \in DOMAIN ev : ev[j] = Event("add", p)
            /\ \A i, j \in DOMAIN ev : ev[i] = ev[j] => i = j
    BY <1>2, PlugFacts
  <2>3. Steady' \subseteq Steady /\ Listed' = Listed
    BY <2>1 DEF Steady, Listed, InMedia, InEnum
  <2>4. ASSUME NEW p \in Steady
        PROVE  Agrees(Waiting', p, attached', fromStart, Listed)
    <3>1. p \in Paths /\ Agrees(Waiting, p, attached, fromStart, Listed)
      BY <1>0, <2>4 DEF WaitInv
    <3>2. p \in {d} \cup Partitions(d) <=> DiskOf(p) = d
      BY <3>1, FamilyFacts
    <3>3. CASE DiskOf(p) = d
      <4>1. p \notin attached /\ p \in attached'
        BY <2>1, <3>1, <3>2, <3>3 DEF WorldInv
      <4>2. ev[1] = Event("add", DiskOf(p)) /\ \E j \in DOMAIN ev : ev[j] = Event("add", p)
        BY <2>2, <3>2, <3>3
      <4> QED
        BY <2>2, <3>1, <4>1, <4>2, FitsPlug
    <3>4. CASE DiskOf(p) # d
      <4>1. p \in attached <=> p \in attached'
        BY <2>1, <3>2, <3>4
      <4>2. DiskOf(p) \notin {d} \cup Partitions(d)
        <5>1. DiskOf(DiskOf(p)) = DiskOf(p) /\ DiskOf(p) \in Paths
          BY <1>0, <2>4, DiskFacts DEF DiskOf
        <5> QED
          BY <3>4, <5>1, FamilyFacts
      <4>3. \A j \in DOMAIN ev : ev[j].path # p /\ ev[j].path # DiskOf(p)
        BY <2>2, <3>2, <3>4, <4>2
      <4> QED
        BY <2>2, <3>1, <4>1, <4>3, FitsOther
    <3> QED
      BY <3>3, <3>4
  <2> QED
    BY <2>1, <2>3, <2>4 DEF WaitInv
<1>3. ASSUME NEW d \in Disks, Unplug(d)
      PROVE  WaitInv'
  <2>1. /\ d \in attached /\ attached' = attached \ ({d} \cup Partitions(d))
        /\ fromStart' = fromStart \ ({d} \cup Partitions(d))
        /\ UNCHANGED <<enumeration, media>> /\ raced \subseteq raced'
    BY <1>3, UnplugFacts
  <2>2. PICK ev \in Seq(Events) :
            /\ Grows(Waiting', Waiting, ev)
            /\ \A j \in DOMAIN ev : ev[j].action = "remove" /\ ev[j].path \in {d} \cup Partitions(d)
            /\ \A p \in {d} \cup Partitions(d) : \E j \in DOMAIN ev : ev[j] = Event("remove", p)
    BY <1>3, UnplugFacts
  <2>3. Steady' \subseteq Steady /\ Listed' = Listed
    BY <2>1 DEF Steady, Listed, InMedia, InEnum
  <2>4. ASSUME NEW p \in Steady
        PROVE  Agrees(Waiting', p, attached', fromStart', Listed)
    <3>1. p \in Paths /\ Agrees(Waiting, p, attached, fromStart, Listed)
      BY <1>0, <2>4 DEF WaitInv
    <3>2. p \in {d} \cup Partitions(d) <=> DiskOf(p) = d
      BY <3>1, FamilyFacts
    <3>3. CASE DiskOf(p) = d
      <4>1. p \in attached /\ p \notin attached'
        BY <2>1, <3>1, <3>2, <3>3 DEF WorldInv
      <4>2. \E j \in DOMAIN ev : ev[j] = Event("remove", p)
        BY <2>2, <3>2, <3>3
      <4> QED
        BY <2>2, <3>1, <4>1, <4>2, FitsUnplug
    <3>4. CASE DiskOf(p) # d
      <4>1. (p \in attached <=> p \in attached') /\ (p \in fromStart <=> p \in fromStart')
        BY <2>1, <3>2, <3>4
      <4>2. DiskOf(p) \notin {d} \cup Partitions(d)
        <5>1. DiskOf(DiskOf(p)) = DiskOf(p) /\ DiskOf(p) \in Paths
          BY <1>0, <2>4, DiskFacts DEF DiskOf
        <5> QED
          BY <3>4, <5>1, FamilyFacts
      <4>3. \A j \in DOMAIN ev : ev[j].path # p /\ ev[j].path # DiskOf(p)
        BY <2>2, <3>2, <3>4, <4>2
      <4> QED
        BY <2>2, <3>1, <4>1, <4>3, FitsOther
    <3> QED
      BY <3>3, <3>4
  <2> QED
    BY <2>1, <2>3, <2>4 DEF WaitInv
<1>4. ASSUME NEW q \in Paths, Alter(q)
      PROVE  WaitInv'
  <2>1. PICK ev : ev = <<Event("change", q)>>
    OBVIOUS
  <2>2. /\ q \in attached /\ UNCHANGED <<attached, fromStart, raced, enumeration, media>>
        /\ Grows(Waiting', Waiting, ev) /\ DOMAIN ev = {1} /\ ev[1] = Event("change", q)
    BY <1>4, <2>1, AlterFacts
  <2>3. Steady' = Steady /\ Listed' = Listed
    BY <2>2 DEF Steady, Listed, InMedia, InEnum
  <2>4. \A j \in DOMAIN ev : ev[j].action = "change" /\ ev[j].path = q
    BY <2>2 DEF Event
  <2>5. ASSUME NEW p \in Steady
        PROVE  Agrees(Waiting', p, attached, fromStart, Listed)
    <3>1. Agrees(Waiting, p, attached, fromStart, Listed)
      BY <2>5 DEF WaitInv
    <3>2. \A j \in DOMAIN ev : ev[j].action = "change" /\ (ev[j].path = p => p \in attached)
      BY <2>2, <2>4
    <3> QED
      BY <2>2, <3>1, <3>2, FitsOther
  <2> QED
    BY <2>2, <2>3, <2>5 DEF WaitInv
\* In the enumeration, only devices that are there are found.
<1>5. CASE ReadDevice \/ ReadPartition
  <2>1. pc = "scan" /\ pc' = "scan" /\ UNCHANGED <<attached, fromStart, raced, media>> /\ Waiting' = Waiting
    <3>1. pc = "scan" /\ UNCHANGED <<attached, fromStart, raced, media>> /\ Waiting' = Waiting
      BY <1>5, ScanStill
    <3> QED
      BY <1>5, <3>1 DEF ReadDevice, ReadPartition
  <2>2. Steady' = Steady
    BY <2>1 DEF Steady
  <2>3. ASSUME NEW p \in Steady
        PROVE  Agrees(Waiting, p, attached, fromStart, Listed')
    <3>1. /\ p \in attached => p \in fromStart
          /\ Adds(Waiting, p) = {} /\ Removes(Waiting, p) = {} /\ Removes(Waiting, DiskOf(p)) = {}
      BY <1>0, <2>1, <2>3 DEF WorldInv
    <3>2. Agrees(Waiting, p, attached, fromStart, Listed)
      BY <2>3 DEF WaitInv
    <3>3. p \in Listed' => p \in attached
      <4>1. media' = <<>>
        BY <2>1 DEF ListInv
      <4>2. p \in Listed' => \E i \in DOMAIN enumeration' : enumeration'[i].path = p
        BY <4>1 DEF Listed, InMedia, InEnum, Has
      <4>3. \A i \in DOMAIN enumeration' : enumeration'[i].path \in Steady => enumeration'[i].path \in fromStart
        BY <2>1, <2>2 DEF EnumInv
      <4> QED
        BY <2>3, <4>2, <4>3, QueueTypes
    <3>4. /\ ComesBack(Waiting, p) /\ OneByOne(Waiting, p) /\ NotTwice(Waiting, p)
          /\ ParentFirst(Waiting, p, Listed')
      BY <3>1 DEF ComesBack, OneByOne, NotTwice, ParentFirst
    <3>5. p \notin attached => GoesAway(Waiting, p)
      BY <3>2 DEF Agrees
    <3> QED
      BY <3>1, <3>3, <3>4, <3>5 DEF Agrees
  <2> QED
    BY <2>1, <2>2, <2>3 DEF WaitInv
<1>6. ASSUME \/ \E d \in Disks : LookAt(d)
             \/ Probe \/ NextDirectory
      PROVE  WaitInv'
  <2>1. UNCHANGED <<attached, fromStart, raced, media>> /\ Waiting' = Waiting
    BY <1>6, ScanStill
  <2>2. enumeration' = enumeration
    BY <1>6 DEF LookAt, Probe, NextDirectory
  <2>3. Listed' = Listed
    BY <2>1, <2>2 DEF Listed, InMedia, InEnum
  <2> QED
    BY <1>1, <2>1, <2>3
<1>7. CASE AddEnumerated
  <2>1. UNCHANGED <<attached, fromStart, raced, unread, reading, queue>>
    BY <1>7, AddEnumeratedCases DEF world
  <2>2. Listed' = Listed
    <3>1. CASE enumeration = <<>>
      BY <1>7, <3>1, AddEnumeratedCases DEF Listed, InMedia, InEnum
    <3>2. CASE enumeration # <<>>
      BY <1>7, <3>2, MoveFacts
    <3> QED
      BY <3>1, <3>2
  <2> QED
    BY <1>1, <2>1, <2>2, SameWaiting
<1>8. CASE Receive
  <2>1. UNCHANGED <<attached, fromStart, raced, enumeration, media>>
    BY <1>8, ReceiveCases
  <2>2. Listed' = Listed /\ Steady' = Steady
    BY <2>1 DEF Listed, InMedia, InEnum, Steady
  <2>3. CASE Waiting' = Waiting
    BY <1>1, <2>1, <2>2, <2>3
  <2>4. CASE Waiting' # Waiting
    <3>1. PICK e \in Events : /\ e = Head(unread) /\ reading = NULL /\ unread # <<>> /\ unread' = Tail(unread)
                              /\ reading' = NULL /\ queue' = queue /\ e.action = "add" /\ e.path \notin attached
      BY <1>8, <2>4, ReceiveCases
    <3>2. Waiting[Len(queue) + 1] = e /\ \E f : Embeds(f, Waiting', Waiting, Len(queue) + 1)
      BY <3>1, DropStep
    <3>3. e = Event("add", e.path)
      BY <3>1 DEF Events, Event
    <3>4. PICK f, k, x : Embeds(f, Waiting', Waiting, k) /\ Waiting[k] = Event("add", x) /\ x \notin attached
      BY <3>1, <3>2, <3>3
    <3>5. ASSUME NEW p \in Steady
          PROVE  Agrees(Waiting', p, attached, fromStart, Listed)
      <4>1. Agrees(Waiting, p, attached, fromStart, Listed) /\ (p \in attached /\ IsPartition(p) => DiskOf(p) \in attached)
        BY <1>0, <3>5 DEF WaitInv, WorldInv
      <4> QED
        BY <3>4, <4>1, FitsDrop
    <3> QED
      BY <2>1, <2>2, <3>5 DEF WaitInv
  <2> QED
    BY <2>3, <2>4
<1>9. CASE ReadParent \/ ReadMedium
  <2>1. Waiting' = Waiting /\ UNCHANGED <<world, enumeration, media>>
    BY <1>9, ReadParentCases, ReadMediumCases
  <2>2. UNCHANGED <<attached, fromStart, raced>> /\ Listed' = Listed
    BY <2>1 DEF world, Listed, InMedia, InEnum
  <2> QED
    BY <1>1, <2>1, <2>2
<1>10. CASE Handle
  <2>1. UNCHANGED <<world, reading, enumeration>> /\ (queue' = queue => media' = media)
    <3>1. queue # <<>> /\ queue \in Seq(Items)
      BY <1>10, HandleCases, QueueTypes
    <3>2. Tail(queue) # queue
      <4>1. Len(Tail(queue)) = Len(queue) - 1 /\ Len(queue) \in Nat
        BY <3>1
      <4>2. Len(Tail(queue)) # Len(queue)
        BY <4>1
      <4> QED
        BY <4>2
    <3> QED
      BY <1>10, <3>2, HandleCases
  <2>2. UNCHANGED <<attached, fromStart, raced, unread, reading>>
    BY <2>1 DEF world
  <2>3. CASE queue' = queue
    <3>1. Listed' = Listed
      BY <2>1, <2>3 DEF Listed, InMedia, InEnum
    <3> QED
      BY <1>1, <2>2, <2>3, <3>1, SameWaiting
  <2>4. CASE queue' # queue
    <3>1. Steady' = Steady
      BY <2>2 DEF Steady
    <3>2. ASSUME NEW p \in Steady
          PROVE  Agrees(Waiting', p, attached, fromStart, Listed')
      <4>1. p \in Paths /\ Once(media, p) /\ Agrees(Waiting, p, attached, fromStart, Listed)
        BY <1>0, <3>2 DEF ListInv, WaitInv
      <4>2. /\ Waiting[1] \in Events /\ Handled(Waiting[1], p, Listed, Listed')
            /\ \E f : Embeds(f, Waiting', Waiting, 1)
        BY <1>10, <2>4, <4>1, HandledFacts
      <4>3. PICK f : Embeds(f, Waiting', Waiting, 1)
        BY <4>2
      <4> QED
        BY <4>1, <4>2, <4>3, FitsPop
    <3> QED
      BY <2>2, <3>1, <3>2 DEF WaitInv
  <2> QED
    BY <2>3, <2>4
<1>11. CASE UNCHANGED vars
  <2>1. UNCHANGED <<attached, fromStart, raced, unread, reading, queue, media, enumeration>>
    BY <1>11 DEF vars, world
  <2>2. Listed' = Listed
    BY <2>1 DEF Listed, InMedia, InEnum
  <2> QED
    BY <1>1, <2>1, <2>2, SameWaiting
<1> QED
  BY <1>2, <1>3, <1>4, <1>5, <1>6, <1>7, <1>8, <1>9, <1>10, <1>11 DEF Next, Scan, Worker, Failed, Idle

(***************************************************************************)
(* What is told last is what is there.                                     *)
(***************************************************************************)
\* Something else is posted.
LEMMA FreshOther ==
    ASSUME NEW q, Sequence(q), NEW item, NEW p, ~Tells(item, p), NEW e, NEW m, NEW st, NEW fs,
           Fresh(p, q, e, m, st, fs)
    PROVE  Fresh(p, Append(q, item), e, m, st, fs)
<1> DEFINE r == Append(q, item)
           n == Len(q) + 1
<1>1. /\ \A i \in DOMAIN q : r[i] = q[i] /\ i \in DOMAIN r
      /\ r[n] = item
      /\ \A i \in DOMAIN r : i \in DOMAIN q \/ i = n
  <2>1. DOMAIN q = 1..Len(q) /\ Len(q) \in Nat /\ DOMAIN r = 1..(Len(q) + 1)
    BY SequenceFacts, AppendFacts
  <2>2. \A i \in DOMAIN q : i \in DOMAIN r
    BY <2>1
  <2> QED
    BY <2>2, AppendFacts
<1> HIDE DEF r, n
<1>2. ASSUME NEW i \in DOMAIN r, Tells(r[i], p)
      PROVE  i \in DOMAIN q /\ r[i] = q[i]
  BY <1>1, <1>2
<1>3. Told(q, p) <=> Told(r, p)
  BY <1>1, <1>2 DEF Told
<1>4. ASSUME NEW i \in DOMAIN r, Tells(r[i], p), \A j \in DOMAIN r : Tells(r[j], p) => j <= i
      PROVE  r[i].content.state = st /\ r[i].content.fstype = fs
  <2>1. i \in DOMAIN q /\ r[i] = q[i] /\ \A j \in DOMAIN q : Tells(q[j], p) => j <= i
    BY <1>1, <1>2, <1>4
  <2> QED
    BY <1>4, <2>1 DEF Fresh
<1>5. Fresh(p, r, e, m, st, fs)
  BY <1>3, <1>4 DEF Fresh
<1> QED
  BY <1>5 DEF r

\* What has just been read is posted.
LEMMA FreshRead ==
    ASSUME NEW q, Sequence(q), NEW item, NEW p, Tells(item, p), NEW e, NEW m, NEW st, NEW fs,
           item.content.state = st, item.content.fstype = fs
    PROVE  Fresh(p, Append(q, item), e, m, st, fs)
<1> DEFINE r == Append(q, item)
           n == Len(q) + 1
<1>1. DOMAIN q = 1..Len(q) /\ Len(q) \in Nat /\ DOMAIN r = 1..(Len(q) + 1) /\ r[n] = item
  BY SequenceFacts, AppendFacts
<1>2. n \in DOMAIN r /\ \A i \in DOMAIN r : n <= i => i = n
  BY <1>1
<1> HIDE DEF r, n
<1>3. Told(r, p)
  BY <1>1, <1>2 DEF Told
<1>4. Fresh(p, r, e, m, st, fs)
  BY <1>1, <1>2, <1>3 DEF Fresh
<1> QED
  BY <1>4 DEF r

\* The first item goes to the list.
LEMMA FreshPop ==
    ASSUME NEW q, Sequence(q), q # <<>>, NEW p, NEW e, DOMAIN e = {}, NEW m, NEW r, NEW st, NEW fs,
           Fresh(p, q, e, m, st, fs),
           \A k \in DOMAIN r : r[k].path = p =>
               \/ Tells(q[1], p) /\ r[k].content = q[1].content
               \/ ~Tells(q[1], p) /\ \E j \in DOMAIN m : m[j].path = p /\ r[k].content = m[j].content
    PROVE  Fresh(p, Tail(q), e, r, st, fs)
<1> DEFINE t == Tail(q)
<1>1. /\ 1 \in DOMAIN q /\ \A i \in DOMAIN t : i \in Nat /\ i + 1 \in DOMAIN q /\ t[i] = q[i + 1]
      /\ \A i \in DOMAIN q : i \in Nat /\ (i = 1 \/ (i - 1 \in DOMAIN t /\ t[i - 1] = q[i]))
  <2>1. q \in Seq(ToSet(q))
    BY DEF Sequence
  <2>2. Len(q) \in Nat /\ DOMAIN q = 1..Len(q) /\ DOMAIN t = 1..(Len(q) - 1) /\ Len(q) # 0
    BY <2>1, EmptySeq
  <2>3. /\ 1 \in DOMAIN q /\ \A i \in DOMAIN t : i + 1 \in DOMAIN q /\ t[i] = q[i + 1]
    BY TailFacts
  <2>4. \A i \in DOMAIN q : i \in Nat /\ (i = 1 \/ (i - 1 \in DOMAIN t /\ (i - 1) + 1 = i))
    BY <2>2
  <2>5. \A i \in DOMAIN t : i \in Nat
    BY <2>2
  <2> QED
    BY <2>3, <2>4, <2>5
<1> HIDE DEF t
<1>2. ASSUME NEW i \in DOMAIN t, Tells(t[i], p), \A j \in DOMAIN t : Tells(t[j], p) => j <= i
      PROVE  t[i].content.state = st /\ t[i].content.fstype = fs
  <2>1. ASSUME NEW j \in DOMAIN q, Tells(q[j], p)
        PROVE  j <= i + 1
    <3>1. CASE j = 1
      BY <1>1, <3>1
    <3>2. CASE j # 1
      <4>1. j - 1 \in DOMAIN t /\ Tells(t[j - 1], p)
        BY <1>1, <2>1, <3>2
      <4>2. j - 1 <= i /\ j \in Nat /\ i \in Nat
        BY <1>1, <1>2, <4>1
      <4> QED
        BY <4>2
    <3> QED
      BY <3>1, <3>2
  <2>2. i + 1 \in DOMAIN q /\ t[i] = q[i + 1]
    BY <1>1
  <2> QED
    BY <1>2, <2>1, <2>2 DEF Fresh
<1>3. ASSUME ~Told(t, p), NEW k \in DOMAIN r, r[k].path = p
      PROVE  r[k].content.state = st /\ r[k].content.fstype = fs
  <2>1. CASE Tells(q[1], p)
    <3>1. \A j \in DOMAIN q : Tells(q[j], p) => j <= 1
      BY <1>1, <1>3 DEF Told
    <3>2. q[1].content.state = st /\ q[1].content.fstype = fs
      BY <1>1, <2>1, <3>1 DEF Fresh
    <3> QED
      BY <1>3, <2>1, <3>2
  <2>2. CASE ~Tells(q[1], p)
    <3>1. ~Told(q, p) /\ ~Has(e, p)
      BY <1>1, <1>3, <2>2 DEF Told, Has
    <3> QED
      BY <1>3, <2>2, <3>1 DEF Fresh
  <2> QED
    BY <2>1, <2>2
<1>4. Fresh(p, t, e, r, st, fs)
  BY <1>2, <1>3 DEF Fresh
<1> QED
  BY <1>4 DEF t

\* What blkid finds changes only with the medium, and when the device comes or goes.
LEMMA BlkidSame ==
    ASSUME NEW p \in Paths, p \in attached <=> p \in attached', medium'[p] = medium[p]
    PROVE  BlkidState(p)' = BlkidState(p) /\ BlkidType(p)' = BlkidType(p)
  BY DEF BlkidState, BlkidType

LEMMA FreshStep ==
    ASSUME TypeInv, WorldInv, ItemInv, WaitInv, ListInv, EnumInv, ScanInv, FreshInv,
           ItemInv', ListInv', EnumInv', TypeInv', [Next]_vars
    PROVE  FreshInv'
<1>0. /\ attached \subseteq Paths /\ queue \in Seq(Items) /\ Sequence(queue) /\ unread \in Seq(Events)
      /\ NULL \notin Readings
  BY QueueTypes, SequenceOf
\* Nothing happens to p: it is as much due as before.
<1>1. ASSUME raced \subseteq raced', NEW p \in Steady', p \in attached', p \in attached, medium'[p] = medium[p],
             UNCHANGED <<queue, enumeration, media>>, Due(Unposted, p) => Due(Unposted', p), ~Due(Unposted', p)
      PROVE  Fresh(p, queue', enumeration', media', BlkidState(p)', BlkidType(p)')
  <2>1. p \in Steady /\ p \in Paths
    BY <1>1 DEF Steady
  <2>2. Fresh(p, queue, enumeration, media, BlkidState(p), BlkidType(p))
    BY <1>1, <2>1 DEF FreshInv
  <2>3. BlkidState(p)' = BlkidState(p) /\ BlkidType(p)' = BlkidType(p)
    BY <1>1, <2>1, BlkidSame
  <2> QED
    BY <1>1, <2>2, <2>3
<1>2. ASSUME NEW ev, Grows(Unposted', Unposted, ev), NEW p
      PROVE  /\ Due(Unposted, p) => Due(Unposted', p)
             /\ (\E j \in DOMAIN ev : ev[j].path = p /\ ev[j].action # "remove") => Due(Unposted', p)
  <2>1. /\ \A i \in DOMAIN Unposted : i \in DOMAIN Unposted' /\ Unposted'[i] = Unposted[i]
        /\ \A j \in DOMAIN ev : Len(Unposted) + j \in DOMAIN Unposted' /\ Unposted'[Len(Unposted) + j] = ev[j]
    BY <1>2, GrowPlaces
  <2> QED
    BY <2>1 DEF Due
<1>3. ASSUME NEW d \in Disks, Plug(d)
      PROVE  FreshInv'
  <2>1. /\ attached' = attached \cup ({d} \cup Partitions(d)) /\ medium' = medium
        /\ UNCHANGED <<queue, enumeration, media>> /\ raced \subseteq raced'
    BY <1>3, PlugFacts
  <2>2. PICK ev : /\ Grows(Unposted', Unposted, ev)
                  /\ \A p \in {d} \cup Partitions(d) : \E j \in DOMAIN ev : ev[j] = Event("add", p)
    BY <1>3, PlugFacts
  <2>3. ASSUME NEW p \in Steady' \cap attached', ~Due(Unposted', p)
        PROVE  Fresh(p, queue', enumeration', media', BlkidState(p)', BlkidType(p)')
    <3>1. p \notin {d} \cup Partitions(d)
      BY <1>2, <2>2, <2>3 DEF Event
    <3>2. p \in attached /\ medium'[p] = medium[p]
      BY <2>1, <2>3, <3>1
    <3>3. Due(Unposted, p) => Due(Unposted', p)
      BY <1>2, <2>2
    <3> QED
      BY <1>1, <2>1, <2>3, <3>2, <3>3
  <2> QED
    BY <2>3 DEF FreshInv
<1>4. ASSUME NEW d \in Disks, Unplug(d)
      PROVE  FreshInv'
  <2>1. /\ attached' = attached \ ({d} \cup Partitions(d)) /\ medium' = medium
        /\ UNCHANGED <<queue, enumeration, media>> /\ raced \subseteq raced'
    BY <1>4, UnplugFacts
  <2>2. PICK ev : Grows(Unposted', Unposted, ev)
    BY <1>4, UnplugFacts
  <2>3. ASSUME NEW p \in Steady' \cap attached', ~Due(Unposted', p)
        PROVE  Fresh(p, queue', enumeration', media', BlkidState(p)', BlkidType(p)')
    <3>2. p \in attached /\ medium'[p] = medium[p]
      BY <2>1, <2>3
    <3>3. Due(Unposted, p) => Due(Unposted', p)
      BY <1>2, <2>2
    <3> QED
      BY <1>1, <2>1, <2>3, <3>2, <3>3
  <2> QED
    BY <2>3 DEF FreshInv
<1>5. ASSUME NEW x \in Paths, Alter(x)
      PROVE  FreshInv'
  <2>1. PICK ev : ev = <<Event("change", x)>>
    OBVIOUS
  <2>2. /\ UNCHANGED <<attached, raced, queue, enumeration, media>>
        /\ \A q \in Paths : q # x => medium'[q] = medium[q]
        /\ Grows(Unposted', Unposted, ev) /\ DOMAIN ev = {1} /\ ev[1] = Event("change", x)
    BY <1>5, <2>1, AlterFacts
  <2>3. ASSUME NEW p \in Steady' \cap attached', ~Due(Unposted', p)
        PROVE  Fresh(p, queue', enumeration', media', BlkidState(p)', BlkidType(p)')
    <3>1. p # x
      <4>1. ev[1].path = x /\ ev[1].action # "remove"
        BY <2>2 DEF Event
      <4> QED
        BY <1>2, <2>2, <2>3, <4>1
    <3>2. p \in attached /\ medium'[p] = medium[p]
      BY <1>0, <2>2, <2>3, <3>1
    <3>3. Due(Unposted, p) => Due(Unposted', p)
      BY <1>2, <2>2
    <3> QED
      BY <1>1, <2>2, <2>3, <3>2, <3>3
  <2> QED
    BY <2>3 DEF FreshInv
\* Nothing is read, posted or handled.
<1>6. ASSUME UNCHANGED <<attached, medium, raced, queue, enumeration, media>>, Unposted' = Unposted
      PROVE  FreshInv'
  BY <1>1, <1>6 DEF FreshInv
<1>7. CASE ReadDevice \/ ReadPartition
  <2>1. pc = "scan" /\ UNCHANGED <<attached, medium, raced, queue, media>> /\ Unposted' = Unposted
    BY <1>7, ScanStill
  <2>2. CASE enumeration' = enumeration
    BY <1>6, <2>1, <2>2
  <2>3. CASE enumeration' # enumeration
    <3>1. PICK info \in Devices : /\ enumeration_add_device(info)
                                  /\ info.content.state = BlkidState(info.path)
                                  /\ info.content.fstype = BlkidType(info.path)
      <4>1. PICK x, y, info : /\ x \in Paths /\ y \in Ports \cup {NULL} /\ info = Info(x, Kind(x), y)
                              /\ enumeration_add_device(info) /\ info \in Devices
        <5>1. CASE ReadDevice
          BY <5>1, ReadDeviceCases DEF Disks
        <5>2. CASE ReadPartition
          BY <2>3, <5>2, ReadPartitionCases
        <5> QED
          BY <1>7, <5>1, <5>2
      <4>2. info.path = x /\ info.content.state = BlkidState(x) /\ info.content.fstype = BlkidType(x)
        BY <4>1, InfoFacts DEF TypeInv
      <4> QED
        BY <4>1, <4>2
    <3>2. /\ ~InEnum(info.path)
          /\ DOMAIN enumeration' = 1..(Len(enumeration) + 1) /\ Len(enumeration) \in Nat
          /\ DOMAIN enumeration = 1..Len(enumeration)
          /\ enumeration'[Len(enumeration) + 1] = info
          /\ \A i \in DOMAIN enumeration : enumeration'[i] = enumeration[i]
      BY <2>3, <3>1, EnumAdds DEF TypeInv
    <3>3. \A i \in DOMAIN enumeration' : i \in DOMAIN enumeration \/ i = Len(enumeration) + 1
      BY <3>2
    <3>4. media = <<>>
      BY <2>1 DEF ListInv
    <3>5. ASSUME NEW p \in Steady' \cap attached', ~Due(Unposted', p)
          PROVE  Fresh(p, queue', enumeration', media', BlkidState(p)', BlkidType(p)')
      <4>1. p \in Steady \cap attached /\ p \in Paths
        BY <1>0, <2>1, <3>5 DEF Steady
      <4>2. Fresh(p, queue, enumeration, media, BlkidState(p), BlkidType(p))
        BY <2>1, <3>5, <4>1 DEF FreshInv
      <4>3. BlkidState(p)' = BlkidState(p) /\ BlkidType(p)' = BlkidType(p)
        BY <2>1, <4>1, BlkidSame
      <4>4. Fresh(p, queue, enumeration', media, BlkidState(p), BlkidType(p))
        BY <3>1, <3>2, <3>3, <3>4, <4>2 DEF Fresh
      <4> QED
        BY <2>1, <4>3, <4>4
    <3> QED
      BY <3>5 DEF FreshInv
  <2> QED
    BY <2>2, <2>3
<1>8. ASSUME \/ \E d \in Disks : LookAt(d)
             \/ Probe \/ NextDirectory
      PROVE  FreshInv'
  <2>1. UNCHANGED <<attached, medium, raced, queue, media>> /\ Unposted' = Unposted
    BY <1>8, ScanStill
  <2>2. enumeration' = enumeration
    <3>1. CASE \E d \in Disks : LookAt(d)
      BY <3>1 DEF LookAt
    <3>2. CASE Probe
      BY <3>2 DEF Probe
    <3>3. CASE NextDirectory
      BY <3>3 DEF NextDirectory
    <3> QED
      BY <1>8, <3>1, <3>2, <3>3
  <2> QED
    BY <1>6, <2>1, <2>2
<1>9. CASE AddEnumerated
  <2>1. UNCHANGED <<attached, medium, raced, queue, unread, reading>>
    BY <1>9, AddEnumeratedCases DEF world
  <2>2. Unposted' = Unposted
    BY <2>1, SameWaiting
  <2>3. CASE enumeration = <<>>
    BY <1>6, <1>9, <2>1, <2>2, <2>3, AddEnumeratedCases
  <2>4. CASE enumeration # <<>>
    <3>1. PICK info : info = Head(enumeration)
      OBVIOUS
    <3>2. /\ info = enumeration[1] /\ 1 \in DOMAIN enumeration /\ ~Has(media, info.path)
          /\ \A q : Has(enumeration, q) <=> Has(enumeration', q) \/ q = info.path
          /\ \A i \in DOMAIN enumeration' : i + 1 \in DOMAIN enumeration /\ enumeration'[i] = enumeration[i + 1]
          /\ \A k \in DOMAIN media' :
                \/ media'[k].path = info.path /\ media'[k].content = info.content
                \/ \E j \in DOMAIN media : media'[k] = media[j]
      BY <1>9, <2>4, <3>1, MoveFacts
    <3>3. ASSUME NEW p \in Steady' \cap attached', ~Due(Unposted', p)
          PROVE  Fresh(p, queue', enumeration', media', BlkidState(p)', BlkidType(p)')
      <4>1. p \in Steady \cap attached /\ p \in Paths
        BY <1>0, <2>1, <3>3 DEF Steady
      <4>2. PICK st, fs : st = BlkidState(p) /\ fs = BlkidType(p)
        OBVIOUS
      <4>3. Fresh(p, queue, enumeration, media, st, fs)
        BY <2>2, <3>3, <4>1, <4>2 DEF FreshInv
      <4>4. BlkidState(p)' = BlkidState(p) /\ BlkidType(p)' = BlkidType(p)
        BY <2>1, <4>1, BlkidSame
      <4>5. ~Told(queue, p) => \A i \in DOMAIN enumeration' :
                enumeration'[i].path = p => enumeration'[i].content.state = st /\ enumeration'[i].content.fstype = fs
        BY <3>2, <4>3 DEF Fresh
      <4>6. ASSUME ~Told(queue, p), ~Has(enumeration', p), NEW k \in DOMAIN media', media'[k].path = p
            PROVE  media'[k].content.state = st /\ media'[k].content.fstype = fs
        <5>1. CASE p = info.path
          <6>1. info.content.state = st /\ info.content.fstype = fs
            BY <3>2, <4>3, <4>6, <5>1 DEF Fresh
          <6>2. media'[k].content = info.content
            BY <3>2, <4>6, <5>1 DEF Has
          <6> QED
            BY <6>1, <6>2
        <5>2. CASE p # info.path
          BY <3>2, <4>3, <4>6, <5>2 DEF Fresh
        <5> QED
          BY <5>1, <5>2
      <4>7. Fresh(p, queue, enumeration', media', st, fs)
        BY <4>3, <4>5, <4>6 DEF Fresh
      <4> QED
        BY <2>1, <4>2, <4>4, <4>7
    <3> QED
      BY <3>3 DEF FreshInv
  <2> QED
    BY <2>3, <2>4
<1>10. CASE Receive
  <2>1. UNCHANGED <<attached, medium, raced, enumeration, media>>
    BY <1>10, ReceiveCases
  <2>2. CASE Unposted' = Unposted /\ queue' = queue
    BY <1>6, <2>1, <2>2
  <2>3. CASE ~(Unposted' = Unposted /\ queue' = queue)
    <3>1. PICK e \in Events : /\ e = Head(unread) /\ reading = NULL /\ unread # <<>> /\ Unposted' = Tail(unread)
                              /\ e.action = "remove" \/ e.path \notin attached
                              /\ \/ queue' = queue
                                 \/ \E item : queue' = Append(queue, item) /\ ~Known(item)
      <4>1. ~Known([action |-> Head(unread).action, path |-> Head(unread).path, kind |-> UnknownKind, content |-> NoContent])
        BY DEF Known, UnknownKind
      <4> QED
        BY <1>10, <2>3, <4>1, ReceiveCases
    <3>2. Unposted = unread
      BY <3>1 DEF Unposted, UnpostedOf
    <3>3. ASSUME NEW p \in Steady' \cap attached', ~Due(Unposted', p)
          PROVE  Fresh(p, queue', enumeration', media', BlkidState(p)', BlkidType(p)')
      <4>1. p \in Steady \cap attached /\ p \in Paths
        BY <1>0, <2>1, <3>3 DEF Steady
      <4>2. ~Due(Unposted, p)
        <5> SUFFICES ASSUME NEW i \in DOMAIN unread, unread[i].path = p, unread[i].action # "remove"
                     PROVE  FALSE
          BY <3>2 DEF Due
        <5>1. Len(unread) \in Nat /\ DOMAIN unread = 1..Len(unread) /\ DOMAIN Tail(unread) = 1..(Len(unread) - 1)
              /\ unread[1] = e /\ \A j \in 1..(Len(unread) - 1) : Tail(unread)[j] = unread[j + 1]
          BY <1>0, <3>1, HeadTailProperties
        <5>2. CASE i = 1
          BY <3>1, <4>1, <5>1, <5>2
        <5>3. CASE i # 1
          <6>1. i - 1 \in DOMAIN Tail(unread) /\ (i - 1) + 1 = i
            BY <5>1, <5>3
          <6>2. Tail(unread)[i - 1] = unread[i]
            BY <5>1, <6>1
          <6> QED
            BY <3>1, <3>3, <6>1, <6>2 DEF Due
        <5> QED
          BY <5>2, <5>3
      <4>3. Fresh(p, queue, enumeration, media, BlkidState(p), BlkidType(p))
        BY <4>1, <4>2 DEF FreshInv
      <4>4. BlkidState(p)' = BlkidState(p) /\ BlkidType(p)' = BlkidType(p)
        BY <2>1, <4>1, BlkidSame
      <4>5. Fresh(p, queue', enumeration, media, BlkidState(p), BlkidType(p))
        <5>1. CASE queue' = queue
          BY <4>3, <5>1
        <5>2. CASE queue' # queue
          <6>1. PICK item : queue' = Append(queue, item) /\ ~Tells(item, p)
            BY <3>1, <5>2 DEF Tells
          <6>2. PICK st, fs : st = BlkidState(p) /\ fs = BlkidType(p)
            OBVIOUS
          <6>3. Fresh(p, queue, enumeration, media, st, fs)
            BY <4>3, <6>2
          <6>4. Fresh(p, Append(queue, item), enumeration, media, st, fs)
            BY <1>0, <6>1, <6>3, FreshOther
          <6> QED
            BY <6>1, <6>2, <6>4
        <5> QED
          BY <5>1, <5>2
      <4> QED
        BY <2>1, <4>4, <4>5
    <3> QED
      BY <3>3 DEF FreshInv
  <2> QED
    BY <2>2, <2>3
<1>11. CASE ReadParent
  <2>1. UNCHANGED <<world, queue, enumeration, media>> /\ Unposted' = Unposted
    BY <1>11, ReadParentCases
  <2> QED
    BY <1>6, <2>1 DEF world
<1>12. CASE ReadMedium
  <2>1. PICK item \in Items, e \in Events :
            /\ queue' = Append(queue, item) /\ e = reading.event /\ item.path = e.path /\ item.action = e.action
            /\ item.kind = Kind(e.path) /\ item.content.state = BlkidState(e.path) /\ item.content.fstype = BlkidType(e.path)
            /\ Unposted = <<e>> \o unread /\ Unposted' = unread
            /\ UNCHANGED <<world, enumeration, media>> /\ reading \in Readings
    <3>1. reading.event \in Events
      BY <1>12, ReadMediumCases DEF Readings
    <3> QED
      BY <1>12, <3>1, ReadMediumCases
  <2>2. UNCHANGED <<attached, medium, raced>>
    BY <2>1 DEF world
  <2>3. ASSUME NEW p \in Steady' \cap attached', ~Due(Unposted', p)
        PROVE  Fresh(p, queue', enumeration', media', BlkidState(p)', BlkidType(p)')
    <3>1. p \in Steady \cap attached /\ p \in Paths
      BY <1>0, <2>2, <2>3 DEF Steady
    <3>2. BlkidState(p)' = BlkidState(p) /\ BlkidType(p)' = BlkidType(p)
      BY <2>2, <3>1, BlkidSame
    <3>3. CASE p = e.path /\ Recognised(p)
      <4>1. e.action # "remove"
        BY <1>0, <2>1 DEF ItemInv
      <4>2. Tells(item, p)
        BY <2>1, <3>1, <3>3, <4>1, KindFacts DEF Tells, Known
      <4>3. PICK st, fs : st = BlkidState(p) /\ fs = BlkidType(p)
        OBVIOUS
      <4>4. item.content.state = st /\ item.content.fstype = fs
        BY <2>1, <3>3, <4>3
      <4>5. Fresh(p, Append(queue, item), enumeration', media', st, fs)
        BY <1>0, <4>2, <4>4, FreshRead
      <4> QED
        BY <2>1, <3>2, <4>3, <4>5
    <3>4. CASE ~Recognised(p)
      <4>1. PICK st, fs : st = BlkidState(p)' /\ fs = BlkidType(p)'
        OBVIOUS
      <4>2. /\ \A i \in DOMAIN queue' : ~Tells(queue'[i], p)
            /\ \A i \in DOMAIN enumeration' : enumeration'[i].path # p
            /\ \A i \in DOMAIN media' : media'[i].path # p
        <5>1. \A i \in DOMAIN queue' : ~Tells(queue'[i], p)
          BY <3>1, <3>4, KindFacts DEF Tells, ItemInv, Known
        <5>2. \A i \in DOMAIN enumeration' : enumeration'[i].path # p
          BY <3>4 DEF EnumInv
        <5>3. \A i \in DOMAIN media' : media'[i].path # p
          BY <3>4 DEF ListInv
        <5> QED
          BY <5>1, <5>2, <5>3
      <4>3. Fresh(p, queue', enumeration', media', st, fs)
        BY <4>2 DEF Fresh
      <4> QED
        BY <4>1, <4>3
    <3>5. CASE p # e.path
      <4>1. ~Tells(item, p)
        BY <2>1, <3>5 DEF Tells
      <4>2. ~Due(Unposted, p)
        <5>1. PICK s : s = <<e>>
          OBVIOUS
        <5>2. s \in Seq(Events) /\ \A i \in DOMAIN s : s[i] = e
          BY <5>1
        <5>3. Grows(Unposted, s, unread)
          BY <1>0, <2>1, <5>1, <5>2, ConcatGrows
        <5>4. /\ \A i \in DOMAIN s : Unposted[i] = s[i]
              /\ \A j \in DOMAIN unread : Unposted[Len(s) + j] = unread[j]
              /\ \A i \in DOMAIN Unposted : i \in DOMAIN s \/ \E j \in DOMAIN unread : i = Len(s) + j
          BY <5>3, GrowPlaces
        <5> QED
          BY <2>1, <2>3, <3>5, <5>2, <5>4 DEF Due
      <4>3. PICK st, fs : st = BlkidState(p) /\ fs = BlkidType(p)
        OBVIOUS
      <4>4. Fresh(p, queue, enumeration, media, st, fs)
        BY <3>1, <4>2, <4>3 DEF FreshInv
      <4>5. Fresh(p, Append(queue, item), enumeration, media, st, fs)
        BY <1>0, <4>1, <4>4, FreshOther
      <4> QED
        BY <2>1, <3>2, <4>3, <4>5
    <3> QED
      BY <3>3, <3>4, <3>5
  <2> QED
    BY <2>3 DEF FreshInv
<1>13. CASE Handle
  <2>1. PICK item : item = Head(queue)
    OBVIOUS
  <2>2. /\ UNCHANGED <<world, reading, enumeration>> /\ queue # <<>> /\ item = queue[1] /\ pc = "loop" /\ item \in Items
        /\ (queue' = queue /\ media' = media) \/ queue' = Tail(queue)
    BY <1>13, <2>1, HandleCases
  <2>3. UNCHANGED <<attached, medium, raced, unread, reading>>
    BY <2>2 DEF world
  <2>4. Unposted' = Unposted
    BY <2>3 DEF Unposted
  <2>5. CASE queue' = queue /\ media' = media
    BY <1>6, <2>2, <2>3, <2>4, <2>5
  <2>6. CASE queue' = Tail(queue)
    <3>0. queue' # queue
      <4>1. Len(Tail(queue)) = Len(queue) - 1 /\ Len(queue) \in Nat
        BY <1>0, <2>2
      <4>2. Len(Tail(queue)) # Len(queue)
        BY <4>1
      <4> QED
        BY <2>6, <4>2
    <3>1. enumeration = <<>> /\ DOMAIN enumeration = {} /\ enumeration' = enumeration
      <4>1. enumeration = <<>>
        BY <2>2 DEF EnumInv
      <4> QED
        BY <2>2, <4>1
    <3>2. ASSUME NEW p \in Steady' \cap attached', ~Due(Unposted', p)
          PROVE  Fresh(p, queue', enumeration', media', BlkidState(p)', BlkidType(p)')
      <4>1. p \in Steady \cap attached /\ p \in Paths /\ Once(media, p)
        BY <1>0, <2>3, <3>2 DEF Steady, ListInv
      <4>2. BlkidState(p)' = BlkidState(p) /\ BlkidType(p)' = BlkidType(p)
        BY <2>3, <4>1, BlkidSame
      <4>3. PICK st, fs : st = BlkidState(p) /\ fs = BlkidType(p)
        OBVIOUS
      <4>4. Fresh(p, queue, enumeration, media, st, fs)
        BY <2>4, <3>2, <4>1, <4>3 DEF FreshInv
      <4>5. ASSUME NEW k \in DOMAIN media', media'[k].path = p
            PROVE  \/ Tells(item, p) /\ media'[k].content = item.content
                   \/ ~Tells(item, p) /\ \E j \in DOMAIN media : media[j].path = p /\ media'[k].content = media[j].content
        <5>1. \/ \E j \in DOMAIN media : media'[k].path = media[j].path /\ media'[k].content = media[j].content
              \/ media'[k].path = item.path /\ media'[k].content = item.content /\ Known(item) /\ item.action # "remove"
          BY <1>13, <2>1, <4>5, HandleNodes
        <5>2. CASE ~Tells(item, p)
          BY <4>5, <5>1, <5>2 DEF Tells
        <5>3. CASE Tells(item, p) /\ item.action = "add"
          <6>1. ~Has(media, p)
            BY <2>1, <2>2, <4>1, <5>3, AddsNew DEF Tells
          <6> QED
            BY <4>5, <5>1, <5>3, <6>1 DEF Has
        <5>4. CASE Tells(item, p) /\ item.action # "add"
          <6>1. item.action = "change" /\ Known(item) /\ item.path = p
            BY <2>2, <5>4 DEF Tells, Items, Actions
          <6> QED
            BY <1>13, <2>1, <3>0, <4>1, <4>5, <5>4, <6>1, HandleNodes
        <5> QED
          BY <5>2, <5>3, <5>4
      <4>6. PICK r : r = media'
        OBVIOUS
      <4>7. \A k \in DOMAIN r : r[k].path = p =>
               \/ Tells(queue[1], p) /\ r[k].content = queue[1].content
               \/ ~Tells(queue[1], p) /\ \E j \in DOMAIN media : media[j].path = p /\ r[k].content = media[j].content
        BY <2>2, <4>5, <4>6
      <4>8. Fresh(p, Tail(queue), enumeration, r, st, fs)
        BY <1>0, <2>2, <3>1, <4>4, <4>7, FreshPop
      <4> QED
        BY <2>6, <3>1, <4>2, <4>3, <4>6, <4>8
    <3> QED
      BY <3>2 DEF FreshInv
  <2> QED
    BY <2>2, <2>5, <2>6
<1>14. CASE UNCHANGED vars
  <2>1. UNCHANGED <<attached, medium, raced, queue, enumeration, media, unread, reading>>
    BY <1>14 DEF vars, world
  <2>2. Unposted' = Unposted
    BY <2>1 DEF Unposted
  <2> QED
    BY <1>6, <2>1, <2>2
<1> QED
  BY <1>3, <1>4, <1>5, <1>7, <1>8, <1>9, <1>10, <1>11, <1>12, <1>13, <1>14
  DEF Next, Scan, Worker, Failed, Idle

(***************************************************************************)
(* The sysfs path.                                                         *)
(***************************************************************************)
LEMMA WaitPlaces ==
    ASSUME TypeInv
    PROVE  /\ \A i \in DOMAIN queue : /\ i \in Nat /\ i \in DOMAIN Waiting /\ i < Len(queue) + 1
                                      /\ Waiting[i] = Event(queue[i].action, queue[i].path)
           /\ reading # NULL => Len(queue) + 1 \in DOMAIN Waiting /\ Waiting[Len(queue) + 1] = reading.event
           /\ Len(queue) \in Nat /\ DOMAIN Waiting \subseteq Nat
<1>1. queue \in Seq(Items) /\ reading \in Readings \cup {NULL} /\ unread \in Seq(Events)
  BY QueueTypes
<1>2. /\ Len(queue) \in Nat /\ Len(Unposted) \in Nat
      /\ DOMAIN queue = 1..Len(queue) /\ DOMAIN Unposted = 1..Len(Unposted)
      /\ DOMAIN Waiting = 1..(Len(queue) + Len(Unposted))
      /\ \A i \in DOMAIN queue : Waiting[i] = Event(queue[i].action, queue[i].path)
      /\ \A j \in DOMAIN Unposted : Waiting[Len(queue) + j] = Unposted[j]
  BY <1>1, WaitingFacts DEF Waiting, Unposted
<1>3. ASSUME reading # NULL
      PROVE  Len(queue) + 1 \in DOMAIN Waiting /\ Waiting[Len(queue) + 1] = reading.event
  <2>1. PICK s : s = <<reading.event>>
    OBVIOUS
  <2>2. 1 \in DOMAIN s /\ s[1] = reading.event
    BY <2>1
  <2>3. Grows(Unposted, s, unread)
    BY <1>1, <1>3, <2>1, UnpostedFacts DEF Unposted
  <2>4. 1 \in DOMAIN Unposted /\ Unposted[1] = reading.event
    BY <2>2, <2>3, GrowPlaces
  <2>5. Len(queue) + 1 \in DOMAIN Waiting
    BY <1>2, <2>4
  <2> QED
    BY <1>2, <2>4, <2>5
<1> QED
  BY <1>2, <1>3

\* The more removals wait, the better.
LEMMA OwnGrows ==
    ASSUME NEW p, NEW x, NEW m, NEW e, NEW q, NEW r, NEW w, NEW t, Removes(w, p) \subseteq Removes(t, p),
           OwnPath(p, x, m, e, q, r, w)
    PROVE  OwnPath(p, x, m, e, q, r, t)
  BY DEF OwnPath

\* A disk that is not there will be removed from wherever it is.
LEMMA OwnAbsent ==
    ASSUME TypeInv, ItemInv, NEW p \in Paths, p \notin attached,
           Agrees(Waiting, p, attached, fromStart, Listed), NEW x
    PROVE  OwnPath(p, x, media, enumeration, queue, reading, Waiting)
<1>1. GoesAway(Waiting, p) /\ (p \in Listed => Removes(Waiting, p) # {})
  BY DEF Agrees
<1>2. \A i \in DOMAIN media : media[i].path = p => Removes(Waiting, p) # {}
  BY <1>1 DEF Listed, InMedia, Has
<1>3. \A i \in DOMAIN enumeration : enumeration[i].path = p => Removes(Waiting, p) # {}
  BY <1>1 DEF Listed, InEnum, Has
<1>4. ASSUME NEW i \in DOMAIN queue, Tells(queue[i], p)
      PROVE  \E j \in Removes(Waiting, p) : i < j
  <2>1. i \in DOMAIN Waiting /\ Waiting[i].path = p /\ Waiting[i].action # "remove"
    <3>1. i \in DOMAIN Waiting /\ Waiting[i] = Event(queue[i].action, queue[i].path)
      BY WaitPlaces
    <3>2. queue[i].path = p /\ queue[i].action # "remove"
      BY <1>4 DEF Tells
    <3> QED
      BY <3>1, <3>2 DEF Event
  <2> QED
    BY <1>1, <2>1 DEF GoesAway
<1>5. ASSUME reading # NULL, reading.event.path = p
      PROVE  \E j \in Removes(Waiting, p) : Len(queue) + 1 < j
  <2>1. /\ Len(queue) + 1 \in DOMAIN Waiting /\ Waiting[Len(queue) + 1].path = p
        /\ Waiting[Len(queue) + 1].action # "remove"
    BY <1>5, WaitPlaces DEF ItemInv
  <2> QED
    BY <1>1, <2>1 DEF GoesAway
<1> QED
  BY <1>2, <1>3, <1>4, <1>5 DEF OwnPath

\* A disk that is pulled out is removed after all that is known of it.
LEMMA OwnRemoved ==
    ASSUME TypeInv, NEW p, NEW x, NEW t, NEW ev, Grows(t, Waiting, ev),
           NEW k \in DOMAIN ev, ev[k] = Event("remove", p)
    PROVE  OwnPath(p, x, media, enumeration, queue, reading, t)
<1>1. /\ Len(Waiting) + k \in DOMAIN t /\ t[Len(Waiting) + k] = ev[k]
      /\ \A i \in DOMAIN Waiting : i < Len(Waiting) + k
  BY GrowPlaces
<1>2. Len(Waiting) + k \in Removes(t, p)
  BY <1>1 DEF Removes
<1>3. \A i \in DOMAIN queue : i < Len(Waiting) + k
  BY <1>1, WaitPlaces
<1>4. reading # NULL => Len(queue) + 1 < Len(Waiting) + k
  BY <1>1, WaitPlaces
<1> QED
  BY <1>2, <1>3, <1>4 DEF OwnPath

\* One more is posted.
LEMMA OwnPosts ==
    ASSUME NEW p, NEW x, NEW m, NEW e, NEW q, Sequence(q), NEW r, NEW w, NEW item,
           OwnPath(p, x, m, e, q, r, w),
           Tells(item, p) => item.content.sysfs = x \/ \E j \in Removes(w, p) : Len(q) + 1 < j
    PROVE  OwnPath(p, x, m, e, Append(q, item), NULL, w)
<1> DEFINE a == Append(q, item)
<1>1. /\ \A i \in DOMAIN q : a[i] = q[i]
      /\ a[Len(q) + 1] = item /\ \A i \in DOMAIN a : i \in DOMAIN q \/ i = Len(q) + 1
  BY AppendFacts
<1> HIDE DEF a
<1>2. \A i \in DOMAIN a :
          Tells(a[i], p) => a[i].content.sysfs = x \/ \E j \in Removes(w, p) : i < j
  BY <1>1 DEF OwnPath
<1> QED
  BY <1>2 DEF OwnPath, a

\* An event that is dropped is no removal.
LEMMA OwnDrop ==
    ASSUME NEW f, NEW t, NEW w, NEW k, Embeds(f, t, w, k), NEW p, w[k] # Event("remove", p),
           NEW x, NEW m, NEW e, NEW q, \A i \in DOMAIN q : i \in DOMAIN t /\ f[i] = i,
           OwnPath(p, x, m, e, q, NULL, w)
    PROVE  OwnPath(p, x, m, e, q, NULL, t)
<1>1. \A j \in Removes(w, p) : \E i \in Removes(t, p) : i \in DOMAIN t /\ f[i] = j
  <2>1. \A j \in Removes(w, p) : j # k
    BY DEF Removes
  <2> QED
    BY <2>1, EmbedFacts
<1>2. \A i, j \in DOMAIN t : i < j <=> f[i] < f[j]
  BY DEF Embeds
<1>3. ASSUME NEW i \in DOMAIN q, NEW j \in Removes(w, p), i < j
      PROVE  \E l \in Removes(t, p) : i < l
  BY <1>1, <1>2, <1>3
<1>4. Removes(w, p) # {} => Removes(t, p) # {}
  BY <1>1
<1> QED
  BY <1>3, <1>4 DEF OwnPath

\* The first of what is posted goes to the list, which was m and is n.
Shifts(f, t, w) == Embeds(f, t, w, 1) /\ \A i \in DOMAIN t : f[i] = i + 1

Takes(n, m, q, w, p) ==
    \A k \in DOMAIN n : n[k].path = p =>
        /\ w[1] # Event("remove", p)
        /\ \/ Tells(q[1], p) /\ n[k].content = q[1].content
           \/ \E j \in DOMAIN m : m[j].path = p /\ n[k].content = m[j].content

LEMMA OwnPop ==
    ASSUME NEW f, NEW t, NEW w, Shifts(f, t, w),
           NEW p, NEW x, NEW m, NEW n, NEW e, DOMAIN e = {}, NEW q \in Seq(Items), q # <<>>, NEW r,
           NEW y, y = Tail(q),
           OwnPath(p, x, m, e, q, r, w), Takes(n, m, q, w, p)
    PROVE  OwnPath(p, x, n, e, y, r, t)
<1>0. /\ Embeds(f, t, w, 1) /\ \A i \in DOMAIN t : f[i] = i + 1
      /\ \A k \in DOMAIN n : n[k].path = p =>
            /\ w[1] # Event("remove", p)
            /\ \/ Tells(q[1], p) /\ n[k].content = q[1].content
               \/ \E j \in DOMAIN m : m[j].path = p /\ n[k].content = m[j].content
  BY DEF Shifts, Takes
<1>1. \A j \in Removes(w, p) : j \in Nat /\ (1 < j => \E i \in Removes(t, p) : i \in Nat /\ i + 1 = j)
  <2>1. ASSUME NEW j \in Removes(w, p), 1 < j
        PROVE  \E i \in Removes(t, p) : i \in Nat /\ i + 1 = j
    <3>1. j # 1
      BY <1>0, <2>1, EmbedFacts
    <3>2. PICK i \in Removes(t, p) : i \in DOMAIN t /\ f[i] = j
      BY <1>0, <3>1, EmbedFacts
    <3>3. i \in Nat
      BY <1>0, <3>2 DEF Embeds
    <3> QED
      BY <1>0, <3>2, <3>3
  <2>2. \A j \in Removes(w, p) : j \in Nat
    BY <1>0, EmbedFacts
  <2> QED
    BY <2>1, <2>2
<1>2. /\ Len(q) \in Nat /\ Len(q) # 0 /\ Len(y) = Len(q) - 1
      /\ DOMAIN q = 1..Len(q) /\ DOMAIN y = 1..(Len(q) - 1)
      /\ \A i \in 1..(Len(q) - 1) : y[i] = q[i + 1]
  BY EmptySeq, HeadTailProperties
<1>3. ASSUME NEW i \in Nat, NEW j \in Removes(w, p), i + 1 < j
      PROVE  \E l \in Removes(t, p) : i < l
  <2>1. j \in Nat /\ 1 < j
    BY <1>1, <1>3
  <2>2. PICK l \in Removes(t, p) : l \in Nat /\ l + 1 = j
    BY <1>1, <2>1
  <2>3. i < l
    BY <1>3, <2>2
  <2> QED
    BY <2>3
<1>4. ASSUME NEW i \in DOMAIN y, Tells(y[i], p)
      PROVE  y[i].content.sysfs = x \/ \E j \in Removes(t, p) : i < j
  <2>1. i \in Nat /\ i + 1 \in DOMAIN q /\ y[i] = q[i + 1]
    BY <1>2
  <2>2. q[i + 1].content.sysfs = x \/ \E j \in Removes(w, p) : i + 1 < j
    BY <1>4, <2>1 DEF OwnPath
  <2> QED
    BY <1>3, <2>1, <2>2
<1>5. ASSUME r # NULL, r.step = "medium", r.event.path = p
      PROVE  r.sysfs = x \/ \E j \in Removes(t, p) : Len(y) + 1 < j
  <2>1. r.sysfs = x \/ \E j \in Removes(w, p) : Len(q) + 1 < j
    BY <1>5 DEF OwnPath
  <2>2. Len(y) + 1 = Len(q)
    BY <1>2
  <2> QED
    BY <1>2, <1>3, <2>1, <2>2
<1>6. ASSUME NEW k \in DOMAIN n, n[k].path = p
      PROVE  n[k].content.sysfs = x \/ Removes(t, p) # {}
  <2>1. CASE Tells(q[1], p) /\ n[k].content = q[1].content
    <3>1. 1 \in DOMAIN q
      BY <1>2
    <3>2. q[1].content.sysfs = x \/ \E j \in Removes(w, p) : 1 < j
      BY <2>1, <3>1 DEF OwnPath
    <3> QED
      BY <1>1, <2>1, <3>2
  <2>2. CASE \E j \in DOMAIN m : m[j].path = p /\ n[k].content = m[j].content
    <3>1. n[k].content.sysfs = x \/ Removes(w, p) # {}
      BY <2>2 DEF OwnPath
    <3>2. ASSUME NEW j \in Removes(w, p)
          PROVE  Removes(t, p) # {}
      <4>1. j # 1
        BY <1>0, <1>6 DEF Removes
      <4> QED
        BY <1>0, <4>1, EmbedFacts
    <3> QED
      BY <3>1, <3>2
  <2> QED
    BY <1>0, <1>6, <2>1, <2>2
<1> QED
  BY <1>4, <1>5, <1>6 DEF OwnPath

LEMMA SysfsStep ==
    ASSUME TypeInv, WorldInv, ItemInv, WaitInv, ListInv, EnumInv, ScanInv, SysfsInv, [Next]_vars
    PROVE  SysfsInv'
<1>0. queue \in Seq(Items) /\ Sequence(queue) /\ reading \in Readings \cup {NULL} /\ NULL \notin Readings
  BY QueueTypes, SequenceOf
<1>1. \A p \in Disks \ raced : p \in Paths /\ p \in Steady /\ DiskOf(p) = p /\ ~IsPartition(p) /\ Once(media, p)
  BY FamilyFacts DEF Steady, Disks, ListInv
\* Only the waiting events change, and no removal is lost.
<1>2. ASSUME NEW p \in Disks \ raced, Plain(p), port'[p] = port[p], UNCHANGED <<media, enumeration, queue, reading>>,
             Removes(Waiting, p) \subseteq Removes(Waiting', p)
      PROVE  OwnPath(p, port'[p], media', enumeration', queue', reading', Waiting')
  <2>1. PICK t, x : t = Waiting' /\ x = port[p]
    OBVIOUS
  <2>2. OwnPath(p, x, media, enumeration, queue, reading, Waiting)
    BY <1>2, <2>1 DEF SysfsInv
  <2>3. OwnPath(p, x, media, enumeration, queue, reading, t)
    BY <1>2, <2>1, <2>2, OwnGrows
  <2> QED
    BY <1>2, <2>1, <2>3
<1>3. ASSUME NEW d \in Disks, Plug(d)
      PROVE  SysfsInv'
  <2>1. /\ d \notin attached /\ UNCHANGED <<media, enumeration, queue, reading>> /\ raced \subseteq raced'
        /\ \A x \in Disks : x # d => port'[x] = port[x]
    BY <1>3, PlugFacts
  <2>2. PICK ev \in Seq(Events) : Grows(Waiting', Waiting, ev)
    BY <1>3, PlugFacts
  <2>3. ASSUME NEW p \in Disks \ raced', Plain(p)
        PROVE  OwnPath(p, port'[p], media', enumeration', queue', reading', Waiting')
    <3>1. p \in Disks \ raced /\ Removes(Waiting, p) \subseteq Removes(Waiting', p)
      BY <2>1, <2>2, GrowNone
    <3>2. CASE p # d
      BY <1>2, <2>1, <2>3, <3>1, <3>2
    <3>3. CASE p = d
      <4>1. PICK x, t : x = port'[p] /\ t = Waiting'
        OBVIOUS
      <4>2. Agrees(Waiting, p, attached, fromStart, Listed)
        BY <1>1, <3>1 DEF WaitInv
      <4>3. OwnPath(p, x, media, enumeration, queue, reading, Waiting)
        BY <1>1, <2>1, <3>1, <3>3, <4>2, OwnAbsent
      <4>4. OwnPath(p, x, media, enumeration, queue, reading, t)
        BY <3>1, <4>1, <4>3, OwnGrows
      <4> QED
        BY <2>1, <4>1, <4>4
    <3> QED
      BY <3>2, <3>3
  <2> QED
    BY <2>3 DEF SysfsInv
<1>4. ASSUME NEW d \in Disks, Unplug(d)
      PROVE  SysfsInv'
  <2>1. /\ UNCHANGED <<media, enumeration, queue, reading>> /\ raced \subseteq raced'
        /\ \A x \in Disks : x # d => port'[x] = port[x]
    BY <1>4, UnplugFacts
  <2>2. PICK ev \in Seq(Events) : /\ Grows(Waiting', Waiting, ev)
                                  /\ \A p \in {d} \cup Partitions(d) : \E j \in DOMAIN ev : ev[j] = Event("remove", p)
    BY <1>4, UnplugFacts
  <2>3. ASSUME NEW p \in Disks \ raced', Plain(p)
        PROVE  OwnPath(p, port'[p], media', enumeration', queue', reading', Waiting')
    <3>1. p \in Disks \ raced /\ Removes(Waiting, p) \subseteq Removes(Waiting', p)
      BY <2>1, <2>2, GrowNone
    <3>2. CASE p # d
      BY <1>2, <2>1, <2>3, <3>1, <3>2
    <3>3. CASE p = d
      <4>1. PICK x, t : x = port'[p] /\ t = Waiting'
        OBVIOUS
      <4>2. PICK k \in DOMAIN ev : ev[k] = Event("remove", p)
        BY <2>2, <3>3
      <4>3. Grows(t, Waiting, ev)
        BY <2>2, <4>1
      <4>4. OwnPath(p, x, media, enumeration, queue, reading, t)
        BY <4>2, <4>3, OwnRemoved
      <4> QED
        BY <2>1, <4>1, <4>4
    <3> QED
      BY <3>2, <3>3
  <2> QED
    BY <2>3 DEF SysfsInv
<1>5. ASSUME NEW q \in Paths, Alter(q)
      PROVE  SysfsInv'
  <2>1. UNCHANGED <<media, enumeration, queue, reading, port, raced>>
    BY <1>5, AlterFacts
  <2>2. PICK ev : ev = <<Event("change", q)>>
    OBVIOUS
  <2>3. Grows(Waiting', Waiting, ev)
    BY <1>5, <2>2, AlterFacts
  <2>4. ASSUME NEW p \in Disks \ raced', Plain(p)
        PROVE  OwnPath(p, port'[p], media', enumeration', queue', reading', Waiting')
    <3>1. Removes(Waiting, p) \subseteq Removes(Waiting', p)
      BY <2>3, GrowNone
    <3> QED
      BY <1>2, <2>1, <2>4, <3>1
  <2> QED
    BY <2>4 DEF SysfsInv
\* Nothing changes.
<1>6. ASSUME UNCHANGED <<media, enumeration, queue, reading, port, raced>>, Waiting' = Waiting
      PROVE  SysfsInv'
  BY <1>6 DEF SysfsInv
\* The enumeration finds a disk, with its path, or a partition.
<1>7. ASSUME NEW info \in Devices, enumeration_add_device(info),
             UNCHANGED <<media, queue, reading, port, raced>>, Waiting' = Waiting,
             info.path \in Disks /\ Plain(info.path) => info.content.sysfs = port[info.path]
      PROVE  SysfsInv'
  <2>1. TypeOK
    BY DEF TypeInv
  <2>2. CASE enumeration' = enumeration
    BY <1>6, <1>7, <2>2
  <2>3. CASE enumeration' # enumeration
    <3>1. /\ DOMAIN enumeration = 1..Len(enumeration) /\ Len(enumeration) \in Nat
          /\ DOMAIN enumeration' = 1..(Len(enumeration) + 1) /\ enumeration'[Len(enumeration) + 1] = info
          /\ \A i \in DOMAIN enumeration : enumeration'[i] = enumeration[i]
      BY <1>7, <2>1, <2>3, EnumAdds
    <3>2. \A i \in DOMAIN enumeration' : enumeration'[i] = info \/ \E j \in DOMAIN enumeration : enumeration'[i] = enumeration[j]
      <4>1. \A i \in 1..(Len(enumeration) + 1) : i \in 1..Len(enumeration) \/ i = Len(enumeration) + 1
        BY <3>1
      <4> QED
        BY <3>1, <4>1
    <3>3. ASSUME NEW p \in Disks \ raced', Plain(p)
          PROVE  OwnPath(p, port'[p], media', enumeration', queue', reading', Waiting')
      <4>1. PICK x, e : x = port[p] /\ e = enumeration'
        OBVIOUS
      <4>2. OwnPath(p, x, media, enumeration, queue, reading, Waiting)
        BY <1>7, <3>3, <4>1 DEF SysfsInv
      <4>3. \A i \in DOMAIN e : e[i].path = p => e[i].content.sysfs = x \/ \E j \in DOMAIN enumeration : e[i] = enumeration[j]
        BY <1>7, <3>2, <3>3, <4>1
      <4>4. OwnPath(p, x, media, e, queue, reading, Waiting)
        BY <4>2, <4>3 DEF OwnPath
      <4> QED
        BY <1>7, <4>1, <4>4
    <3> QED
      BY <3>3 DEF SysfsInv
  <2> QED
    BY <2>2, <2>3
<1>8. CASE ReadDevice
  <2>1. pc = "scan" /\ scan.at.step = "read" /\ UNCHANGED <<media, queue, reading, port, raced>> /\ Waiting' = Waiting
    BY <1>8, ScanStill DEF ReadDevice, Scanning
  <2>2. PICK d : d = scan.at.disk
    OBVIOUS
  <2>3. d \in Disks /\ Wants(scan.directory, d) /\ DiskOf(d) = d /\ ~IsPartition(d) /\ Recognised(d)
    BY <2>1, <2>2, FamilyFacts DEF ScanInv, AtInv, Disks, Wants
  <2>4. PICK s : s = IF MediaType(d) = "stateless" THEN port[d] ELSE NULL
    OBVIOUS
  <2>5. PICK info \in Devices : info = Info(d, Kind(d), s) /\ enumeration_add_device(info)
    BY <1>8, <2>2, <2>4, ReadDeviceCases
  <2>6. info.path = d /\ info.content.sysfs = s
    BY <2>5 DEF Info
  <2>7. ASSUME Plain(d)
        PROVE  s = port[d]
    <3>1. Subtype[d] \in {"removable_disk", "sd_card", "cdrom"}
      BY <2>3, SysfsAssumption DEF Recognised, device_subtype_from_string
    <3>2. CASE Subtype[d] = "cdrom"
      BY <2>3, <2>4, <2>7, <3>2 DEF Plain, WorldInv, MediaType, device_subtype_from_string
    <3>3. CASE Subtype[d] # "cdrom"
      BY <2>3, <2>4, <3>1, <3>3 DEF MediaType, device_subtype_from_string
    <3> QED
      BY <3>2, <3>3
  <2> QED
    BY <1>7, <2>1, <2>5, <2>6, <2>7
<1>9. CASE ReadPartition
  <2>1. pc = "scan" /\ scan.at.step = "parts" /\ UNCHANGED <<media, queue, reading, port, raced>> /\ Waiting' = Waiting
    BY <1>9, ScanStill DEF ReadPartition, Scanning
  <2>2. CASE enumeration' = enumeration
    BY <1>6, <2>1, <2>2
  <2>3. CASE enumeration' # enumeration
    <3>1. PICK p, info : /\ p = Head(scan.at.parts) /\ info = Info(p, Kind(p), NULL) /\ info \in Devices
                         /\ enumeration_add_device(info) /\ scan.at.parts # <<>>
      BY <1>9, <2>3, ReadPartitionCases
    <3>2. p \in Partitions(scan.at.disk) /\ scan.at.disk \in Disks
      <4>1. scan.at.parts \in Seq(Paths)
        BY DEF TypeInv, TypeOK
      <4>2. 1 \in DOMAIN scan.at.parts /\ p = scan.at.parts[1]
        BY <3>1, <4>1
      <4> QED
        BY <2>1, <4>2 DEF ScanInv, AtInv
    <3>3. p \notin Disks
      BY <3>2, FamilyFacts DEF Disks
    <3>4. info.path = p
      BY <3>1 DEF Info
    <3> QED
      BY <1>7, <2>1, <3>1, <3>3, <3>4
  <2> QED
    BY <2>2, <2>3
<1>10. ASSUME \/ \E d \in Disks : LookAt(d)
              \/ Probe \/ NextDirectory
       PROVE  SysfsInv'
  <2>1. UNCHANGED <<port, raced, queue, reading, media>> /\ Waiting' = Waiting
    BY <1>10, ScanStill
  <2>2. enumeration' = enumeration
    <3>1. CASE \E d \in Disks : LookAt(d)
      BY <3>1 DEF LookAt
    <3>2. CASE Probe
      BY <3>2 DEF Probe
    <3>3. CASE NextDirectory
      BY <3>3 DEF NextDirectory
    <3> QED
      BY <1>10, <3>1, <3>2, <3>3
  <2> QED
    BY <1>6, <2>1, <2>2
<1>11. CASE AddEnumerated
  <2>1. UNCHANGED <<port, raced, queue, unread, reading>>
    BY <1>11, AddEnumeratedCases DEF world
  <2>2. Waiting' = Waiting
    BY <2>1, SameWaiting
  <2>3. CASE enumeration = <<>>
    BY <1>6, <1>11, <2>1, <2>2, <2>3, AddEnumeratedCases
  <2>4. CASE enumeration # <<>>
    <3>1. /\ 1 \in DOMAIN enumeration
          /\ \A i \in DOMAIN enumeration' : i + 1 \in DOMAIN enumeration /\ enumeration'[i] = enumeration[i + 1]
          /\ \A k \in DOMAIN media' :
                \/ media'[k].path = enumeration[1].path /\ media'[k].content = enumeration[1].content
                \/ \E j \in DOMAIN media : media'[k] = media[j]
      BY <1>11, <2>4, MoveFacts
    <3>2. ASSUME NEW p \in Disks \ raced', Plain(p)
          PROVE  OwnPath(p, port'[p], media', enumeration', queue', reading', Waiting')
      <4>1. PICK x, e, m : x = port[p] /\ e = enumeration' /\ m = media'
        OBVIOUS
      <4>2. OwnPath(p, x, media, enumeration, queue, reading, Waiting)
        BY <2>1, <3>2, <4>1 DEF SysfsInv
      <4>3. /\ \A i \in DOMAIN e : \E j \in DOMAIN enumeration : e[i] = enumeration[j]
            /\ \A k \in DOMAIN m :
                  \/ \E j \in DOMAIN enumeration : m[k].path = enumeration[j].path /\ m[k].content = enumeration[j].content
                  \/ \E j \in DOMAIN media : m[k] = media[j]
        BY <3>1, <4>1
      <4>4. OwnPath(p, x, m, e, queue, reading, Waiting)
        BY <4>2, <4>3 DEF OwnPath
      <4> QED
        BY <2>1, <2>2, <4>1, <4>4
    <3> QED
      BY <3>2 DEF SysfsInv
  <2> QED
    BY <2>3, <2>4

\* An event is received: it is at hand, dropped or posted without a type.
<1>12. CASE Receive
  <2>1. PICK e : e = Head(unread)
    OBVIOUS
  <2>2. PICK item : item = [action |-> e.action, path |-> e.path, kind |-> UnknownKind, content |-> NoContent]
    OBVIOUS
  <2>3. /\ reading = NULL /\ unread # <<>> /\ unread' = Tail(unread) /\ UNCHANGED <<port, raced, enumeration, media>>
        /\ \/ queue' = queue /\ reading' \in Readings /\ reading'.step = "parent" /\ Waiting' = Waiting
           \/ e.action = "add" /\ queue' = queue /\ reading' = NULL
           \/ reading' = NULL /\ queue' = Append(queue, item) /\ Waiting' = Waiting
    BY <1>12, <2>1, <2>2, ReceiveCases
  <2>4. ~Known(item)
    BY <2>2 DEF Known, UnknownKind
  <2>5. ASSUME NEW p \in Disks \ raced', Plain(p)
        PROVE  OwnPath(p, port'[p], media', enumeration', queue', reading', Waiting')
    <3>1. PICK x, r : x = port[p] /\ r = reading'
      OBVIOUS
    <3>2. OwnPath(p, x, media, enumeration, queue, reading, Waiting)
      BY <2>3, <2>5, <3>1 DEF SysfsInv
    <3>3. CASE queue' = queue /\ r.step = "parent" /\ Waiting' = Waiting
      <4>1. OwnPath(p, x, media, enumeration, queue, r, Waiting)
        BY <3>2, <3>3 DEF OwnPath
      <4> QED
        BY <2>3, <3>1, <3>3, <4>1
    <3>4. CASE e.action = "add" /\ queue' = queue /\ reading' = NULL
      <4>1. PICK t : t = Waiting'
        OBVIOUS
      <4>2. Waiting[Len(queue) + 1] = e
        BY <2>1, <2>3, <3>4, DropStep
      <4>3. PICK f : Embeds(f, t, Waiting, Len(queue) + 1) /\ \A i \in DOMAIN queue : f[i] = i
        BY <2>3, <3>4, <4>1, DropStep
      <4>4. \A i \in DOMAIN queue : i \in DOMAIN t
        <5>1. /\ queue \in Seq(Items) /\ NULL \in Readings \cup {NULL} /\ Tail(unread) \in Seq(Events)
          BY <2>3, QueueTypes
        <5>2. t = WaitingOf(queue, NULL, Tail(unread))
          BY <2>3, <3>4, <4>1 DEF Waiting
        <5>3. PICK n : n = Len(UnpostedOf(NULL, Tail(unread)))
          OBVIOUS
        <5>4. n \in Nat /\ Len(queue) \in Nat /\ DOMAIN queue = 1..Len(queue) /\ DOMAIN t = 1..(Len(queue) + n)
          BY <5>1, <5>2, <5>3, WaitingFacts
        <5> QED
          BY <5>4
      <4>5. e # Event("remove", p)
        BY <3>4 DEF Event
      <4>6. OwnPath(p, x, media, enumeration, queue, NULL, t)
        BY <2>3, <3>2, <4>2, <4>3, <4>4, <4>5, OwnDrop
      <4> QED
        BY <2>3, <3>1, <3>4, <4>1, <4>6
    <3>5. CASE reading' = NULL /\ queue' = Append(queue, item) /\ Waiting' = Waiting
      <4>1. ~Tells(item, p)
        BY <2>4 DEF Tells
      <4>2. OwnPath(p, x, media, enumeration, Append(queue, item), NULL, Waiting)
        BY <1>0, <3>2, <4>1, OwnPosts
      <4> QED
        BY <2>3, <3>1, <3>5, <4>2
    <3> QED
      BY <2>3, <3>1, <3>3, <3>4, <3>5
  <2> QED
    BY <2>5 DEF SysfsInv
<1>13. CASE ReadParent
  <2>1. /\ UNCHANGED <<world, queue, enumeration, media>> /\ Waiting' = Waiting /\ reading'.event = reading.event
        /\ reading'.sysfs = IF IsPartition(reading.event.path) THEN NULL ELSE port[reading.event.path]
    BY <1>13, ReadParentCases
  <2>2. UNCHANGED <<port, raced>>
    BY <2>1 DEF world
  <2>3. ASSUME NEW p \in Disks \ raced', Plain(p)
        PROVE  OwnPath(p, port'[p], media', enumeration', queue', reading', Waiting')
    <3>1. PICK x, r : x = port[p] /\ r = reading'
      OBVIOUS
    <3>2. OwnPath(p, x, media, enumeration, queue, reading, Waiting) /\ ~IsPartition(p)
      BY <1>1, <2>2, <2>3, <3>1 DEF SysfsInv
    <3>3. r.event.path = p => r.sysfs = x
      BY <2>1, <3>1, <3>2
    <3>4. OwnPath(p, x, media, enumeration, queue, r, Waiting)
      BY <3>2, <3>3 DEF OwnPath
    <3> QED
      BY <2>1, <2>2, <3>1, <3>4
  <2> QED
    BY <2>3 DEF SysfsInv
<1>14. CASE ReadMedium
  <2>1. PICK item : item = Item(reading.event.action, Info(reading.event.path, Kind(reading.event.path), reading.sysfs))
    OBVIOUS
  <2>2. /\ reading \in Readings /\ reading' = NULL /\ reading.step = "medium" /\ queue' = Append(queue, item)
        /\ item.path = reading.event.path /\ item.content.sysfs = reading.sysfs
        /\ Waiting' = Waiting /\ UNCHANGED <<world, enumeration, media>>
    BY <1>14, <2>1, ReadMediumCases
  <2>3. UNCHANGED <<port, raced>>
    BY <2>2 DEF world
  <2>4. ASSUME NEW p \in Disks \ raced', Plain(p)
        PROVE  OwnPath(p, port'[p], media', enumeration', queue', reading', Waiting')
    <3>1. PICK x : x = port[p]
      OBVIOUS
    <3>2. OwnPath(p, x, media, enumeration, queue, reading, Waiting)
      BY <2>3, <2>4, <3>1 DEF SysfsInv
    <3>3. Tells(item, p) => item.content.sysfs = x \/ \E j \in Removes(Waiting, p) : Len(queue) + 1 < j
      BY <1>0, <2>2, <3>2 DEF OwnPath, Tells
    <3>4. OwnPath(p, x, media, enumeration, Append(queue, item), NULL, Waiting)
      BY <1>0, <3>2, <3>3, OwnPosts
    <3> QED
      BY <2>2, <2>3, <3>1, <3>4
  <2> QED
    BY <2>4 DEF SysfsInv
<1>15. CASE Handle
  <2>1. PICK item : item = Head(queue)
    OBVIOUS
  <2>2. /\ UNCHANGED <<world, reading, enumeration>> /\ queue # <<>> /\ item = queue[1] /\ pc = "loop" /\ item \in Items
        /\ (queue' = queue /\ media' = media) \/ queue' = Tail(queue)
    BY <1>15, <2>1, HandleCases
  <2>3. UNCHANGED <<port, raced, unread, reading>>
    BY <2>2 DEF world
  <2>4. CASE queue' = queue /\ media' = media
    BY <1>6, <2>2, <2>3, <2>4, SameWaiting
  <2>5. CASE queue' = Tail(queue)
    <3>1. PICK t : t = Waiting'
      OBVIOUS
    <3>2. Waiting[1] = Event(item.action, item.path)
      BY <2>1, <2>2, <2>3, <2>5, PopStep
    <3>3. PICK f : Shifts(f, t, Waiting)
      BY <2>2, <2>3, <2>5, <3>1, PopStep DEF Shifts
    <3>4. enumeration = <<>> /\ DOMAIN enumeration = {}
      <4>1. enumeration = <<>>
        BY <2>2 DEF EnumInv
      <4> QED
        BY <4>1
    <3>5. ASSUME NEW p \in Disks \ raced', Plain(p)
          PROVE  OwnPath(p, port'[p], media', enumeration', queue', reading', Waiting')
      <4>1. PICK x, m : x = port[p] /\ m = media'
        OBVIOUS
      <4>2. OwnPath(p, x, media, enumeration, queue, reading, Waiting) /\ Once(media, p)
        BY <1>1, <2>3, <3>5, <4>1 DEF SysfsInv
      <4>3. ASSUME NEW k \in DOMAIN media', media'[k].path = p
            PROVE  /\ Waiting[1] # Event("remove", p)
                   /\ \/ Tells(queue[1], p) /\ media'[k].content = queue[1].content
                      \/ \E j \in DOMAIN media : media[j].path = p /\ media'[k].content = media[j].content
        <5>1. /\ \/ \E j \in DOMAIN media : media'[k].path = media[j].path /\ media'[k].content = media[j].content
                 \/ /\ media'[k].path = item.path /\ media'[k].content = item.content
                    /\ Known(item) /\ item.action # "remove"
              /\ Once(media, item.path) /\ item.action = "remove" => ~Has(media', item.path)
          BY <1>15, <2>1, HandleNodes
        <5>2. ~(item.action = "remove" /\ item.path = p)
          BY <4>2, <4>3, <5>1 DEF Has
        <5>3. Waiting[1] # Event("remove", p)
          BY <3>2, <5>2 DEF Event
        <5> QED
          BY <2>2, <4>3, <5>1, <5>3 DEF Tells
      <4>4. Takes(m, media, queue, Waiting, p)
        BY <4>1, <4>3 DEF Takes
      <4>5. PICK y : y = Tail(queue)
        OBVIOUS
      <4>6. OwnPath(p, x, m, enumeration, y, reading, t)
        <5>1. queue \in Seq(Items) /\ queue # <<>> /\ DOMAIN enumeration = {}
          BY <1>0, <2>2, <3>4
        <5>2. OwnPath(p, x, media, enumeration, queue, reading, Waiting)
          BY <4>2
        <5> QED
          BY ONLY <3>3, <4>4, <4>5, <5>1, <5>2, OwnPop
      <4> QED
        BY <2>2, <2>3, <2>5, <3>1, <4>1, <4>5, <4>6
    <3> QED
      BY <3>5 DEF SysfsInv
  <2> QED
    BY <2>2, <2>4, <2>5
<1>16. CASE UNCHANGED vars
  <2>1. UNCHANGED <<port, raced, queue, enumeration, media, unread, reading>>
    BY <1>16 DEF vars, world
  <2> QED
    BY <1>6, <2>1, SameWaiting
<1> QED
  BY <1>3, <1>4, <1>5, <1>8, <1>9, <1>10, <1>11, <1>12, <1>13, <1>14, <1>15, <1>16
  DEF Next, Scan, Worker, Failed, Idle

(***************************************************************************)
(* The end of the daemon.                                                  *)
(***************************************************************************)
LEMMA FailedStays ==
    ASSUME TypeInv, pc = "failed", queue # <<>>, [Next]_vars
    PROVE  /\ raced \subseteq raced' /\ queue' # <<>> /\ Head(queue') = Head(queue)
           /\ \A p : Removes(Waiting, p) # {} => Removes(Waiting', p) # {}
<1>0. queue \in Seq(Items)
  BY QueueTypes
\* Events come.
<1>1. ASSUME NEW ev, Grows(Waiting', Waiting, ev), queue' = queue, raced \subseteq raced'
      PROVE  /\ raced \subseteq raced' /\ queue' # <<>> /\ Head(queue') = Head(queue)
             /\ \A p : Removes(Waiting, p) # {} => Removes(Waiting', p) # {}
  <2>1. \A p : Removes(Waiting, p) \subseteq Removes(Waiting', p)
    BY <1>1, GrowNone
  <2> QED
    BY <1>1, <2>1
<1>2. ASSUME NEW d \in Disks, Plug(d)
      PROVE  /\ raced \subseteq raced' /\ queue' # <<>> /\ Head(queue') = Head(queue)
             /\ \A p : Removes(Waiting, p) # {} => Removes(Waiting', p) # {}
  <2>1. PICK ev \in Seq(Events) : Grows(Waiting', Waiting, ev) /\ queue' = queue /\ raced \subseteq raced'
    BY <1>2, PlugFacts
  <2> QED
    BY <1>1, <2>1
<1>3. ASSUME NEW d \in Disks, Unplug(d)
      PROVE  /\ raced \subseteq raced' /\ queue' # <<>> /\ Head(queue') = Head(queue)
             /\ \A p : Removes(Waiting, p) # {} => Removes(Waiting', p) # {}
  <2>1. PICK ev \in Seq(Events) : Grows(Waiting', Waiting, ev) /\ queue' = queue /\ raced \subseteq raced'
    BY <1>3, UnplugFacts
  <2> QED
    BY <1>1, <2>1
<1>4. ASSUME NEW q \in Paths, Alter(q)
      PROVE  /\ raced \subseteq raced' /\ queue' # <<>> /\ Head(queue') = Head(queue)
             /\ \A p : Removes(Waiting, p) # {} => Removes(Waiting', p) # {}
  <2>1. PICK ev : ev = <<Event("change", q)>>
    OBVIOUS
  <2>2. Grows(Waiting', Waiting, ev) /\ queue' = queue /\ raced \subseteq raced'
    BY <1>4, <2>1, AlterFacts
  <2> QED
    BY <1>1, <2>2
\* What is posted is the last of the queue.
<1>5. ASSUME NEW item \in Items
      PROVE  Append(queue, item) # <<>> /\ Head(Append(queue, item)) = Head(queue)
  <2>1. /\ Append(queue, item) \in Seq(Items) /\ Len(Append(queue, item)) = Len(queue) + 1
        /\ \A i \in 1..Len(queue) : Append(queue, item)[i] = queue[i]
    BY <1>0, AppendProperties
  <2>2. Len(queue) \in Nat /\ Len(queue) # 0 /\ Head(queue) = queue[1]
    BY <1>0, EmptySeq
  <2>3. Append(queue, item)[1] = queue[1]
    BY <2>1, <2>2
  <2>4. Append(queue, item) # <<>> /\ Head(Append(queue, item)) = Append(queue, item)[1]
    BY <2>1, <2>2, EmptySeq
  <2> QED
    BY <2>2, <2>3, <2>4
<1>6. CASE Receive
  <2>1. PICK item : item = [action |-> Head(unread).action, path |-> Head(unread).path,
                            kind |-> UnknownKind, content |-> NoContent]
    OBVIOUS
  <2>2. /\ reading = NULL /\ unread # <<>> /\ unread' = Tail(unread) /\ raced' = raced
        /\ \/ queue' = queue /\ Waiting' = Waiting
           \/ Head(unread).action = "add" /\ queue' = queue /\ reading' = NULL
           \/ item \in Items /\ queue' = Append(queue, item) /\ Waiting' = Waiting
    BY <1>6, <2>1, ReceiveCases
  <2>3. CASE queue' = queue /\ Waiting' = Waiting
    BY <2>2, <2>3
  <2>4. CASE Head(unread).action = "add" /\ queue' = queue /\ reading' = NULL
    <3>1. PICK t, k : t = Waiting' /\ k = Len(queue) + 1
      OBVIOUS
    <3>2. Waiting[k] = Head(unread) /\ \E f : Embeds(f, t, Waiting, k)
      BY <2>2, <2>4, <3>1, DropStep
    <3>3. PICK f : Embeds(f, t, Waiting, k)
      BY <3>2
    <3>4. ASSUME NEW p, NEW j \in Removes(Waiting, p)
          PROVE  Removes(t, p) # {}
      <4>1. j # k
        BY <2>4, <3>2, <3>4 DEF Removes, Event
      <4> QED
        BY <3>3, <4>1, EmbedFacts
    <3> QED
      BY <2>2, <2>4, <3>1, <3>4
  <2>5. CASE item \in Items /\ queue' = Append(queue, item) /\ Waiting' = Waiting
    BY <1>5, <2>2, <2>5
  <2> QED
    BY <2>2, <2>3, <2>4, <2>5
<1>7. CASE ReadParent
  <2>1. UNCHANGED <<world, queue>> /\ Waiting' = Waiting
    BY <1>7, ReadParentCases
  <2> QED
    BY <2>1 DEF world
<1>8. CASE ReadMedium
  <2>1. PICK item : item = Item(reading.event.action, Info(reading.event.path, Kind(reading.event.path), reading.sysfs))
    OBVIOUS
  <2>2. item \in Items /\ queue' = Append(queue, item) /\ Waiting' = Waiting /\ UNCHANGED world
    BY <1>8, <2>1, ReadMediumCases
  <2> QED
    BY <1>5, <2>2 DEF world
<1>9. CASE UNCHANGED vars
  <2>1. UNCHANGED <<raced, queue, unread, reading>>
    BY <1>9 DEF vars, world
  <2> QED
    BY <2>1, SameWaiting
<1>10. ~Handle /\ ~Scan
  BY DEF Handle, Scan, LookAt, ReadDevice, Probe, ReadPartition, NextDirectory, AddEnumerated, Scanning
<1> QED
  BY <1>2, <1>3, <1>4, <1>6, <1>7, <1>8, <1>9, <1>10 DEF Next, Worker, Failed, Idle

LEMMA CauseStep ==
    ASSUME TypeInv, ItemInv, ListInv, SysfsInv, CauseInv, [Next]_vars
    PROVE  CauseInv'
<1>1. CASE pc = "failed"
  <2>1. /\ raced \subseteq raced' /\ queue' # <<>> /\ Head(queue') = Head(queue)
        /\ \A p : Removes(Waiting, p) # {} => Removes(Waiting', p) # {}
    BY <1>1, FailedStays DEF CauseInv
  <2> QED
    BY <1>1, <2>1 DEF CauseInv, Plain
<1>2. CASE pc # "failed" /\ pc' # "failed"
  BY <1>2 DEF CauseInv
<1>3. CASE pc # "failed" /\ pc' = "failed"
  <2>1. Handle
    <3>1. ~UNCHANGED pc
      BY <1>3
    <3>2. ~(\E d \in Disks : Plug(d) \/ Unplug(d)) /\ ~(\E p \in Paths : Alter(p)) /\ ~Worker
      BY <3>1 DEF Plug, Unplug, Change, Alter, Worker, Receive, ReadParent, ReadMedium
    <3>3. ~(\E d \in Disks : LookAt(d)) /\ ~ReadDevice /\ ~Probe /\ ~ReadPartition
      <4>1. ~(\E d \in Disks : LookAt(d))
        BY <3>1 DEF LookAt
      <4>2. ~ReadDevice
        BY <3>1 DEF ReadDevice
      <4>3. ASSUME Probe
            PROVE  FALSE
        <5>1. pc' = pc
          BY <4>3, Zenon DEF Probe
        <5> QED
          BY <3>1, <5>1
      <4>4. ~ReadPartition
        BY <3>1 DEF ReadPartition
      <4> QED
        BY <4>1, <4>2, <4>3, <4>4
    <3>4. ~NextDirectory /\ ~AddEnumerated
      BY <1>3 DEF NextDirectory, AddEnumerated
    <3>5. ~Failed /\ ~Idle /\ ~UNCHANGED vars
      BY <3>1 DEF Failed, Idle, vars
    <3> QED
      BY <3>2, <3>3, <3>4, <3>5 DEF Next, Scan
  <2>2. PICK item : item = Head(queue)
    OBVIOUS
  <2>3. /\ queue # <<>> /\ item \in Items /\ item = queue[1] /\ 1 \in DOMAIN queue
        /\ UNCHANGED <<world, reading>> /\ queue' = queue
        /\ item.action = "change" /\ Known(item) /\ SysfsChanged(item)
    BY <1>3, <2>1, <2>2, HandleCases
  <2>4. UNCHANGED <<raced, unread, reading, queue>>
    BY <2>3 DEF world
  <2>5. Waiting' = Waiting
    BY <2>4, SameWaiting
  <2>6. PICK p : p = item.path
    OBVIOUS
  <2>7. p \in Paths
    BY <2>3, <2>6 DEF Items
  <2>8. PICK i \in DOMAIN media : media[i].path = p /\ media[i].content.sysfs # item.content.sysfs
    <3>1. Sequence(media)
      BY QueueTypes DEF GoodList
    <3> QED
      BY <2>3, <2>6, <3>1, FindFacts DEF SysfsChanged
  <2>9. ~IsPartition(p)
    BY <2>3, <2>6, <2>8 DEF ListInv, ItemInv
  <2>10. ASSUME Plain(p), p \notin raced
         PROVE  Removes(Waiting, p) # {}
    <3>1. OwnPath(p, port[p], media, enumeration, queue, reading, Waiting)
      BY <2>7, <2>9, <2>10 DEF SysfsInv, Disks
    <3>2. media[i].content.sysfs = port[p] \/ Removes(Waiting, p) # {}
      BY <2>8, <3>1 DEF OwnPath
    <3>3. Tells(queue[1], p)
      BY <2>3, <2>6 DEF Tells
    <3>4. queue[1].content.sysfs = port[p] \/ Removes(Waiting, p) # {}
      BY <2>3, <3>1, <3>3 DEF OwnPath
    <3> QED
      BY <2>3, <2>8, <3>2, <3>4
  <2> QED
    BY <2>2, <2>3, <2>4, <2>5, <2>6, <2>10 DEF CauseInv, Plain
<1> QED
  BY <1>1, <1>2, <1>3

(***************************************************************************)
(* All together.                                                           *)
(***************************************************************************)
Inv ==
    /\ TypeInv /\ WorldInv /\ ScanInv /\ ItemInv /\ ListInv /\ EnumInv
    /\ WaitInv /\ FreshInv /\ SysfsInv /\ CauseInv

LEMMA InvInit ==
    Init => Inv
<1> SUFFICES ASSUME Init
             PROVE  Inv
  OBVIOUS
<1>1. TypeInv
  BY TypeInit
<1>2. /\ unread = <<>> /\ reading = NULL /\ queue = <<>> /\ enumeration = <<>> /\ media = <<>>
      /\ pc = "scan" /\ fromStart = attached /\ raced = {}
  BY DEF Init
<1>3. DOMAIN media = {} /\ DOMAIN enumeration = {} /\ DOMAIN queue = {}
  BY <1>2
<1>4. DOMAIN Waiting = {}
  <2>1. /\ queue \in Seq(Items) /\ reading \in Readings \cup {NULL} /\ unread \in Seq(Events)
    BY <1>1, QueueTypes
  <2>2. DOMAIN Waiting = 1..(Len(queue) + Len(Unposted))
    BY <2>1, WaitingFacts DEF Waiting, Unposted
  <2>3. Unposted = <<>>
    BY <1>2 DEF Unposted, UnpostedOf
  <2>4. Len(queue) + Len(Unposted) = 0
    BY <1>2, <2>3
  <2> QED
    BY <2>2, <2>4
<1>5. \A p : Adds(Waiting, p) = {} /\ Removes(Waiting, p) = {}
  BY <1>4 DEF Adds, Removes
<1>6. Steady = Paths
  BY <1>2 DEF Steady
<1>7. \A p \in Paths : p \in attached <=> DiskOf(p) \in attached
  <2>1. PICK D \in SUBSET Disks : attached = D \cup UNION {Partitions(d) : d \in D}
    BY DEF Init
  <2>2. ASSUME NEW p \in Paths
        PROVE  p \in attached <=> DiskOf(p) \in D
    <3>1. DiskOf(p) \in Disks
      BY KindFacts
    <3>2. p \in attached <=> \E d \in D : p \in {d} \cup Partitions(d)
      BY <2>1
    <3>3. \A d \in D : p \in {d} \cup Partitions(d) <=> DiskOf(p) = d
      BY FamilyFacts
    <3> QED
      BY <3>2, <3>3
  <2>3. \A p \in Paths : DiskOf(p) \in Paths /\ DiskOf(DiskOf(p)) = DiskOf(p)
    BY DiskFacts DEF DiskOf
  <2> QED
    BY <2>2, <2>3
<1>8. \A d \in Disks : port[d] # NULL => Bus[d] = "usb"
  BY DEF Init
<1>9. WorldInv
  <2>1. fromStart \subseteq Paths
    BY <1>1, <1>2, QueueTypes
  <2> QED
    BY <1>2, <1>5, <1>6, <1>7, <1>8, <2>1 DEF WorldInv
<1>10. scan.directory = 1 /\ scan.seen = {} /\ scan.at.step = "look"
  BY DEF Init, NoDisk
<1>11. ScanInv
  <2>1. AtInv(scan, enumeration, fromStart, Steady)
    BY <1>10 DEF AtInv
  <2>2. \A k \in 1..3 : ~(k < scan.directory)
    BY <1>10
  <2>3. SeenInv(scan, enumeration, fromStart)
    BY <1>3, <1>10, <2>2 DEF SeenInv, Has
  <2> QED
    BY <2>1, <2>3 DEF ScanInv
<1>12. ItemInv
  BY <1>2, <1>3 DEF ItemInv
<1>13. ListInv
  BY <1>2, <1>3 DEF ListInv, Once
<1>14. EnumInv
  BY <1>2, <1>3 DEF EnumInv, Distinct
<1>15. Listed = {}
  BY <1>3 DEF Listed, InMedia, InEnum, Has
<1>16. WaitInv
  <2>1. ASSUME NEW p \in Steady
        PROVE  Agrees(Waiting, p, attached, fromStart, Listed)
    BY <1>2, <1>4, <1>5, <1>15
    DEF Agrees, ComesBack, GoesAway, OneByOne, ParentFirst
  <2> QED
    BY <2>1 DEF WaitInv
<1>17. FreshInv
  BY <1>3 DEF FreshInv, Fresh
<1>18. SysfsInv
  BY <1>2, <1>3 DEF SysfsInv, OwnPath
<1>19. CauseInv
  BY <1>2 DEF CauseInv
<1> QED
  BY <1>1, <1>9, <1>11, <1>12, <1>13, <1>14, <1>16, <1>17, <1>18, <1>19 DEF Inv

LEMMA InvStep ==
    ASSUME Inv, [Next]_vars
    PROVE  Inv'
<1>1. /\ TypeInv /\ WorldInv /\ ScanInv /\ ItemInv /\ ListInv /\ EnumInv
      /\ WaitInv /\ FreshInv /\ SysfsInv /\ CauseInv
  BY DEF Inv
<1>2. TypeInv'
  BY <1>1, TypeStep
<1>3. WorldInv'
  BY <1>1, WorldStep
<1>4. ScanInv'
  BY <1>1, ScanStep
<1>5. ItemInv'
  BY <1>1, ItemStep
<1>6. ListInv'
  BY <1>1, ListStep
<1>7. EnumInv'
  BY <1>1, EnumStep
<1>8. WaitInv'
  BY <1>1, <1>7, WaitStep
<1>9. FreshInv'
  BY <1>1, <1>2, <1>5, <1>6, <1>7, FreshStep
<1>10. SysfsInv'
  BY <1>1, SysfsStep
<1>11. CauseInv'
  BY <1>1, CauseStep
<1> QED
  BY <1>2, <1>3, <1>4, <1>5, <1>6, <1>7, <1>8, <1>9, <1>10, <1>11 DEF Inv

LEMMA Invariance == Spec => []Inv
<1>1. Init => Inv
  BY InvInit
<1>2. Inv /\ [Next]_vars => Inv'
  BY InvStep
<1> QED
  BY <1>1, <1>2, PTL DEF Spec

LEMMA TrueList ==
    Inv => ListIsTrue
<1> SUFFICES ASSUME Inv, Quiet, NEW p \in Paths, DiskOf(p) \notin raced
             PROVE  LET nodes == {i \in DOMAIN media : media[i].path = p}
                        shown == /\ p \in attached /\ device_subtype_from_string(p) # "unknown"
                                 /\ p \in fromStart => Enumerable(p)
                    IN  /\ Cardinality(nodes) = IF shown THEN 1 ELSE 0
                        /\ \A i \in nodes :
                              /\ media[i].kind = Kind(p)
                              /\ media[i].content.state = BlkidState(p)
                              /\ media[i].content.fstype = BlkidType(p)
  BY DEF ListIsTrue
<1> DEFINE nodes == {i \in DOMAIN media : media[i].path = p}
           shown == /\ p \in attached /\ Recognised(p)
                    /\ p \in fromStart => Enumerable(p)
<1>1. /\ TypeInv /\ ListInv /\ EnumInv /\ WaitInv /\ FreshInv /\ p \in Steady
  BY DEF Inv, Steady
<1>2. /\ pc = "loop" /\ unread = <<>> /\ reading = NULL /\ queue = <<>> /\ enumeration = <<>>
  BY <1>1 DEF Quiet, EnumInv
<1>3. DOMAIN queue = {} /\ DOMAIN enumeration = {} /\ DOMAIN Waiting = {} /\ DOMAIN Unposted = {}
  <2>1. /\ queue \in Seq(Items) /\ reading \in Readings \cup {NULL} /\ unread \in Seq(Events)
    BY <1>1, QueueTypes
  <2>2. DOMAIN Waiting = 1..(Len(queue) + Len(Unposted))
    BY <2>1, WaitingFacts DEF Waiting, Unposted
  <2>3. Unposted = <<>>
    BY <1>2 DEF Unposted, UnpostedOf
  <2>4. Len(queue) + Len(Unposted) = 0
    BY <1>2, <2>3
  <2> QED
    BY <1>2, <2>2, <2>3, <2>4
<1>4. Adds(Waiting, p) = {} /\ Removes(Waiting, p) = {}
  BY <1>3 DEF Adds, Removes
<1>5. p \in Listed <=> nodes # {}
  BY <1>3 DEF Listed, InMedia, InEnum, Has
<1>6. /\ p \in Listed => p \in attached
      /\ p \in attached \ fromStart /\ Recognised(p) => p \in Listed
  BY <1>1, <1>4 DEF WaitInv, Agrees
<1>7. p \in fromStart => (p \in Listed <=> Enumerable(p) /\ Recognised(p))
  BY <1>1, <1>2 DEF EnumInv
<1>8. \A i \in nodes : media[i].kind = Kind(p) /\ Recognised(p)
  BY <1>1 DEF ListInv
<1>9. nodes # {} <=> shown
  <2>1. fromStart \subseteq attached
    BY <1>1, QueueTypes
  <2> HIDE DEF nodes
  <2>2. nodes # {} => Recognised(p)
    BY <1>8
  <2> QED
    BY <1>5, <1>6, <1>7, <2>1, <2>2
<1>10. \A i, j \in nodes : i = j
  BY <1>1 DEF ListInv, Once
<1>11. Cardinality(nodes) = IF shown THEN 1 ELSE 0
  <2> HIDE DEF nodes, shown
  <2>1. CASE nodes = {}
    BY <1>9, <2>1, FS_EmptySet
  <2>2. CASE nodes # {}
    <3>1. PICK i : nodes = {i}
      BY <1>10, <2>2
    <3> QED
      BY <1>9, <2>2, <3>1, FS_Singleton
  <2> QED
    BY <2>1, <2>2
<1>12. ASSUME NEW i \in nodes
       PROVE  media[i].content.state = BlkidState(p) /\ media[i].content.fstype = BlkidType(p)
  <2>1. p \in attached
    BY <1>9, <1>12
  <2>2. ~Due(Unposted, p) /\ ~Told(queue, p) /\ ~Has(enumeration, p)
    BY <1>3 DEF Due, Told, Has
  <2>3. Fresh(p, queue, enumeration, media, BlkidState(p), BlkidType(p))
    BY <1>1, <2>1, <2>2 DEF FreshInv
  <2> QED
    BY <1>12, <2>2, <2>3 DEF Fresh
<1> QED
  BY <1>8, <1>11, <1>12 DEF Recognised

\* ListIsTrue: when the worker has nothing to read and the main loop nothing to
\* handle, add_media, remove_media and change_media have made the list what the
\* devices are, with their present media, however the reads of sysfs and of the
\* medium were interleaved with devices that came and went.
THEOREM ListIsTrueCorrect == Spec => []ListIsTrue
  BY Invariance, TrueList, PTL

LEMMA GoodCause ==
    Inv => FailsForCause
<1> SUFFICES ASSUME Inv, pc = "failed", NEW p, p = Head(queue).path, Plain(p), p \notin raced
             PROVE  \/ \E i \in DOMAIN queue : queue[i].action = "remove" /\ queue[i].path = p
                    \/ \E i \in DOMAIN unread : unread[i] = Event("remove", p)
  BY DEF FailsForCause, Plain
<1>1. TypeInv /\ ItemInv /\ CauseInv
  BY DEF Inv
<1>2. /\ queue \in Seq(Items) /\ reading \in Readings \cup {NULL} /\ unread \in Seq(Events) /\ NULL \notin Readings
  BY <1>1, QueueTypes
<1>3. PICK k \in DOMAIN Waiting : Waiting[k] = Event("remove", p)
  BY <1>1 DEF CauseInv, Removes
<1>4. /\ Len(queue) \in Nat /\ Len(Unposted) \in Nat
      /\ DOMAIN queue = 1..Len(queue) /\ DOMAIN Unposted = 1..Len(Unposted)
      /\ DOMAIN Waiting = 1..(Len(queue) + Len(Unposted))
      /\ \A i \in DOMAIN queue : Waiting[i] = Event(queue[i].action, queue[i].path)
      /\ \A j \in DOMAIN Unposted : Waiting[Len(queue) + j] = Unposted[j]
  BY <1>2, WaitingFacts DEF Waiting, Unposted
<1>5. CASE k <= Len(queue)
  <2>1. k \in DOMAIN queue
    BY <1>4, <1>5
  <2>2. Event(queue[k].action, queue[k].path) = Event("remove", p)
    BY <1>3, <1>4, <2>1
  <2> QED
    BY <2>1, <2>2 DEF Event
<1>6. CASE k > Len(queue)
  <2>1. PICK j : j = k - Len(queue)
    OBVIOUS
  <2>2. j \in DOMAIN Unposted /\ Len(queue) + j = k
    BY <1>4, <1>6, <2>1
  <2>3. Unposted[j] = Event("remove", p)
    BY <1>3, <1>4, <2>2
  <2>4. CASE reading = NULL
    BY <2>2, <2>3, <2>4 DEF Unposted, UnpostedOf
  <2>5. CASE reading # NULL
    <3>1. PICK s : s = <<reading.event>>
      OBVIOUS
    <3>2. \A i \in DOMAIN s : s[i] = reading.event
      BY <3>1
    <3>3. Grows(Unposted, s, unread)
      BY <1>2, <2>5, <3>1, UnpostedFacts DEF Unposted
    <3>4. \/ j \in DOMAIN s /\ Unposted[j] = s[j]
          \/ \E l \in DOMAIN unread : Unposted[j] = unread[l]
      BY <2>2, <3>3, GrowPlaces
    <3>5. reading.event # Event("remove", p)
      BY <1>1, <2>5 DEF ItemInv, Event
    <3> QED
      BY <2>3, <3>2, <3>4, <3>5
  <2> QED
    BY <2>4, <2>5
<1> QED
  BY <1>4, <1>5, <1>6

\* FailsForCause: the check of the sysfs path in change_media, which ends the
\* daemon, fails only for a CD-ROM at a USB port, for a disk that came or went
\* during the enumeration, or while the removal of the device is on the way.
THEOREM FailsForCauseCorrect == Spec => []FailsForCause
  BY Invariance, GoodCause, PTL
=============================================================================
