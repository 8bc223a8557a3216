------------------------- MODULE DaemonMediaProofs -------------------------
(***************************************************************************)
(* Proofs about the daemon's picture of the removable devices, for any     *)
(* devices and mounts, and any number of changes of them.                  *)
(***************************************************************************)
EXTENDS DaemonMedia, MediaListProofs

Worlds == [Paths -> Attributes \cup {NULL}]

\* A partition is there only together with its disk.
Rooted(w) == \A p \in Paths : w[p] # NULL /\ IsPartition(p) => w[ParentOf[p]] # NULL

Listed(m, p) == \E i \in DOMAIN m : m[i].path = p

ShapeInv ==
    /\ world \in Worlds /\ Rooted(world)
    /\ mounts \in Seq(Entries) /\ queue \in Seq(Events) /\ enumeration \in Seq(Paths)
    /\ ready \in [monitor : BOOLEAN, mounts : BOOLEAN, client : BOOLEAN]
    /\ mount_event \in BOOLEAN /\ force_mounts_check \in BOOLEAN /\ duplicated \in BOOLEAN

\* A node of the list knows whether it is mounted.
NodeOK(n) == n \in Nodes /\ Counted(n) /\ (n.mnt_point # NULL <=> n.mnt_opts # NULL)

\* The list is an ordered tree, of which a device that was added twice is the only
\* duplicate.
ListInv ==
    /\ Sequence(media) /\ Tree(media) /\ Ordered(media)
    /\ \A i \in DOMAIN media : NodeOK(media[i])
    /\ ~duplicated => Distinct(media)

\* Where the daemon is says what is left of the startup, in which a disk comes
\* before its partitions.
PhaseInv ==
    /\ pc \in {"scan", "enumerate", "poll", "monitor", "mounts", "clients", "exit"}
    /\ pc = "scan" => media = <<>>
    /\ pc \notin {"enumerate", "exit"} => enumeration = <<>>
    /\ pc = "enumerate" =>
          \A k \in DOMAIN enumeration : IsPartition(enumeration[k]) =>
              \/ Listed(media, ParentOf[enumeration[k]])
              \/ \E j \in 1..(k - 1) : enumeration[j] = ParentOf[enumeration[k]]
    /\ pc = "monitor" /\ ready.monitor => queue # <<>>

\* The devices after an event, and before it.
Step(w, e, v) ==
    /\ v = [w EXCEPT ![e.path] = IF e.action = "remove" THEN NULL ELSE e.attr]
    /\ e.action = "change" => w[e.path] # NULL

\* hist[k] are the devices after k of the events that are still in the queue: the
\* last is the world as it is.
Chain(hist, q, w) ==
    /\ hist \in [0..Len(q) -> Worlds] /\ hist[Len(q)] = w
    /\ \A k \in DOMAIN q : Step(hist[k - 1], q[k], hist[k])
    /\ \A k \in 0..Len(q) : Rooted(hist[k])

\* The list shows a device as it was.
Known(p, m, w) ==
    IF w[p] = NULL THEN ~Listed(m, p)
    ELSE \E i \in DOMAIN m : m[i].path = p /\ m[i].content = w[p].content

Pending(action, p, q) == \E k \in DOMAIN q : q[k].action = action /\ q[k].path = p

\* The list shows a device as it was before the events of the queue, or these will
\* put it right: the removal comes, or a change or the addition of a device that
\* is listed already.
Explained(p, m, w, q) ==
    \/ Known(p, m, w)
    \/ Pending("remove", p, q)
    \/ Listed(m, p) /\ (Pending("change", p, q) \/ Pending("add", p, q))

\* What the list shows follows from the world by the events that are still to come.
HistoryInv ==
    pc # "exit" /\ ~duplicated =>
        \E hist : /\ Chain(hist, queue, world)
                  /\ pc # "scan" => \A p \in Paths \ ToSet(enumeration) : Explained(p, media, hist[0], queue)

\* The mounts are to be checked.
Unchecked ==
    \/ mount_event \/ pc \in {"scan", "enumerate"}
    \/ ready.mounts /\ pc \in {"monitor", "mounts"}
    \/ force_mounts_check /\ pc = "mounts"

\* The list shows the mounts as they are, unless they are to be checked.
ShownInv ==
    ~duplicated /\ ~Unchecked =>
        \A i \in DOMAIN media : media[i].path \notin late =>
            LET e == FirstEntry(mounts, media[i].path)
            IN  media[i].mnt_point = IF e = 0 THEN NULL ELSE mounts[e].dir

Inv == ShapeInv /\ ListInv /\ PhaseInv /\ HistoryInv /\ ShownInv

LEMMA NodeFacts ==
    ASSUME NEW n, NodeOK(n)
    PROVE  IsNode(n) /\ Counted(n) /\ n.path \in Paths
  BY DEF NodeOK, Nodes, IsNode

LEMMA NodeIntro ==
    ASSUME NEW n, IsNode(n), n.path \in Paths, n.kind \in Kinds, n.content \in Contents,
           n.mnt_point \in Dirs \cup {NULL}, n.mnt_opts \in Opts \cup {NULL}, n.mount_counter \in {0, 1}
    PROVE  n \in Nodes
  BY DEF IsNode, Nodes

\* The mounts file has no empty entry.
LEMMA EntriesFacts ==
    ASSUME mounts \in Seq(Entries)
    PROVE  /\ Sequence(mounts)
           /\ \A k \in DOMAIN mounts :
                 /\ mounts[k].dev \in Paths /\ mounts[k].dir \in Dirs /\ mounts[k].opts \in Opts
                 /\ mounts[k].dir # NULL /\ mounts[k].opts # NULL
<1>1. NULL \notin Dirs /\ NULL \notin Opts
  BY DeviceAssumption
<1>2. \A k \in DOMAIN mounts : mounts[k] \in Entries
  OBVIOUS
<1> QED
  BY <1>1, <1>2, SequenceOf DEF Entries

\* The list and check_mount_changes.
LEMMA CheckedList ==
    ASSUME ListInv, mounts \in Seq(Entries)
    PROVE  LET r == check_mount_changes(media, mounts)
           IN  /\ Sequence(r) /\ Tree(r) /\ Ordered(r) /\ DOMAIN r = DOMAIN media
               /\ \A i \in DOMAIN r : NodeOK(r[i]) /\ r[i].path = media[i].path /\ r[i].content = media[i].content
               /\ ~duplicated => Distinct(r)
               /\ ~duplicated => \A i \in DOMAIN r :
                     LET e == FirstEntry(mounts, r[i].path)
                     IN  r[i].mnt_point = IF e = 0 THEN NULL ELSE mounts[e].dir
<1> DEFINE r == check_mount_changes(media, mounts)
<1>1. /\ Sequence(mounts)
      /\ \A k \in DOMAIN mounts :
            /\ mounts[k].dev \in Paths /\ mounts[k].dir \in Dirs /\ mounts[k].opts \in Opts
            /\ mounts[k].dir # NULL /\ mounts[k].opts # NULL
  BY EntriesFacts
<1>2. Sequence(media) /\ \A i \in DOMAIN media : IsNode(media[i]) /\ Counted(media[i])
  BY NodeFacts DEF ListInv
<1>3. /\ Sequence(r) /\ DOMAIN r = DOMAIN media
      /\ \A i \in DOMAIN media :
            LET e == EntryOf(media, mounts, i)
            IN  /\ IsNode(r[i]) /\ Counted(r[i]) /\ (e = 0 \/ e \in DOMAIN mounts)
                /\ r[i].path = media[i].path /\ r[i].kind = media[i].kind
                /\ r[i].content = media[i].content
                /\ r[i].mnt_point = IF e = 0 THEN NULL ELSE mounts[e].dir
                /\ r[i].mnt_opts = IF e = 0 /\ media[i].mnt_point = NULL THEN media[i].mnt_opts
                                   ELSE IF e = 0 THEN NULL ELSE mounts[e].opts
  BY <1>1, <1>2, CheckFacts
<1> HIDE DEF r
<1>4. Tree(r) /\ Ordered(r) /\ (~duplicated => Distinct(r))
  BY <1>2, <1>3, SamePaths DEF ListInv
<1>5. ASSUME NEW i \in DOMAIN r
      PROVE  NodeOK(r[i])
  <2> DEFINE e == EntryOf(media, mounts, i)
             n == media[i]
             c == r[i]
  <2>1. /\ IsNode(c) /\ Counted(c) /\ (e = 0 \/ e \in DOMAIN mounts)
        /\ c.path = n.path /\ c.kind = n.kind /\ c.content = n.content
        /\ c.mnt_point = (IF e = 0 THEN NULL ELSE mounts[e].dir)
        /\ c.mnt_opts = IF e = 0 /\ n.mnt_point = NULL THEN n.mnt_opts
                        ELSE IF e = 0 THEN NULL ELSE mounts[e].opts
    BY <1>3
  <2>2. NodeOK(n)
    BY <1>3 DEF ListInv
  <2>3. n.path \in Paths /\ n.kind \in Kinds /\ n.content \in Contents /\ (n.mnt_point # NULL <=> n.mnt_opts # NULL)
    BY <2>2 DEF NodeOK, Nodes
  <2> HIDE DEF e, n, c
  <2>4. c.mnt_point \in Dirs \cup {NULL} /\ c.mnt_opts \in Opts \cup {NULL} /\ (c.mnt_point # NULL <=> c.mnt_opts # NULL)
    BY <1>1, <2>1, <2>3
  <2>5. c \in Nodes
    BY <2>1, <2>3, <2>4, NodeIntro DEF Counted
  <2> QED
    BY <2>1, <2>4, <2>5 DEF NodeOK, c
<1>6. ASSUME ~duplicated, NEW i \in DOMAIN r
      PROVE  EntryOf(media, mounts, i) = FirstEntry(mounts, r[i].path)
  <2>1. Distinct(media) /\ r[i].path = media[i].path /\ i \in DOMAIN media
    BY <1>3, <1>6 DEF ListInv
  <2>2. find_media(media, media[i].path) = i
    BY <1>2, <2>1, FindsIt
  <2> QED
    BY <2>1, <2>2 DEF EntryOf
<1> QED
  BY <1>3, <1>4, <1>5, <1>6 DEF r

\* The list and add_media.
LEMMA AddedList ==
    ASSUME ListInv, NEW p \in Paths, NEW attr \in Attributes, HasParent(media, p)
    PROVE  LET r == add_media(media, p, attr.kind, attr.content)
               new == Node(p, attr.kind, attr.content)
           IN  /\ Sequence(r) /\ Tree(r) /\ Ordered(r)
               /\ \A i \in DOMAIN r : NodeOK(r[i])
               /\ \A k \in DOMAIN r : r[k] = new \/ \E j \in DOMAIN media : r[k] = media[j]
               /\ \A j \in DOMAIN media : \E k \in DOMAIN r : r[k] = media[j]
               /\ \E k \in DOMAIN r : r[k] = new
               /\ ~duplicated /\ find_media(media, p) = 0 => Distinct(r)
               /\ new.path = p /\ new.content = attr.content /\ new.mnt_point = NULL
<1> DEFINE r == add_media(media, p, attr.kind, attr.content)
           new == Node(p, attr.kind, attr.content)
<1>1. Sequence(media) /\ \A i \in DOMAIN media : media[i].path \in Paths
  BY NodeFacts DEF ListInv
<1>2. /\ Sequence(r)
      /\ \A k \in DOMAIN r : r[k] = new \/ \E j \in DOMAIN media : r[k] = media[j]
      /\ \A j \in DOMAIN media : \E k \in DOMAIN r : r[k] = media[j]
      /\ \E k \in DOMAIN r : r[k] = new
      /\ Distinct(media) /\ find_media(media, p) = 0 => Distinct(r)
      /\ Tree(r) /\ Ordered(r)
  BY <1>1, AddFacts DEF ListInv
<1>3. NodeOK(new) /\ new.path = p /\ new.content = attr.content /\ new.mnt_point = NULL
  BY DEF NodeOK, Nodes, Node, Counted, Attributes
<1> HIDE DEF r, new
<1>4. \A i \in DOMAIN r : NodeOK(r[i])
  BY <1>2, <1>3 DEF ListInv
<1> QED
  BY <1>2, <1>3, <1>4 DEF ListInv, r, new

\* The list and remove_media.
LEMMA RemovedList ==
    ASSUME ListInv, NEW p \in Paths, find_media(media, p) # 0
    PROVE  LET r == remove_media(media, p)
           IN  /\ Sequence(r) /\ Tree(r) /\ Ordered(r)
               /\ \A i \in DOMAIN r : NodeOK(r[i]) /\ \E j \in DOMAIN media : r[i] = media[j]
               /\ \A j \in DOMAIN media : media[j].path # p /\ ParentOf[media[j].path] # p =>
                     \E k \in DOMAIN r : r[k] = media[j]
               /\ ~duplicated => Distinct(r)
               /\ ~duplicated => \A k \in DOMAIN r : r[k].path # p /\ ParentOf[r[k].path] # p
<1> DEFINE r == remove_media(media, p)
<1>1. Sequence(media) /\ \A i \in DOMAIN media : media[i].path \in Paths
  BY NodeFacts DEF ListInv
<1>2. /\ Sequence(r)
      /\ \A k \in DOMAIN r : \E j \in DOMAIN media : r[k] = media[j]
      /\ Distinct(media) => Distinct(r)
      /\ \A j \in DOMAIN media : media[j].path # p /\ ParentOf[media[j].path] # p =>
            \E k \in DOMAIN r : r[k] = media[j]
      /\ Tree(r) /\ (Ordered(media) => Ordered(r))
      /\ Distinct(media) => \A k \in DOMAIN r : r[k].path # p /\ ParentOf[r[k].path] # p
  BY <1>1, RemoveFacts DEF ListInv
<1> HIDE DEF r
<1>3. \A i \in DOMAIN r : NodeOK(r[i])
  BY <1>2 DEF ListInv
<1> QED
  BY <1>2, <1>3 DEF ListInv, r

\* The list and change_media.
LEMMA ChangedList ==
    ASSUME ListInv, NEW p \in Paths, NEW attr \in Attributes
    PROVE  LET r == change_media(media, p, attr.kind, attr.content)
           IN  /\ Sequence(r) /\ Tree(r) /\ Ordered(r) /\ DOMAIN r = DOMAIN media
               /\ \A i \in DOMAIN r :
                     /\ NodeOK(r[i]) /\ r[i].path = media[i].path
                     /\ r[i].content = IF i = find_media(media, p) THEN attr.content ELSE media[i].content
               /\ ~duplicated => Distinct(r)
<1> DEFINE r == change_media(media, p, attr.kind, attr.content)
<1>1. Sequence(media) /\ \A i \in DOMAIN media : IsNode(media[i]) /\ Counted(media[i])
  BY NodeFacts DEF ListInv
<1>2. /\ Sequence(r) /\ DOMAIN r = DOMAIN media
      /\ \A i \in DOMAIN media :
            /\ IsNode(r[i]) /\ Counted(r[i])
            /\ r[i].path = media[i].path /\ r[i].kind = media[i].kind
            /\ r[i].content = IF i = find_media(media, p) THEN attr.content ELSE media[i].content
            /\ r[i].mnt_point = IF i = find_media(media, p) THEN NULL ELSE media[i].mnt_point
            /\ r[i].mnt_opts = IF i = find_media(media, p) THEN NULL ELSE media[i].mnt_opts
  BY <1>1, ChangeFacts
<1> HIDE DEF r
<1>3. Tree(r) /\ Ordered(r) /\ (~duplicated => Distinct(r))
  BY <1>1, <1>2, SamePaths DEF ListInv
<1>4. ASSUME NEW i \in DOMAIN r
      PROVE  NodeOK(r[i])
  <2> DEFINE n == media[i]
             c == r[i]
  <2>1. /\ n.path \in Paths /\ n.kind \in Kinds /\ n.content \in Contents /\ attr.content \in Contents
        /\ n.mnt_point \in Dirs \cup {NULL} /\ n.mnt_opts \in Opts \cup {NULL}
        /\ n.mnt_point # NULL <=> n.mnt_opts # NULL
    BY <1>2 DEF ListInv, NodeOK, Nodes, Attributes
  <2>2. /\ IsNode(c) /\ Counted(c) /\ c.path = n.path /\ c.kind = n.kind
        /\ c.content = attr.content \/ c.content = n.content
        /\ (c.mnt_point = NULL /\ c.mnt_opts = NULL) \/ (c.mnt_point = n.mnt_point /\ c.mnt_opts = n.mnt_opts)
    BY <1>2
  <2> HIDE DEF n, c
  <2>3. c \in Nodes
    BY <2>1, <2>2, NodeIntro DEF Counted
  <2> QED
    BY <2>1, <2>2, <2>3 DEF NodeOK, c
<1> QED
  BY <1>2, <1>3, <1>4 DEF r

LEMMA EmptyFacts ==
    /\ Sequence(<<>>) /\ DOMAIN <<>> = {} /\ ToSet(<<>>) = {}
    /\ Tree(<<>>) /\ Ordered(<<>>) /\ Distinct(<<>>)
  BY DEF Sequence, ToSet, Tree, Ordered, Distinct

\* What the environment does to the devices keeps partitions with their disks.
LEMMA WorldStep ==
    ASSUME ShapeInv,
           \/ \E p \in Paths, attr \in Attributes : Plug(p, attr) \/ Alter(p, attr)
           \/ \E p \in Paths : Unplug(p)
    PROVE  \E p \in Paths, attr \in Attributes, action \in {"add", "remove", "change"} :
              LET e == [action |-> action, path |-> p, attr |-> attr]
              IN  /\ Step(world, e, world') /\ Emit(action, p, attr) /\ e \in Events
                  /\ world' \in Worlds /\ Rooted(world')
<1>0. world \in Worlds /\ Rooted(world)
  BY DEF ShapeInv
<1>a. \A attr \in Attributes : attr # NULL
  BY DeviceAssumption
<1>1. ASSUME NEW p \in Paths, NEW attr \in Attributes, Plug(p, attr)
      PROVE  LET e == [action |-> "add", path |-> p, attr |-> attr]
             IN  /\ Step(world, e, world') /\ Emit("add", p, attr) /\ e \in Events
                 /\ world' \in Worlds /\ Rooted(world')
  <2> DEFINE e == [action |-> "add", path |-> p, attr |-> attr]
  <2>1. /\ world' = [world EXCEPT ![p] = attr] /\ Emit("add", p, attr)
        /\ IsPartition(p) => world[ParentOf[p]] # NULL
    BY <1>1 DEF Plug
  <2>2. e \in Events /\ Step(world, e, world')
    BY <2>1 DEF Events, Step
  <2>3. world' \in Worlds
    BY <1>0, <2>1 DEF Worlds
  <2>4. Rooted(world')
    BY <1>0, <1>a, <2>1 DEF Worlds, Rooted
  <2> QED
    BY <2>1, <2>2, <2>3, <2>4
<1>2. ASSUME NEW p \in Paths, NEW attr \in Attributes, Alter(p, attr)
      PROVE  LET e == [action |-> "change", path |-> p, attr |-> attr]
             IN  /\ Step(world, e, world') /\ Emit("change", p, attr) /\ e \in Events
                 /\ world' \in Worlds /\ Rooted(world')
  <2> DEFINE e == [action |-> "change", path |-> p, attr |-> attr]
  <2>1. world[p] # NULL /\ world' = [world EXCEPT ![p] = attr] /\ Emit("change", p, attr)
    BY <1>2 DEF Alter
  <2>2. e \in Events /\ Step(world, e, world')
    BY <2>1 DEF Events, Step
  <2>3. world' \in Worlds
    BY <1>0, <2>1 DEF Worlds
  <2>4. Rooted(world')
    BY <1>0, <1>a, <2>1 DEF Worlds, Rooted
  <2> QED
    BY <2>1, <2>2, <2>3, <2>4
<1>3. ASSUME NEW p \in Paths, Unplug(p)
      PROVE  LET e == [action |-> "remove", path |-> p, attr |-> world[p]]
             IN  /\ Step(world, e, world') /\ Emit("remove", p, world[p]) /\ e \in Events
                 /\ world' \in Worlds /\ Rooted(world') /\ world[p] \in Attributes
  <2> DEFINE e == [action |-> "remove", path |-> p, attr |-> world[p]]
  <2>1. /\ world[p] # NULL /\ world' = [world EXCEPT ![p] = NULL] /\ Emit("remove", p, world[p])
        /\ \A q \in Paths : ParentOf[q] = p => world[q] = NULL
    BY <1>3 DEF Unplug
  <2>2. world[p] \in Attributes
    BY <1>0, <2>1 DEF Worlds
  <2>3. e \in Events /\ Step(world, e, world')
    BY <2>1, <2>2 DEF Events, Step
  <2>4. world' \in Worlds
    BY <1>0, <2>1 DEF Worlds
  <2>5. Rooted(world')
    BY <1>0, <2>1 DEF Worlds, Rooted
  <2> QED
    BY <2>1, <2>2, <2>3, <2>4, <2>5
<1> QED
  BY <1>1, <1>2, <1>3

\* What the environment does to the mounts.
LEMMA MountsStep ==
    ASSUME ShapeInv,
           \/ \E e \in Entries : Mount(e)
           \/ \E k \in DOMAIN mounts : Unmount(k) \/ \E opts \in Opts : Remount(k, opts)
    PROVE  mounts' \in Seq(Entries) /\ MountsBecome(mounts')
<1>1. ASSUME NEW e \in Entries, Mount(e)
      PROVE  mounts' \in Seq(Entries) /\ MountsBecome(mounts')
  BY <1>1 DEF ShapeInv, Mount, MountsBecome
<1>2. ASSUME NEW k \in DOMAIN mounts, Unmount(k)
      PROVE  mounts' \in Seq(Entries) /\ MountsBecome(mounts')
  <2>1. mounts' = RemoveAt(mounts, k) /\ MountsBecome(mounts')
    BY <1>2 DEF Unmount, MountsBecome
  <2>2. mounts \in Seq(Entries) /\ Sequence(mounts)
    BY EntriesFacts DEF ShapeInv
  <2>3. Sequence(mounts') /\ \A i \in DOMAIN mounts' : \E j \in DOMAIN mounts : mounts'[i] = mounts[j]
    BY <2>1, <2>2, RemoveAtFacts
  <2>4. \A i \in DOMAIN mounts' : mounts'[i] \in Entries
    BY <2>2, <2>3
  <2>5. ToSet(mounts') \subseteq Entries
    BY <2>4 DEF ToSet
  <2> QED
    BY <2>1, <2>3, <2>5 DEF Sequence
<1>3. ASSUME NEW k \in DOMAIN mounts, NEW opts \in Opts, Remount(k, opts)
      PROVE  mounts' \in Seq(Entries) /\ MountsBecome(mounts')
  <2>1. mounts' = [mounts EXCEPT ![k].opts = opts] /\ MountsBecome(mounts')
    BY <1>3 DEF Remount, MountsBecome
  <2>2. mounts \in Seq(Entries) /\ mounts[k] \in Entries
    BY DEF ShapeInv
  <2>3. [mounts[k] EXCEPT !.opts = opts] \in Entries
    BY <2>2 DEF Entries
  <2>4. mounts' = [mounts EXCEPT ![k] = [mounts[k] EXCEPT !.opts = opts]]
    BY <2>1
  <2> DEFINE new == [mounts[k] EXCEPT !.opts = opts]
  <2> HIDE DEF new
  <2>5. new \in Entries /\ mounts' = [mounts EXCEPT ![k] = new]
    BY <2>3, <2>4 DEF new
  <2> QED
    BY <2>1, <2>2, <2>5
<1> QED
  BY <1>1, <1>2, <1>3

\* A device event is sent.
Emitted(p, attr, action) ==
    LET e == [action |-> action, path |-> p, attr |-> attr]
    IN  /\ Step(world, e, world') /\ e \in Events /\ queue' = Append(queue, e) /\ pc # "exit"
        /\ world' \in Worlds /\ Rooted(world')
        /\ UNCHANGED <<mounts, mount_event, daemon, media, duplicated, late>>

\* What a step does to the daemon and its surroundings, apart from the client.
LEMMA NextCases ==
    ASSUME ShapeInv, [Next]_vars
    PROVE  \/ UNCHANGED <<world, mounts, queue, mount_event, daemon, media, duplicated, late>>
           \/ \E p \in Paths, attr \in Attributes, action \in {"add", "remove", "change"} :
                 Emitted(p, attr, action)
           \/ /\ mounts' \in Seq(Entries) /\ mount_event' = TRUE /\ pc # "exit"
              /\ UNCHANGED <<world, queue, daemon, media, duplicated, late>>
           \/ Daemon \/ Exit
<1>1. CASE \/ \E p \in Paths, attr \in Attributes : Plug(p, attr) \/ Alter(p, attr)
           \/ \E p \in Paths : Unplug(p)
  <2>1. PICK p \in Paths, attr \in Attributes, action \in {"add", "remove", "change"} :
              LET e == [action |-> action, path |-> p, attr |-> attr]
              IN  /\ Step(world, e, world') /\ Emit(action, p, attr) /\ e \in Events
                  /\ world' \in Worlds /\ Rooted(world')
    BY <1>1, WorldStep
  <2>2. Emitted(p, attr, action)
    BY <2>1 DEF Emit, Emitted
  <2> QED
    BY <2>2
<1>2. CASE \/ \E e \in Entries : Mount(e)
           \/ \E k \in DOMAIN mounts : Unmount(k) \/ \E opts \in Opts : Remount(k, opts)
  <2>1. mounts' \in Seq(Entries) /\ MountsBecome(mounts')
    BY <1>2, MountsStep
  <2> QED
    BY <2>1 DEF MountsBecome
<1>3. CASE ClientAsks \/ Terminated \/ UNCHANGED vars
  BY <1>3 DEF ClientAsks, Terminated, vars, env
<1> QED
  BY <1>1, <1>2, <1>3 DEF Next, Environment

LEMMA ShapeStep ==
    ASSUME Inv, [Next]_vars
    PROVE  ShapeInv'
<1>0. ShapeInv
  BY DEF Inv
<1>1. CASE UNCHANGED <<world, mounts, queue, mount_event, daemon, media, duplicated, late>>
  BY <1>0, <1>1 DEF ShapeInv, daemon
<1>2. ASSUME NEW p \in Paths, NEW attr \in Attributes, NEW action \in {"add", "remove", "change"},
             Emitted(p, attr, action)
      PROVE  ShapeInv'
  <2>1. queue' \in Seq(Events)
    BY <1>0, <1>2 DEF ShapeInv, Emitted
  <2> QED
    BY <1>0, <1>2, <2>1 DEF ShapeInv, Emitted, daemon
<1>3. CASE /\ mounts' \in Seq(Entries) /\ mount_event' = TRUE
           /\ UNCHANGED <<world, queue, daemon, media, duplicated, late>>
  BY <1>0, <1>3 DEF ShapeInv, daemon
<1>4. CASE EnumerateDevices
  <2> DEFINE S == {p \in Paths : world[p] # NULL}
  <2>1. enumeration' \in [1..Cardinality(S) -> S] /\ UNCHANGED <<env, ready, force_mounts_check, duplicated>>
    BY <1>4 DEF EnumerateDevices, Sortings
  <2>2. S \subseteq Paths /\ IsFiniteSet(S) /\ Cardinality(S) \in Nat
    BY PathAssumption, FS_Subset, FS_CardinalityType
  <2> HIDE DEF S
  <2>3. enumeration' \in [1..Cardinality(S) -> Paths]
    BY <2>1, <2>2
  <2>4. enumeration' \in Seq(Paths)
    BY <2>2, <2>3
  <2> QED
    BY <1>0, <2>1, <2>4 DEF ShapeInv, env
<1>5. CASE NextEnumeratedDevice
  <2>1. /\ enumeration # <<>> /\ enumeration' = Tail(enumeration) /\ UNCHANGED <<env, ready, force_mounts_check>>
    BY <1>5 DEF NextEnumeratedDevice
  <2>2. enumeration' \in Seq(Paths)
    BY <1>0, <2>1 DEF ShapeInv
  <2>3. duplicated' \in BOOLEAN
    BY <1>0, <1>5 DEF NextEnumeratedDevice, AddDevice, ShapeInv
  <2> QED
    BY <1>0, <2>1, <2>2, <2>3 DEF ShapeInv, env
<1>6. CASE FirstCheck \/ HandleMounts
  <2>1. UNCHANGED <<env, enumeration, ready, duplicated>> /\ force_mounts_check' \in BOOLEAN
    BY <1>0, <1>6 DEF FirstCheck, HandleMounts, CheckMounts, ShapeInv
  <2> QED
    BY <1>0, <2>1 DEF ShapeInv, env
<1>7. CASE Poll
  <2>1. /\ ready' = [monitor |-> queue # <<>>, mounts |-> mount_event, client |-> client = "asking"]
        /\ mount_event' = FALSE
        /\ UNCHANGED <<world, mounts, queue, changes, enumeration, force_mounts_check, media, duplicated>>
    BY <1>7 DEF Poll
  <2>2. ready' \in [monitor : BOOLEAN, mounts : BOOLEAN, client : BOOLEAN]
    BY <1>0, <2>1 DEF ShapeInv
  <2> QED
    BY <1>0, <2>1, <2>2 DEF ShapeInv
<1>8. CASE MonitorGetDevice
  <2>1. UNCHANGED <<world, mounts, mount_event, changes, enumeration, ready>>
    BY <1>8 DEF MonitorGetDevice
  <2>2. queue' \in Seq(Events)
    <3>1. CASE ready.monitor
      <4>1. queue # <<>> /\ queue' = Tail(queue)
        BY <1>8, <3>1 DEF MonitorGetDevice, Inv, PhaseInv
      <4> QED
        BY <1>0, <4>1 DEF ShapeInv
    <3>2. CASE ~ready.monitor
      BY <1>0, <1>8, <3>2 DEF MonitorGetDevice, ShapeInv
    <3> QED
      BY <3>1, <3>2
  <2>3. duplicated' \in BOOLEAN /\ force_mounts_check' \in BOOLEAN
    BY <1>0, <1>8 DEF MonitorGetDevice, AddDevice, ShapeInv
  <2> QED
    BY <1>0, <2>1, <2>2, <2>3 DEF ShapeInv
<1>9. CASE HandleClients
  <2>1. ready' = Nothing /\ UNCHANGED <<env, enumeration, force_mounts_check, media, duplicated, late>>
    BY <1>9 DEF HandleClients
  <2>2. ready' \in [monitor : BOOLEAN, mounts : BOOLEAN, client : BOOLEAN]
    BY <2>1 DEF Nothing
  <2> QED
    BY <1>0, <2>1, <2>2 DEF ShapeInv, env
<1>10. CASE Exit
  BY <1>0, <1>10 DEF Exit, ShapeInv, env
<1> QED
  BY <1>0, <1>1, <1>2, <1>3, <1>4, <1>5, <1>6, <1>7, <1>8, <1>9, <1>10, NextCases DEF Daemon

\* find_media finds what is listed.
LEMMA ListedFacts ==
    ASSUME NEW m, Sequence(m), NEW p
    PROVE  Listed(m, p) <=> find_media(m, p) # 0
  BY FindFacts DEF Listed

\* add_media puts a device into the list.
Adds(p, attr) ==
    /\ HasParent(media, p) /\ media' = add_media(media, p, attr.kind, attr.content)
    /\ duplicated' = (duplicated \/ find_media(media, p) # 0)
    /\ late' = IF FirstEntry(mounts, p) # 0 THEN late \cup {p} ELSE late

\* The ways an event is taken from the queue.
LEMMA MonitorCases ==
    ASSUME Inv, MonitorGetDevice
    PROVE  LET e == Head(queue)
           IN  /\ pc = "monitor" /\ pc' = "mounts"
               /\ UNCHANGED <<world, mounts, mount_event, enumeration, ready>>
               /\ \/ UNCHANGED <<queue, media, force_mounts_check, duplicated, late>>
                  \/ /\ queue # <<>> /\ queue' = Tail(queue) /\ e \in Events
                     /\ \/ e.action = "add" /\ Adds(e.path, e.attr) /\ UNCHANGED force_mounts_check
                        \/ /\ e.action = "remove" /\ find_media(media, e.path) # 0
                           /\ media' = remove_media(media, e.path)
                           /\ late' = {q \in late : find_media(media', q) # 0}
                           /\ UNCHANGED <<force_mounts_check, duplicated>>
                        \/ /\ e.action = "change" /\ force_mounts_check' = TRUE
                           /\ media' = change_media(media, e.path, e.attr.kind, e.attr.content)
                           /\ UNCHANGED <<duplicated, late>>
                        \/ /\ \/ e.action = "remove" /\ find_media(media, e.path) = 0
                              \/ e.action \in {"add", "change"} /\ ~Removable(e.path)
                              \/ e.action = "add" /\ ~HasParent(media, e.path)
                           /\ UNCHANGED <<media, force_mounts_check, duplicated, late>>
<1> DEFINE e == Head(queue)
<1>1. pc = "monitor" /\ pc' = "mounts" /\ UNCHANGED <<world, mounts, mount_event, enumeration, ready>>
  BY DEF MonitorGetDevice
<1>2. CASE ~ready.monitor
  BY <1>1, <1>2 DEF MonitorGetDevice
<1>3. CASE ready.monitor
  <2>1. queue # <<>> /\ queue' = Tail(queue) /\ queue \in Seq(Events)
    BY <1>1, <1>3 DEF MonitorGetDevice, Inv, PhaseInv, ShapeInv
  <2>2. e \in Events
    BY <2>1
  <2>3. e.action \in {"add", "remove", "change"}
    BY <2>2 DEF Events
  <2>4. \/ e.action = "add" /\ Removable(e.path) /\ AddDevice(e.path, e.attr) /\ UNCHANGED force_mounts_check
        \/ /\ e.action = "remove" /\ find_media(media, e.path) # 0
           /\ media' = remove_media(media, e.path)
           /\ late' = {q \in late : find_media(media', q) # 0}
           /\ UNCHANGED <<force_mounts_check, duplicated>>
        \/ /\ e.action = "change" /\ force_mounts_check' = TRUE
           /\ media' = change_media(media, e.path, e.attr.kind, e.attr.content)
           /\ UNCHANGED <<duplicated, late>>
        \/ /\ IF e.action = "remove" THEN find_media(media, e.path) = 0 ELSE ~Removable(e.path)
           /\ UNCHANGED <<media, force_mounts_check, duplicated, late>>
    BY <1>3 DEF MonitorGetDevice
  <2>5. ASSUME AddDevice(e.path, e.attr)
        PROVE  Adds(e.path, e.attr) \/ (~HasParent(media, e.path) /\ UNCHANGED <<media, duplicated, late>>)
    BY <2>5 DEF AddDevice, Adds
  <2> HIDE DEF e
  <2>6. \/ e.action = "add" /\ Adds(e.path, e.attr) /\ UNCHANGED force_mounts_check
        \/ /\ e.action = "remove" /\ find_media(media, e.path) # 0
           /\ media' = remove_media(media, e.path)
           /\ late' = {q \in late : find_media(media', q) # 0}
           /\ UNCHANGED <<force_mounts_check, duplicated>>
        \/ /\ e.action = "change" /\ force_mounts_check' = TRUE
           /\ media' = change_media(media, e.path, e.attr.kind, e.attr.content)
           /\ UNCHANGED <<duplicated, late>>
        \/ /\ \/ e.action = "remove" /\ find_media(media, e.path) = 0
              \/ e.action \in {"add", "change"} /\ ~Removable(e.path)
              \/ e.action = "add" /\ ~HasParent(media, e.path)
           /\ UNCHANGED <<media, force_mounts_check, duplicated, late>>
    BY <2>3, <2>4, <2>5
  <2> QED
    BY <1>1, <2>1, <2>2, <2>6 DEF e
<1> QED
  BY <1>2, <1>3

\* The ways an enumerated device is visited: its disk has been before.
LEMMA EnumerateCases ==
    ASSUME Inv, NextEnumeratedDevice
    PROVE  LET p == Head(enumeration)
           IN  /\ pc = "enumerate" /\ enumeration # <<>> /\ enumeration' = Tail(enumeration) /\ p \in Paths
               /\ UNCHANGED <<env, ready, force_mounts_check>>
               /\ \/ pc' = pc /\ world[p] # NULL /\ world[p] \in Attributes /\ Adds(p, world[p])
                  \/ pc' = "exit" /\ media' = <<>> /\ UNCHANGED duplicated
<1> DEFINE p == Head(enumeration)
<1>1. /\ pc = "enumerate" /\ enumeration # <<>> /\ enumeration' = Tail(enumeration)
      /\ UNCHANGED <<env, ready, force_mounts_check>>
      /\ IF world[p] # NULL THEN pc' = pc /\ AddDevice(p, world[p])
         ELSE pc' = "exit" /\ media' = <<>> /\ UNCHANGED duplicated
  BY DEF NextEnumeratedDevice
<1>2. enumeration \in Seq(Paths) /\ Sequence(enumeration)
  BY SequenceOf DEF Inv, ShapeInv
<1>3. p \in Paths /\ p = enumeration[1] /\ 1 \in DOMAIN enumeration
  BY <1>1, <1>2, TailFacts
<1>4. IsPartition(p) => Listed(media, ParentOf[p])
  BY <1>1, <1>3 DEF Inv, PhaseInv
<1>5. HasParent(media, p)
  BY <1>4, ListedFacts DEF HasParent, Inv, ListInv
<1>6. world[p] # NULL => world[p] \in Attributes
  BY <1>3 DEF Inv, ShapeInv, Worlds
<1> QED
  BY <1>1, <1>3, <1>5, <1>6 DEF AddDevice, Adds

LEMMA ListStep ==
    ASSUME Inv, [Next]_vars
    PROVE  ListInv'
<1>0. ShapeInv /\ ListInv /\ mounts \in Seq(Entries) /\ duplicated \in BOOLEAN
  BY DEF Inv, ShapeInv
<1>1. CASE UNCHANGED <<media, duplicated>>
  BY <1>0, <1>1 DEF ListInv
<1>2. ASSUME NEW p \in Paths, NEW attr \in Attributes, Adds(p, attr)
      PROVE  ListInv'
  <2>1. /\ HasParent(media, p) /\ media' = add_media(media, p, attr.kind, attr.content)
        /\ ~duplicated' => ~duplicated /\ find_media(media, p) = 0
    BY <1>0, <1>2 DEF Adds
  <2>2. /\ Sequence(media') /\ Tree(media') /\ Ordered(media')
        /\ \A i \in DOMAIN media' : NodeOK(media'[i])
        /\ ~duplicated /\ find_media(media, p) = 0 => Distinct(media')
    BY <1>0, <2>1, AddedList
  <2> QED
    BY <2>1, <2>2 DEF ListInv
<1>3. CASE media' = check_mount_changes(media, mounts) /\ UNCHANGED duplicated
  <2>1. /\ Sequence(media') /\ Tree(media') /\ Ordered(media') /\ DOMAIN media' = DOMAIN media
        /\ \A i \in DOMAIN media' : NodeOK(media'[i])
        /\ ~duplicated => Distinct(media')
    BY <1>0, <1>3, CheckedList
  <2> QED
    BY <1>3, <2>1 DEF ListInv
<1>4. CASE media' = <<>>
  BY <1>4, EmptyFacts DEF ListInv
<1>5. CASE MonitorGetDevice
  <2> DEFINE e == Head(queue)
  <2>1. CASE e \in Events /\ e.action = "add" /\ Adds(e.path, e.attr)
    BY <1>2, <2>1 DEF Events
  <2>2. CASE /\ e \in Events /\ find_media(media, e.path) # 0
             /\ media' = remove_media(media, e.path) /\ UNCHANGED duplicated
    <3>1. e.path \in Paths
      BY <2>2 DEF Events
    <3> HIDE DEF e
    <3>2. /\ Sequence(media') /\ Tree(media') /\ Ordered(media')
          /\ \A i \in DOMAIN media' : NodeOK(media'[i])
          /\ ~duplicated => Distinct(media')
      BY <1>0, <2>2, <3>1, RemovedList
    <3> QED
      BY <2>2, <3>2 DEF ListInv
  <2>3. CASE /\ e \in Events /\ UNCHANGED duplicated
             /\ media' = change_media(media, e.path, e.attr.kind, e.attr.content)
    <3>1. e.path \in Paths /\ e.attr \in Attributes
      BY <2>3 DEF Events
    <3> HIDE DEF e
    <3>2. /\ Sequence(media') /\ Tree(media') /\ Ordered(media')
          /\ \A i \in DOMAIN media' : NodeOK(media'[i])
          /\ ~duplicated => Distinct(media')
      BY <1>0, <2>3, <3>1, ChangedList
    <3> QED
      BY <2>3, <3>2 DEF ListInv
  <2> HIDE DEF e
  <2> QED
    BY <1>1, <1>5, <2>1, <2>2, <2>3, MonitorCases DEF e
<1>6. CASE NextEnumeratedDevice
  BY <1>2, <1>4, <1>6, EnumerateCases
<1>7. CASE FirstCheck \/ HandleMounts
  BY <1>1, <1>3, <1>7 DEF FirstCheck, HandleMounts, CheckMounts
<1>8. CASE EnumerateDevices \/ Poll \/ HandleClients
  BY <1>1, <1>8 DEF EnumerateDevices, Poll, HandleClients
<1>9. CASE Exit
  BY <1>4, <1>9 DEF Exit
<1>10. ASSUME NEW p, NEW attr, NEW action, Emitted(p, attr, action)
       PROVE  UNCHANGED <<media, duplicated>>
  BY <1>10 DEF Emitted
<1> QED
  BY <1>0, <1>1, <1>5, <1>6, <1>7, <1>8, <1>9, <1>10, NextCases DEF Daemon

\* The enumeration has what is plugged in, each disk before its partitions.
LEMMA EnumerationFacts ==
    ASSUME ShapeInv, EnumerateDevices
    PROVE  /\ \A p \in Paths : world[p] # NULL => p \in ToSet(enumeration')
           /\ \A k \in DOMAIN enumeration' : IsPartition(enumeration'[k]) =>
                 \E j \in 1..(k - 1) : enumeration'[j] = ParentOf[enumeration'[k]]
<1> DEFINE S == {p \in Paths : world[p] # NULL}
           n == Cardinality(S)
<1>1. PICK order : order = enumeration'
  OBVIOUS
<1>2. order \in [1..n -> S] /\ \A i, j \in 1..n : i < j => Rank[order[i]] < Rank[order[j]]
  BY <1>1 DEF EnumerateDevices, Sortings
<1>3. S \subseteq Paths /\ IsFiniteSet(S) /\ \A p \in S : Rank[p] \in Nat
  BY PathAssumption, FS_Subset
<1>4. \A p \in S : IsPartition(p) => ParentOf[p] \in S /\ Rank[ParentOf[p]] < Rank[p]
  BY DiskFacts, DeviceAssumption DEF ShapeInv, Rooted
<1> HIDE DEF S, n
<1>5. \A i, j \in 1..n : i < j => order[i] # order[j]
  BY <1>2, <1>3
<1>6. /\ n \in Nat /\ DOMAIN order = 1..n
      /\ \A x \in S : \E i \in DOMAIN order : order[i] = x
  BY <1>2, <1>3, <1>5, OntoFacts DEF n
<1>7. \A p \in Paths : world[p] # NULL => p \in ToSet(order)
  BY <1>6 DEF ToSet, S
<1>8. ASSUME NEW k \in DOMAIN order, IsPartition(order[k])
      PROVE  \E j \in 1..(k - 1) : order[j] = ParentOf[order[k]]
  <2>1. k \in 1..n /\ order[k] \in S
    BY <1>2, <1>6
  <2>2. PICK j \in 1..n : order[j] = ParentOf[order[k]]
    BY <1>4, <1>6, <1>8, <2>1
  <2>3. Rank[order[j]] < Rank[order[k]] /\ Rank[order[j]] \in Nat /\ Rank[order[k]] \in Nat
    BY <1>2, <1>3, <1>4, <1>8, <2>1, <2>2
  <2>4. ~(Rank[order[k]] < Rank[order[j]]) /\ j # k
    BY <2>3
  <2>5. ~(k < j)
    BY <1>2, <2>1, <2>4
  <2>6. j \in 1..(k - 1)
    BY <1>6, <2>1, <2>4, <2>5
  <2> QED
    BY <2>2, <2>6
<1> QED
  BY <1>1, <1>7, <1>8

LEMMA PhaseStep ==
    ASSUME Inv, [Next]_vars
    PROVE  PhaseInv'
<1>0. PhaseInv /\ ShapeInv /\ ListInv
  BY DEF Inv
<1>1. CASE UNCHANGED <<queue, daemon, media>>
  BY <1>0, <1>1 DEF PhaseInv, daemon
<1>2. ASSUME NEW p, NEW attr, NEW action, Emitted(p, attr, action)
      PROVE  PhaseInv'
  <2>1. queue \in Seq(Events) /\ UNCHANGED <<daemon, media>>
        /\ queue' = Append(queue, [action |-> action, path |-> p, attr |-> attr])
        /\ [action |-> action, path |-> p, attr |-> attr] \in Events
    BY <1>0, <1>2 DEF Emitted, ShapeInv
  <2>2. queue' # <<>>
    BY <2>1
  <2> QED
    BY <1>0, <2>1, <2>2 DEF PhaseInv, daemon
<1>3. CASE EnumerateDevices
  <2>1. pc' = "enumerate"
    BY <1>3 DEF EnumerateDevices
  <2>2. \A k \in DOMAIN enumeration' : IsPartition(enumeration'[k]) =>
            \E j \in 1..(k - 1) : enumeration'[j] = ParentOf[enumeration'[k]]
    BY <1>0, <1>3, EnumerationFacts
  <2> QED
    BY <2>1, <2>2 DEF PhaseInv
<1>4. CASE NextEnumeratedDevice
  <2> DEFINE p == Head(enumeration)
  <2>0. /\ pc = "enumerate" /\ enumeration # <<>> /\ enumeration' = Tail(enumeration) /\ p \in Paths
        /\ \/ pc' = pc /\ world[p] # NULL /\ world[p] \in Attributes /\ Adds(p, world[p])
           \/ pc' = "exit"
    BY <1>4, EnumerateCases
  <2>1. CASE pc' = "exit"
    BY <2>1 DEF PhaseInv
  <2>2. CASE pc' = pc /\ world[p] # NULL /\ world[p] \in Attributes /\ Adds(p, world[p])
    <3> HIDE DEF p
    <3>1. /\ Sequence(enumeration) /\ enumeration[1] = p
          /\ \A i \in DOMAIN Tail(enumeration) : i + 1 \in DOMAIN enumeration /\ Tail(enumeration)[i] = enumeration[i + 1]
          /\ Sequence(Tail(enumeration))
      BY <1>0, <2>0, SequenceOf, TailFacts DEF ShapeInv, p
    <3> DEFINE new == Node(p, world[p].kind, world[p].content)
    <3>2. /\ \A j \in DOMAIN media : \E k \in DOMAIN media' : media'[k] = media[j]
          /\ \E k \in DOMAIN media' : media'[k] = new
          /\ new.path = p
      <4>1. HasParent(media, p) /\ media' = add_media(media, p, world[p].kind, world[p].content)
        BY <2>2 DEF Adds
      <4> QED
        BY <1>0, <2>0, <2>2, <4>1, AddedList
    <3> HIDE DEF new
    <3>3. Listed(media', p) /\ \A x : Listed(media, x) => Listed(media', x)
      BY <3>2 DEF Listed
    <3>4. ASSUME NEW k \in DOMAIN enumeration', IsPartition(enumeration'[k])
          PROVE  \/ Listed(media', ParentOf[enumeration'[k]])
                 \/ \E j \in 1..(k - 1) : enumeration'[j] = ParentOf[enumeration'[k]]
      <4>1. k + 1 \in DOMAIN enumeration /\ enumeration'[k] = enumeration[k + 1]
        BY <2>0, <3>1
      <4>2. \/ Listed(media, ParentOf[enumeration[k + 1]])
            \/ \E j \in 1..((k + 1) - 1) : enumeration[j] = ParentOf[enumeration[k + 1]]
        BY <1>0, <2>0, <3>4, <4>1 DEF PhaseInv
      <4>3. CASE Listed(media, ParentOf[enumeration[k + 1]])
        BY <3>3, <4>1, <4>3
      <4>4. ASSUME NEW j \in 1..((k + 1) - 1), enumeration[j] = ParentOf[enumeration[k + 1]]
            PROVE  \/ Listed(media', ParentOf[enumeration'[k]])
                   \/ \E i \in 1..(k - 1) : enumeration'[i] = ParentOf[enumeration'[k]]
        <5>1. CASE j = 1
          BY <3>1, <3>3, <4>1, <4>4, <5>1
        <5>2. CASE j # 1
          <6>1. Len(Tail(enumeration)) \in Nat /\ DOMAIN Tail(enumeration) = 1..Len(Tail(enumeration))
            BY <3>1, SequenceFacts
          <6>2. \A l \in Nat : k \in 1..l => j - 1 \in 1..l /\ j - 1 \in 1..(k - 1) /\ (j - 1) + 1 = j
            BY <5>2
          <6>3. j - 1 \in DOMAIN Tail(enumeration) /\ j - 1 \in 1..(k - 1) /\ (j - 1) + 1 = j
            BY <2>0, <6>1, <6>2
          <6>4. enumeration'[j - 1] = enumeration[j]
            BY <2>0, <3>1, <6>3
          <6> QED
            BY <4>1, <4>4, <6>3, <6>4
        <5> QED
          BY <5>1, <5>2
      <4> QED
        BY <4>2, <4>3, <4>4
    <3> QED
      BY <2>0, <2>2, <3>4 DEF PhaseInv
  <2> QED
    BY <2>0, <2>1, <2>2
<1>5. CASE FirstCheck \/ HandleMounts
  <2>1. pc' \in {"poll", "clients"} /\ UNCHANGED enumeration /\ enumeration = <<>>
    BY <1>0, <1>5 DEF FirstCheck, HandleMounts, PhaseInv
  <2> QED
    BY <2>1 DEF PhaseInv
<1>6. CASE Poll
  <2>1. /\ pc = "poll" /\ pc' = "monitor" /\ UNCHANGED <<queue, enumeration>>
        /\ ready' = [monitor |-> queue # <<>>, mounts |-> mount_event, client |-> client = "asking"]
    BY <1>6 DEF Poll
  <2>2. ready'.monitor <=> queue # <<>>
    BY <2>1
  <2> QED
    BY <1>0, <2>1, <2>2 DEF PhaseInv
<1>7. CASE MonitorGetDevice
  <2>1. pc = "monitor" /\ pc' = "mounts" /\ UNCHANGED enumeration
    BY <1>7 DEF MonitorGetDevice
  <2> QED
    BY <1>0, <2>1 DEF PhaseInv
<1>8. CASE HandleClients
  <2>1. pc = "clients" /\ pc' = "poll" /\ UNCHANGED enumeration
    BY <1>8 DEF HandleClients
  <2> QED
    BY <1>0, <2>1 DEF PhaseInv
<1>9. CASE Exit
  BY <1>9 DEF Exit, PhaseInv
<1> QED
  BY <1>0, <1>1, <1>2, <1>3, <1>4, <1>5, <1>6, <1>7, <1>8, <1>9, NextCases DEF Daemon

\* The mounts are shown as they are after a check.
LEMMA ShownStep ==
    ASSUME Inv, [Next]_vars
    PROVE  ShownInv'
<1>0. ShownInv /\ ShapeInv /\ ListInv /\ PhaseInv
  BY DEF Inv
<1> DEFINE Right(n) == LET e == FirstEntry(mounts, n.path)
                       IN  n.mnt_point = IF e = 0 THEN NULL ELSE mounts[e].dir
<1>1. ASSUME UNCHANGED <<media, mounts, late, duplicated>>, Unchecked => Unchecked'
      PROVE  ShownInv'
  BY <1>0, <1>1 DEF ShownInv
<1>2. CASE UNCHANGED <<world, mounts, queue, mount_event, daemon, media, duplicated, late>>
  BY <1>1, <1>2 DEF Unchecked, daemon
<1>3. ASSUME NEW p, NEW attr, NEW action, Emitted(p, attr, action)
      PROVE  ShownInv'
  BY <1>1, <1>3 DEF Emitted, Unchecked, daemon
<1>4. CASE mount_event' = TRUE
  BY <1>4 DEF ShownInv, Unchecked
<1>5. CASE media' = check_mount_changes(media, mounts) /\ UNCHANGED <<mounts, duplicated>>
  <2>1. ~duplicated => \A i \in DOMAIN media' : Right(media'[i])
    BY <1>0, <1>5, CheckedList DEF ShapeInv
  <2> QED
    BY <1>5, <2>1 DEF ShownInv
<1>6. CASE pc' = "enumerate"
  BY <1>6 DEF ShownInv, Unchecked
<1>7. CASE media' = <<>>
  BY <1>7, EmptyFacts DEF ShownInv
<1>8. CASE HandleMounts /\ ~ready.mounts /\ ~force_mounts_check
  <2>1. /\ UNCHANGED <<media, mounts, late, duplicated, mount_event>> /\ pc = "mounts"
    BY <1>8 DEF HandleMounts, env
  <2>2. Unchecked => Unchecked'
    BY <1>8, <2>1 DEF Unchecked
  <2> QED
    BY <1>1, <2>1, <2>2
<1>9. CASE Poll
  <2>1. /\ pc = "poll" /\ pc' = "monitor" /\ UNCHANGED <<media, mounts, late, duplicated>>
        /\ ready' = [monitor |-> queue # <<>>, mounts |-> mount_event, client |-> client = "asking"]
    BY <1>9 DEF Poll
  <2>2. ready'.mounts = mount_event
    BY <2>1
  <2>3. Unchecked => Unchecked'
    BY <2>1, <2>2 DEF Unchecked
  <2> QED
    BY <1>1, <2>1, <2>3
<1>10. CASE HandleClients
  <2>1. pc = "clients" /\ UNCHANGED <<media, mounts, late, duplicated, mount_event>>
    BY <1>10 DEF HandleClients, env
  <2>2. Unchecked => Unchecked'
    BY <2>1 DEF Unchecked
  <2> QED
    BY <1>1, <2>1, <2>2
<1>11. CASE MonitorGetDevice
  <2> DEFINE e == Head(queue)
  <2>0. pc = "monitor" /\ pc' = "mounts" /\ UNCHANGED <<mounts, mount_event, ready>>
    BY <1>11, MonitorCases
  <2>1. Unchecked => Unchecked'
    BY <2>0 DEF Unchecked
  <2>2. SUFFICES ASSUME ~duplicated', ~Unchecked',
                        NEW i \in DOMAIN media', media'[i].path \notin late'
                 PROVE  Right(media'[i])
    BY <2>0 DEF ShownInv
  <2>3. ASSUME NEW j \in DOMAIN media, ~duplicated, media[j].path \notin late
        PROVE  Right(media[j])
    BY <1>0, <2>1, <2>2, <2>3 DEF ShownInv
  <2> HIDE DEF Right
  <2>4. CASE UNCHANGED <<media, duplicated, late>>
    BY <2>2, <2>3, <2>4
  <2>5. CASE e \in Events /\ Adds(e.path, e.attr)
    <3> DEFINE p == e.path
               new == Node(e.path, e.attr.kind, e.attr.content)
    <3>1. p \in Paths /\ e.attr \in Attributes
      BY <2>5 DEF Events
    <3> HIDE DEF e
    <3>2. /\ HasParent(media, p) /\ media' = add_media(media, p, e.attr.kind, e.attr.content)
          /\ ~duplicated
          /\ late' = IF FirstEntry(mounts, p) # 0 THEN late \cup {p} ELSE late
      BY <1>0, <2>2, <2>5 DEF Adds, ShapeInv
    <3>3. /\ \A k \in DOMAIN media' : media'[k] = new \/ \E j \in DOMAIN media : media'[k] = media[j]
          /\ new.path = p /\ new.mnt_point = NULL
      BY <1>0, <3>1, <3>2, AddedList
    <3> HIDE DEF new, p
    <3>4. CASE media'[i] = new
      <4>1. FirstEntry(mounts, p) = 0
        BY <2>2, <3>2, <3>3, <3>4
      <4> QED
        BY <3>3, <3>4, <4>1 DEF Right
    <3>5. CASE \E j \in DOMAIN media : media'[i] = media[j]
      <4>1. PICK j \in DOMAIN media : media'[i] = media[j]
        BY <3>5
      <4>2. media[j].path \notin late
        BY <2>2, <3>2, <4>1
      <4> QED
        BY <2>3, <3>2, <4>1, <4>2
    <3> QED
      BY <3>3, <3>4, <3>5
  <2>6. CASE /\ e \in Events /\ find_media(media, e.path) # 0 /\ media' = remove_media(media, e.path)
             /\ late' = {q \in late : find_media(media', q) # 0} /\ UNCHANGED duplicated
    <3>1. e.path \in Paths
      BY <2>6 DEF Events
    <3> HIDE DEF e
    <3>2. Sequence(media') /\ \E j \in DOMAIN media : media'[i] = media[j]
      BY <1>0, <2>6, <3>1, RemovedList
    <3>3. PICK j \in DOMAIN media : media'[i] = media[j]
      BY <3>2
    <3>4. find_media(media', media'[i].path) # 0
      BY <3>2, FindFacts
    <3>5. media[j].path \notin late
      BY <2>2, <2>6, <3>3, <3>4
    <3> QED
      BY <2>2, <2>3, <2>6, <3>3, <3>5
  <2>7. CASE force_mounts_check' = TRUE
    BY <2>0, <2>2, <2>7 DEF Unchecked
  <2> HIDE DEF e
  <2> QED
    BY <1>11, <2>4, <2>5, <2>6, <2>7, MonitorCases DEF e
<1>12. CASE NextEnumeratedDevice \/ EnumerateDevices
  BY <1>6, <1>7, <1>12, EnumerateCases DEF EnumerateDevices
<1>13. CASE FirstCheck \/ (HandleMounts /\ (ready.mounts \/ force_mounts_check))
  BY <1>5, <1>13 DEF FirstCheck, HandleMounts, CheckMounts, env
<1>14. CASE Exit
  BY <1>7, <1>14 DEF Exit
<1> QED
  BY <1>0, <1>2, <1>3, <1>4, <1>8, <1>9, <1>10, <1>11, <1>12, <1>13, <1>14, NextCases DEF Daemon

\* One event more.
LEMMA ChainAppend ==
    ASSUME NEW hist, NEW q \in Seq(Events), NEW w, Chain(hist, q, w),
           NEW e \in Events, NEW v \in Worlds, Rooted(v), Step(w, e, v)
    PROVE  \E h : Chain(h, Append(q, e), v) /\ h[0] = hist[0]
<1> DEFINE n == Len(q)
           r == Append(q, e)
           h == [k \in 0..(n + 1) |-> IF k = n + 1 THEN v ELSE hist[k]]
<1>1. n \in Nat /\ DOMAIN q = 1..n /\ Len(r) = n + 1 /\ DOMAIN r = 1..(n + 1)
      /\ r[n + 1] = e /\ \A k \in 1..n : r[k] = q[k]
  OBVIOUS
<1>2. /\ hist \in [0..n -> Worlds] /\ hist[n] = w
      /\ \A k \in 1..n : Step(hist[k - 1], q[k], hist[k])
      /\ \A k \in 0..n : Rooted(hist[k])
  BY <1>1 DEF Chain
<1> HIDE DEF n, r
<1>3. \A k \in 0..(n + 1) : k = n + 1 \/ (k \in 0..n /\ k # n + 1)
  BY <1>1
<1>4. h \in [0..(n + 1) -> Worlds] /\ \A k \in 0..(n + 1) : Rooted(h[k])
  BY <1>2, <1>3
<1>5. /\ n + 1 \in 0..(n + 1) /\ h[n + 1] = v
      /\ \A k \in 0..n : k \in 0..(n + 1) /\ h[k] = hist[k]
      /\ 0 \in 0..n /\ n \in 0..n /\ (n + 1) - 1 = n
  BY <1>1
<1> HIDE DEF h
<1>6. ASSUME NEW k \in 1..(n + 1)
      PROVE  Step(h[k - 1], r[k], h[k])
  <2>1. CASE k = n + 1
    BY <1>1, <1>2, <1>5, <2>1
  <2>2. CASE k # n + 1
    <3>1. k \in 1..n /\ k - 1 \in 0..n /\ k \in 0..n
      BY <1>1, <2>2
    <3> QED
      BY <1>1, <1>2, <1>5, <3>1
  <2> QED
    BY <2>1, <2>2
<1>7. Chain(h, r, v)
  BY <1>1, <1>4, <1>5, <1>6 DEF Chain
<1> QED
  BY <1>5, <1>7 DEF r

\* One event less.
LEMMA ChainTail ==
    ASSUME NEW hist, NEW q \in Seq(Events), q # <<>>, NEW w, Chain(hist, q, w)
    PROVE  \E h : /\ Chain(h, Tail(q), w) /\ Step(hist[0], Head(q), h[0])
                  /\ hist[0] \in Worlds /\ h[0] \in Worlds /\ Rooted(h[0])
<1> DEFINE n == Len(q)
           r == Tail(q)
           h == [k \in 0..(n - 1) |-> hist[k + 1]]
<1>1. /\ n \in Nat /\ n >= 1 /\ DOMAIN q = 1..n /\ Len(r) = n - 1 /\ DOMAIN r = 1..(n - 1)
      /\ q[1] = Head(q) /\ \A k \in 1..(n - 1) : r[k] = q[k + 1]
  OBVIOUS
<1>2. /\ hist \in [0..n -> Worlds] /\ hist[n] = w
      /\ \A k \in 1..n : Step(hist[k - 1], q[k], hist[k])
      /\ \A k \in 0..n : Rooted(hist[k])
  BY <1>1 DEF Chain
<1> HIDE DEF n, r
<1>3. \A k \in 0..(n - 1) : k + 1 \in 0..n /\ k + 1 \in 1..n /\ (k + 1) - 1 = k
  BY <1>1
<1>4. h \in [0..(n - 1) -> Worlds] /\ \A k \in 0..(n - 1) : Rooted(h[k]) /\ h[k] = hist[k + 1]
  BY <1>2, <1>3
<1>5. 0 \in 0..(n - 1) /\ n - 1 \in 0..(n - 1) /\ (n - 1) + 1 = n /\ 0 \in 0..n /\ 1 \in 1..n /\ 0 + 1 = 1 /\ 1 - 1 = 0
  BY <1>1
<1> HIDE DEF h
<1>6. ASSUME NEW k \in 1..(n - 1)
      PROVE  Step(h[k - 1], r[k], h[k])
  <2>1. k - 1 \in 0..(n - 1) /\ (k - 1) + 1 = k /\ k \in 0..(n - 1) /\ k + 1 \in 1..n /\ (k + 1) - 1 = k
    BY <1>1
  <2> QED
    BY <1>1, <1>2, <1>4, <2>1
<1>7. Chain(h, r, w)
  BY <1>1, <1>2, <1>4, <1>5, <1>6 DEF Chain
<1>8. Step(hist[0], Head(q), h[0])
  BY <1>1, <1>2, <1>4, <1>5
<1> QED
  BY <1>2, <1>4, <1>5, <1>7, <1>8 DEF r

\* A device that is there and later is not was removed in between.
LEMMA GoneFacts ==
    ASSUME NEW hist, NEW q \in Seq(Events), NEW w, Chain(hist, q, w), NEW p \in Paths,
           NEW b \in 0..Len(q), hist[0][p] # NULL, hist[b][p] = NULL
    PROVE  Pending("remove", p, q)
<1> DEFINE n == Len(q)
           T == {k \in 0..n : hist[k][p] = NULL}
<1>1. n \in Nat /\ DOMAIN q = 1..n /\ \A k \in 1..n : q[k] \in Events
  OBVIOUS
<1>2. /\ hist \in [0..n -> Worlds]
      /\ \A k \in 1..n : Step(hist[k - 1], q[k], hist[k])
  BY <1>1 DEF Chain
<1>3. T \in SUBSET Nat /\ b \in T
  BY <1>1
<1>4. PICK k \in T : \A y \in T : k <= y
  BY <1>3, MinFacts
<1>5. k \in 1..n /\ k - 1 \in 0..n /\ ~(k <= k - 1) /\ hist[k][p] = NULL
  BY <1>1, <1>4
<1>6. hist[k - 1][p] # NULL
  BY <1>4, <1>5
<1>7. hist[k] = [hist[k - 1] EXCEPT ![q[k].path] = IF q[k].action = "remove" THEN NULL ELSE q[k].attr]
  BY <1>2, <1>5 DEF Step
<1>8. hist[k - 1] \in Worlds /\ q[k].attr # NULL /\ q[k].action \in {"add", "remove", "change"}
  BY <1>1, <1>2, <1>5, DeviceAssumption DEF Events
<1> HIDE DEF T, n
<1>9. q[k].path = p /\ q[k].action = "remove"
  BY <1>5, <1>6, <1>7, <1>8 DEF Worlds
<1> QED
  BY <1>1, <1>5, <1>9 DEF Pending

\* A device of which no event is in the queue is as it was.
LEMMA SameFacts ==
    ASSUME NEW hist, NEW q \in Seq(Events), NEW w, Chain(hist, q, w), NEW p \in Paths,
           \A a \in {"add", "remove", "change"} : ~Pending(a, p, q)
    PROVE  hist[0][p] = w[p]
<1> DEFINE n == Len(q)
           T == {k \in 0..n : hist[k][p] # hist[0][p]}
<1>1. n \in Nat /\ DOMAIN q = 1..n /\ \A k \in 1..n : q[k] \in Events
  OBVIOUS
<1>2. /\ hist \in [0..n -> Worlds] /\ hist[n] = w
      /\ \A k \in 1..n : Step(hist[k - 1], q[k], hist[k])
  BY <1>1 DEF Chain
<1>3. SUFFICES ASSUME w[p] # hist[0][p]
               PROVE  FALSE
  OBVIOUS
<1>4. T \in SUBSET Nat /\ n \in T
  BY <1>1, <1>2, <1>3
<1>5. PICK k \in T : \A y \in T : k <= y
  BY <1>4, MinFacts
<1>6. k \in 1..n /\ k - 1 \in 0..n /\ ~(k <= k - 1) /\ hist[k][p] # hist[0][p]
  BY <1>1, <1>5
<1>7. hist[k - 1][p] = hist[0][p]
  BY <1>5, <1>6
<1>8. hist[k] = [hist[k - 1] EXCEPT ![q[k].path] = IF q[k].action = "remove" THEN NULL ELSE q[k].attr]
  BY <1>2, <1>6 DEF Step
<1>9. hist[k - 1] \in Worlds /\ q[k].action \in {"add", "remove", "change"} /\ q[k].path # p
  BY <1>1, <1>2, <1>6 DEF Events, Pending
<1> HIDE DEF T, n
<1> QED
  BY <1>6, <1>7, <1>8, <1>9 DEF Worlds

\* What comes is the first event or one of the others.
LEMMA PendingFacts ==
    ASSUME NEW q \in Seq(Events), NEW a, NEW p
    PROVE  /\ q # <<>> /\ Pending(a, p, q) =>
                 (Head(q).action = a /\ Head(q).path = p) \/ Pending(a, p, Tail(q))
           /\ \A e \in Events : Pending(a, p, q) => Pending(a, p, Append(q, e))
<1>1. ASSUME q # <<>>, Pending(a, p, q)
      PROVE  (Head(q).action = a /\ Head(q).path = p) \/ Pending(a, p, Tail(q))
  <2>1. PICK k \in DOMAIN q : q[k].action = a /\ q[k].path = p
    BY <1>1 DEF Pending
  <2>2. CASE k = 1
    BY <1>1, <2>1, <2>2
  <2>3. CASE k # 1
    <3>1. k - 1 \in DOMAIN Tail(q) /\ Tail(q)[k - 1] = q[k]
      BY <1>1, <2>3
    <3> QED
      BY <2>1, <3>1 DEF Pending
  <2> QED
    BY <2>2, <2>3
<1>2. ASSUME NEW e \in Events, Pending(a, p, q)
      PROVE  Pending(a, p, Append(q, e))
  <2>1. PICK k \in DOMAIN q : q[k].action = a /\ q[k].path = p
    BY <1>2 DEF Pending
  <2>2. k \in DOMAIN Append(q, e) /\ Append(q, e)[k] = q[k]
    OBVIOUS
  <2> QED
    BY <2>1, <2>2 DEF Pending
<1> QED
  BY <1>1, <1>2

\* Two lists show the same of a device.
ShownAlike(p, m, r) ==
    \A c : (\E i \in DOMAIN m : m[i].path = p /\ m[i].content = c)
           <=> (\E i \in DOMAIN r : r[i].path = p /\ r[i].content = c)

LEMMA AlikeFacts ==
    ASSUME NEW p, NEW m, NEW r, NEW w, NEW v, ShownAlike(p, m, r), w[p] = v[p]
    PROVE  (Known(p, m, w) <=> Known(p, r, v)) /\ (Listed(m, p) <=> Listed(r, p))
<1>1. Listed(m, p) <=> Listed(r, p)
  BY DEF ShownAlike, Listed
<1> QED
  BY <1>1 DEF ShownAlike, Known

\* The event of a device leaves the others explained.
LEMMA OthersExplained ==
    ASSUME NEW q \in Seq(Events), q # <<>>, NEW p, Head(q).path # p,
           NEW m, NEW r, ShownAlike(p, m, r), NEW w, NEW v, w[p] = v[p], Explained(p, m, w, q)
    PROVE  Explained(p, r, v, Tail(q))
  BY AlikeFacts, PendingFacts DEF Explained

\* An event that is taken leaves every device explained by those that remain.
LEMMA EventExplained ==
    ASSUME Inv, MonitorGetDevice, ~duplicated'
    PROVE  \E h : Chain(h, queue', world') /\ \A p \in Paths : Explained(p, media', h[0], queue')
<1> DEFINE e == Head(queue)
           p == e.path
<1>0. /\ ShapeInv /\ ListInv /\ duplicated \in BOOLEAN /\ queue \in Seq(Events)
      /\ world \in Worlds /\ Rooted(world) /\ Sequence(media)
  BY DEF Inv, ShapeInv, ListInv
<1>1. pc = "monitor" /\ enumeration = <<>> /\ UNCHANGED world
  BY MonitorCases DEF Inv, PhaseInv
<1>2. ~duplicated
  BY <1>0, MonitorCases DEF Adds
<1>3. PICK hist : Chain(hist, queue, world) /\ \A x \in Paths : Explained(x, media, hist[0], queue)
  BY <1>1, <1>2, EmptyFacts DEF Inv, HistoryInv
<1>4. CASE UNCHANGED <<queue, media>>
  BY <1>1, <1>3, <1>4
<1>5. CASE queue # <<>> /\ queue' = Tail(queue) /\ e \in Events
  <2>1. p \in Paths /\ e.attr \in Attributes /\ e.attr # NULL /\ e.action \in {"add", "remove", "change"}
    BY <1>5, DeviceAssumption DEF Events
  <2>2. PICK h : /\ Chain(h, queue', world) /\ Step(hist[0], e, h[0])
                 /\ hist[0] \in Worlds /\ h[0] \in Worlds /\ Rooted(h[0])
    BY <1>0, <1>3, <1>5, ChainTail
  <2>3. queue' \in Seq(Events)
    BY <1>0, <1>5
  <2> DEFINE w == hist[0]
             v == h[0]
             n == Len(queue')
  <2> HIDE DEF e, p
  <2>4. /\ v[p] = (IF e.action = "remove" THEN NULL ELSE e.attr) /\ \A x \in Paths : x # p => v[x] = w[x]
        /\ e.action = "change" => w[p] # NULL
    BY <2>1, <2>2 DEF Step, Worlds, p
  <2>5. n \in Nat /\ h[n] = world /\ \A k \in 1..n : k \in 0..n /\ Step(h[k - 1], queue'[k], h[k]) /\ Rooted(h[k])
    BY <2>2, <2>3 DEF Chain
  <2>6. ASSUME NEW x \in Paths, x # p, ShownAlike(x, media, media')
        PROVE  Explained(x, media', v, queue')
    BY <1>0, <1>3, <1>5, <2>4, <2>6, OthersExplained DEF e, p
  <2>7. ASSUME e.action # "remove", ~Removable(p)
        PROVE  Pending("remove", p, queue')
    <3>1. world[p] = NULL
      BY <1>0, <2>1, <2>7, DiskFacts DEF Removable, DiskOf, Rooted
    <3>2. h[0][p] # NULL
      BY <2>1, <2>4, <2>7
    <3>3. n \in 0..Len(queue')
      BY <2>5
    <3> QED
      BY <2>1, <2>2, <2>3, <2>5, <3>1, <3>2, <3>3, GoneFacts
  <2>8. CASE e.action = "add" /\ Adds(p, e.attr)
    <3> DEFINE new == Node(p, e.attr.kind, e.attr.content)
    <3>1. /\ HasParent(media, p) /\ media' = add_media(media, p, e.attr.kind, e.attr.content)
      BY <2>8 DEF Adds
    <3>a. ListInv /\ p \in Paths /\ e.attr \in Attributes
      BY <1>0, <2>1
    <3>2. /\ \A k \in DOMAIN media' : media'[k] = new \/ \E j \in DOMAIN media : media'[k] = media[j]
          /\ \A j \in DOMAIN media : \E k \in DOMAIN media' : media'[k] = media[j]
          /\ \E k \in DOMAIN media' : media'[k] = new
          /\ new.path = p /\ new.content = e.attr.content
      BY <3>1, <3>a, AddedList
    <3> HIDE DEF new
    <3>3. Explained(p, media', v, queue')
      BY <2>1, <2>4, <2>8, <3>2 DEF Explained, Known
    <3>4. ASSUME NEW x \in Paths, x # p
          PROVE  ShownAlike(x, media, media')
      BY <3>2, <3>4 DEF ShownAlike
    <3>5. \A x \in Paths : Explained(x, media', v, queue')
      BY <2>6, <3>3, <3>4
    <3> QED
      BY <1>1, <2>2, <3>5
  <2>9. CASE e.action = "remove" /\ find_media(media, p) # 0 /\ media' = remove_media(media, p)
    <3>1. /\ \A i \in DOMAIN media' : \E j \in DOMAIN media : media'[i] = media[j]
          /\ \A j \in DOMAIN media : media[j].path # p /\ ParentOf[media[j].path] # p =>
                \E k \in DOMAIN media' : media'[k] = media[j]
          /\ \A k \in DOMAIN media' : media'[k].path # p /\ ParentOf[media'[k].path] # p
      BY <1>0, <1>2, <2>1, <2>9, RemovedList
    <3>2. ASSUME NEW x \in Paths, x = p \/ ParentOf[x] = p
          PROVE  Explained(x, media', v, queue')
      <4>1. ~Listed(media', x)
        BY <3>1, <3>2 DEF Listed
      <4>2. v[x] = NULL
        BY <2>1, <2>2, <2>4, <2>9, <3>2, PathAssumption DEF Rooted, IsPartition
      <4> QED
        BY <4>1, <4>2 DEF Explained, Known
    <3>3. ASSUME NEW x \in Paths, x # p, ParentOf[x] # p
          PROVE  ShownAlike(x, media, media')
      BY <3>1, <3>3 DEF ShownAlike
    <3>4. \A x \in Paths : Explained(x, media', v, queue')
      BY <2>6, <3>2, <3>3
    <3> QED
      BY <1>1, <2>2, <3>4
  <2>10. CASE e.action = "change" /\ media' = change_media(media, p, e.attr.kind, e.attr.content)
    <3> DEFINE f == find_media(media, p)
    <3>1. /\ DOMAIN media' = DOMAIN media
          /\ \A i \in DOMAIN media' :
                /\ media'[i].path = media[i].path
                /\ media'[i].content = IF i = f THEN e.attr.content ELSE media[i].content
      BY <1>0, <2>1, <2>10, ChangedList
    <3>2. IF f = 0 THEN ~Listed(media, p) /\ ~Listed(media', p) ELSE f \in DOMAIN media /\ media[f].path = p
      BY <1>0, <3>1, FindFacts DEF Listed
    <3> HIDE DEF f
    <3>3. Explained(p, media', v, queue')
      <4>1. CASE f # 0
        BY <2>1, <2>4, <2>10, <3>1, <3>2, <4>1 DEF Explained, Known
      <4>2. CASE f = 0
        <5>1. ~Known(p, media, w) /\ Explained(p, media, w, queue)
          BY <1>3, <2>1, <2>4, <2>10, <3>2, <4>2 DEF Known, Listed
        <5>2. Pending("remove", p, queue)
          BY <3>2, <4>2, <5>1 DEF Explained
        <5>3. Pending("remove", p, queue')
          BY <1>0, <1>5, <2>10, <5>2, PendingFacts DEF e, p
        <5> QED
          BY <5>3 DEF Explained
      <4> QED
        BY <4>1, <4>2
    <3>4. ASSUME NEW x \in Paths, x # p
          PROVE  ShownAlike(x, media, media')
      <4>1. \A i \in DOMAIN media : media[i].path = x => media'[i].path = x /\ media'[i].content = media[i].content
        <5>1. \A i \in DOMAIN media : i # 0
          BY <1>0, SequenceFacts
        <5> QED
          BY <3>1, <3>2, <3>4, <5>1
      <4>2. \A i \in DOMAIN media : media'[i].path = media[i].path
        BY <3>1
      <4> QED
        BY <3>1, <4>1, <4>2 DEF ShownAlike
    <3>5. \A x \in Paths : Explained(x, media', v, queue')
      BY <2>6, <3>3, <3>4
    <3> QED
      BY <1>1, <2>2, <3>5
  <2>11. CASE /\ \/ e.action = "remove" /\ find_media(media, p) = 0
                 \/ e.action \in {"add", "change"} /\ ~Removable(p)
                 \/ e.action = "add" /\ ~HasParent(media, p)
              /\ UNCHANGED media
    <3>1. ASSUME e.action = "remove", find_media(media, p) = 0
          PROVE  Explained(p, media', v, queue')
      <4>1. ~Listed(media, p)
        BY <1>0, <3>1, ListedFacts
      <4> QED
        BY <2>4, <2>11, <3>1, <4>1 DEF Explained, Known
    <3>2. ASSUME e.action \in {"add", "change"}, ~Removable(p)
          PROVE  Explained(p, media', v, queue')
      BY <2>7, <3>2 DEF Explained
    <3>3. ASSUME e.action = "add", ~HasParent(media, p)
          PROVE  Explained(p, media', v, queue')
      <4> DEFINE d == ParentOf[p]
      <4>1. IsPartition(p) /\ find_media(media, d) = 0 /\ d \in Paths /\ d # p /\ ~Listed(media, d)
        BY <1>0, <2>1, <3>3, DiskFacts, ListedFacts DEF HasParent
      <4> HIDE DEF d
      <4>2. v[p] # NULL /\ v[d] # NULL
        BY <2>1, <2>2, <2>4, <3>3, <4>1 DEF Rooted, d
      <4>3. w[d] # NULL
        BY <2>4, <4>1, <4>2
      <4>4. Pending("remove", d, queue)
        BY <1>3, <4>1, <4>3 DEF Explained, Known, Listed
      <4>5. Pending("remove", d, queue')
        BY <1>0, <1>5, <3>3, <4>4, PendingFacts DEF e, p
      <4>6. PICK k \in DOMAIN queue' : queue'[k].action = "remove" /\ queue'[k].path = d
        BY <4>5 DEF Pending
      <4>7. k \in 1..n /\ k - 1 \in 0..n
        BY <2>3, <2>5
      <4>8. h[k][d] = NULL
        <5>1. h[k - 1] \in Worlds
          BY <2>2, <4>7 DEF Chain
        <5>2. h[k] = [h[k - 1] EXCEPT ![queue'[k].path] = IF queue'[k].action = "remove" THEN NULL ELSE queue'[k].attr]
          BY <2>5, <4>7 DEF Step
        <5> QED
          BY <4>1, <4>6, <5>1, <5>2 DEF Worlds
      <4>9. h[k][p] = NULL
        BY <2>1, <2>5, <4>1, <4>7, <4>8 DEF Rooted, d
      <4>10. k \in 0..Len(queue')
        BY <2>5, <4>7
      <4> QED
        BY <2>1, <2>2, <2>3, <4>2, <4>9, <4>10, GoneFacts DEF Explained
    <3>4. Explained(p, media', v, queue')
      BY <2>11, <3>1, <3>2, <3>3
    <3>5. \A x \in Paths : ShownAlike(x, media, media')
      BY <2>11 DEF ShownAlike
    <3>6. \A x \in Paths : Explained(x, media', v, queue')
      BY <2>6, <3>4, <3>5
    <3> QED
      BY <1>1, <2>2, <3>6
  <2> QED
    BY <1>4, <1>5, <2>8, <2>9, <2>10, <2>11, MonitorCases DEF e, p
<1> QED
  BY <1>4, <1>5, MonitorCases

LEMMA HistoryStep ==
    ASSUME Inv, [Next]_vars
    PROVE  HistoryInv'
<1>0. HistoryInv /\ ShapeInv /\ ListInv /\ PhaseInv /\ queue \in Seq(Events)
  BY DEF Inv, ShapeInv
<1>a. ~duplicated' => ~duplicated
  BY <1>0, MonitorCases, EnumerateCases, NextCases
     DEF Adds, Emitted, Daemon, EnumerateDevices, FirstCheck, CheckMounts, Poll, HandleMounts, HandleClients, Exit, ShapeInv
<1>1. ASSUME pc' # "exit" => pc # "exit", pc = "scan" => pc' = "scan", UNCHANGED <<world, queue, enumeration>>,
             \A x \in Paths : ShownAlike(x, media, media')
      PROVE  HistoryInv'
  <2>1. SUFFICES ASSUME pc' # "exit", ~duplicated'
                 PROVE  \E hist : /\ Chain(hist, queue', world')
                                  /\ pc' # "scan" => \A p \in Paths \ ToSet(enumeration') :
                                         Explained(p, media', hist[0], queue')
    BY DEF HistoryInv
  <2>2. PICK hist : /\ Chain(hist, queue, world)
                    /\ pc # "scan" => \A p \in Paths \ ToSet(enumeration) : Explained(p, media, hist[0], queue)
    BY <1>0, <1>a, <1>1, <2>1 DEF HistoryInv
  <2>3. ASSUME NEW p \in Paths, Explained(p, media, hist[0], queue)
        PROVE  Explained(p, media', hist[0], queue')
    BY <1>1, <2>3, AlikeFacts DEF Explained
  <2> QED
    BY <1>1, <2>2, <2>3
<1>2. ASSUME UNCHANGED media
      PROVE  \A x \in Paths : ShownAlike(x, media, media')
  BY <1>2 DEF ShownAlike
<1>3. ASSUME NEW p \in Paths, NEW attr \in Attributes, NEW action \in {"add", "remove", "change"},
             Emitted(p, attr, action)
      PROVE  HistoryInv'
  <2> DEFINE e == [action |-> action, path |-> p, attr |-> attr]
  <2>1. /\ Step(world, e, world') /\ e \in Events /\ queue' = Append(queue, e)
        /\ world' \in Worlds /\ Rooted(world') /\ UNCHANGED <<daemon, media, duplicated>>
    BY <1>3 DEF Emitted
  <2> HIDE DEF e
  <2>2. SUFFICES ASSUME pc # "exit", ~duplicated
                 PROVE  \E hist : /\ Chain(hist, queue', world')
                                  /\ pc # "scan" => \A x \in Paths \ ToSet(enumeration) :
                                         Explained(x, media, hist[0], queue')
    BY <2>1 DEF HistoryInv, daemon
  <2>3. PICK hist : /\ Chain(hist, queue, world)
                    /\ pc # "scan" => \A x \in Paths \ ToSet(enumeration) : Explained(x, media, hist[0], queue)
    BY <1>0, <2>2 DEF HistoryInv
  <2>4. PICK h : Chain(h, queue', world') /\ h[0] = hist[0]
    BY <1>0, <2>1, <2>3, ChainAppend
  <2>5. ASSUME NEW x \in Paths, Explained(x, media, hist[0], queue)
        PROVE  Explained(x, media, h[0], queue')
    BY <1>0, <2>1, <2>4, <2>5, PendingFacts DEF Explained
  <2> QED
    BY <2>3, <2>4, <2>5
<1>4. CASE EnumerateDevices
  <2>1. pc = "scan" /\ UNCHANGED <<world, queue, media, duplicated>> /\ media = <<>>
    BY <1>0, <1>4 DEF EnumerateDevices, env, PhaseInv
  <2>2. SUFFICES ASSUME ~duplicated
                 PROVE  \E hist : /\ Chain(hist, queue, world)
                                  /\ \A p \in Paths \ ToSet(enumeration') : Explained(p, media, hist[0], queue)
    BY <2>1 DEF HistoryInv
  <2>3. PICK hist : Chain(hist, queue, world)
    BY <1>0, <2>1, <2>2 DEF HistoryInv
  <2>4. ASSUME NEW p \in Paths \ ToSet(enumeration')
        PROVE  Explained(p, media, hist[0], queue)
    <3>1. world[p] = NULL
      BY <1>0, <1>4, EnumerationFacts
    <3>2. ~Listed(media, p)
      BY <2>1, EmptyFacts DEF Listed
    <3>3. CASE hist[0][p] = NULL
      BY <3>2, <3>3 DEF Explained, Known
    <3>4. CASE hist[0][p] # NULL
      <4>1. Len(queue) \in 0..Len(queue) /\ hist[Len(queue)] = world
        BY <1>0, <2>3 DEF Chain
      <4> QED
        BY <1>0, <2>3, <3>1, <3>4, <4>1, GoneFacts DEF Explained
    <3> QED
      BY <3>3, <3>4
  <2> QED
    BY <2>3, <2>4
<1>5. CASE NextEnumeratedDevice
  <2> DEFINE p == Head(enumeration)
             new == Node(p, world[p].kind, world[p].content)
  <2>1. /\ pc = "enumerate" /\ enumeration # <<>> /\ enumeration' = Tail(enumeration) /\ p \in Paths
        /\ UNCHANGED <<world, queue>>
        /\ \/ world[p] # NULL /\ world[p] \in Attributes /\ Adds(p, world[p])
           \/ pc' = "exit"
    BY <1>5, EnumerateCases DEF env
  <2>2. SUFFICES ASSUME pc' # "exit", ~duplicated'
                 PROVE  \E hist : /\ Chain(hist, queue, world)
                                  /\ \A x \in Paths \ ToSet(enumeration') : Explained(x, media', hist[0], queue)
    BY <2>1 DEF HistoryInv
  <2>3. PICK hist : /\ Chain(hist, queue, world)
                    /\ \A x \in Paths \ ToSet(enumeration) : Explained(x, media, hist[0], queue)
    BY <1>0, <1>a, <2>1, <2>2 DEF HistoryInv
  <2>4. ToSet(enumeration) = ToSet(enumeration') \cup {p}
    BY <1>0, <2>1, SequenceOf, TailFacts DEF ShapeInv
  <2>5. /\ HasParent(media, p) /\ media' = add_media(media, p, world[p].kind, world[p].content)
        /\ world[p] # NULL /\ world[p] \in Attributes
    BY <2>1, <2>2 DEF Adds
  <2>6. /\ \A k \in DOMAIN media' : media'[k] = new \/ \E j \in DOMAIN media : media'[k] = media[j]
        /\ \A j \in DOMAIN media : \E k \in DOMAIN media' : media'[k] = media[j]
        /\ \E k \in DOMAIN media' : media'[k] = new
        /\ new.path = p /\ new.content = world[p].content
    <3>1. ListInv /\ p \in Paths
      BY <1>0, <2>1
    <3>2. PICK attr \in Attributes : attr = world[p]
      BY <2>5
    <3>3. /\ HasParent(media, p) /\ media' = add_media(media, p, attr.kind, attr.content)
          /\ new = Node(p, attr.kind, attr.content)
      BY <2>5, <3>2
    <3> HIDE DEF p
    <3>4. LET r == add_media(media, p, attr.kind, attr.content)
              n == Node(p, attr.kind, attr.content)
          IN  /\ \A k \in DOMAIN r : r[k] = n \/ \E j \in DOMAIN media : r[k] = media[j]
              /\ \A j \in DOMAIN media : \E k \in DOMAIN r : r[k] = media[j]
              /\ \E k \in DOMAIN r : r[k] = n
              /\ n.path = p /\ n.content = attr.content
      BY <3>1, <3>3, AddedList
    <3> HIDE DEF new
    <3> QED
      BY <3>2, <3>3, <3>4
  <2> HIDE DEF p, new
  <2>7. Explained(p, media', hist[0], queue)
    <3>1. Listed(media', p)
      BY <2>6 DEF Listed
    <3>2. CASE \E a \in {"add", "remove", "change"} : Pending(a, p, queue)
      BY <3>1, <3>2 DEF Explained
    <3>3. CASE \A a \in {"add", "remove", "change"} : ~Pending(a, p, queue)
      <4>1. hist[0][p] = world[p]
        BY <1>0, <2>1, <2>3, <3>3, SameFacts
      <4> QED
        BY <2>5, <2>6, <4>1 DEF Explained, Known
    <3> QED
      BY <3>2, <3>3
  <2>8. ASSUME NEW x \in Paths \ ToSet(enumeration')
        PROVE  Explained(x, media', hist[0], queue)
    <3>1. CASE x = p
      BY <2>7, <3>1
    <3>2. CASE x # p
      <4>1. Explained(x, media, hist[0], queue)
        BY <2>3, <2>4, <2>8, <3>2
      <4>2. ShownAlike(x, media, media')
        BY <2>6, <3>2 DEF ShownAlike
      <4> QED
        BY <4>1, <4>2, AlikeFacts DEF Explained
    <3> QED
      BY <3>1, <3>2
  <2> QED
    BY <2>3, <2>8
<1>6. CASE media' = check_mount_changes(media, mounts) /\ (FirstCheck \/ HandleMounts)
  <2>1. /\ DOMAIN media' = DOMAIN media
        /\ \A i \in DOMAIN media' : media'[i].path = media[i].path /\ media'[i].content = media[i].content
    BY <1>0, <1>6, CheckedList DEF ShapeInv
  <2>2. \A x \in Paths : ShownAlike(x, media, media')
    BY <2>1 DEF ShownAlike
  <2> QED
    BY <1>1, <1>6, <2>2 DEF FirstCheck, HandleMounts, env
<1>7. CASE MonitorGetDevice
  <2>1. /\ ~duplicated' => \E h : Chain(h, queue', world') /\ \A p \in Paths : Explained(p, media', h[0], queue')
    BY <1>7, EventExplained
  <2> QED
    BY <2>1 DEF HistoryInv
<1>8. CASE Exit
  BY <1>8 DEF Exit, HistoryInv
<1>9. CASE FirstCheck \/ HandleMounts
  BY <1>1, <1>2, <1>6, <1>9 DEF FirstCheck, HandleMounts, CheckMounts, env
<1>10. CASE Poll \/ HandleClients
  BY <1>1, <1>2, <1>10 DEF Poll, HandleClients, env
<1>11. CASE UNCHANGED <<world, queue, daemon, media>>
  BY <1>1, <1>2, <1>11 DEF daemon
<1> QED
  BY <1>0, <1>3, <1>4, <1>5, <1>7, <1>8, <1>9, <1>10, <1>11, NextCases DEF Daemon

LEMMA InvInit == Init => Inv
<1> SUFFICES ASSUME Init
             PROVE  Inv
  OBVIOUS
<1>1. /\ world \in Worlds /\ Rooted(world) /\ mounts \in Seq(Entries)
  BY DeviceAssumption DEF Init, Worlds, Rooted
<1>2. /\ queue = <<>> /\ mount_event = FALSE /\ pc = "scan" /\ enumeration = <<>>
      /\ ready = Nothing /\ force_mounts_check = FALSE /\ media = <<>> /\ duplicated = FALSE
  BY DEF Init
<1>3. ShapeInv
  <2>1. ready \in [monitor : BOOLEAN, mounts : BOOLEAN, client : BOOLEAN]
    BY <1>2 DEF Nothing
  <2>2. queue \in Seq(Events) /\ enumeration \in Seq(Paths)
    BY <1>2
  <2>3. mount_event \in BOOLEAN /\ force_mounts_check \in BOOLEAN /\ duplicated \in BOOLEAN
    BY <1>2
  <2> QED
    BY <1>1, <2>1, <2>2, <2>3 DEF ShapeInv
<1>4. ListInv
  BY <1>2, EmptyFacts DEF ListInv
<1>5. PhaseInv
  BY <1>2 DEF PhaseInv
<1>6. ShownInv
  BY <1>2 DEF ShownInv, Unchecked
<1>7. HistoryInv
  <2> DEFINE hist == [k \in 0..0 |-> world]
  <2>1. Len(queue) = 0 /\ DOMAIN queue = {}
    BY <1>2
  <2>2. Chain(hist, queue, world)
    BY <1>1, <2>1 DEF Chain
  <2> QED
    BY <1>2, <2>2 DEF HistoryInv
<1> QED
  BY <1>3, <1>4, <1>5, <1>6, <1>7 DEF Inv

LEMMA InvStep == Inv /\ [Next]_vars => Inv'
  BY ShapeStep, ListStep, PhaseStep, HistoryStep, ShownStep DEF Inv

LEMMA Invariance == Spec => []Inv
  BY InvInit, InvStep, PTL DEF Spec

\* The list is a tree in order, whatever the order in which devices come and go,
\* and even if a device is added twice (add_media and remove_media).
THEOREM ListWellFormedCorrect == Spec => []ListWellFormed
<1>1. ASSUME Inv PROVE ListWellFormed
  BY <1>1 DEF Inv, ListInv, Tree, Ordered, ListWellFormed
<1> QED
  BY <1>1, Invariance, PTL

\* mount_counter is set for the nodes that have a mount point, so that
\* process_changes_recursive never notifies without one.
THEOREM CounterMatchesMountCorrect == Spec => []CounterMatchesMount
<1>1. ASSUME Inv PROVE CounterMatchesMount
  BY <1>1 DEF Inv, ListInv, NodeOK, Counted, CounterMatchesMount
<1> QED
  BY <1>1, Invariance, PTL

\* When no event is left, the list shows the devices that are plugged in, with
\* their contents, and where they are mounted: whatever came and went before,
\* during and after the enumeration, though events are taken one in a round and
\* count only if the disk is still there.
THEOREM ListIsTrueCorrect == Spec => []ListIsTrue
<1>1. ASSUME Inv PROVE ListIsTrue
  <2>1. SUFFICES ASSUME pc = "poll", queue = <<>>, ~mount_event, ~duplicated, NEW p \in Paths
                 PROVE  LET n == Snapshot(media)[p]
                            e == FirstEntry(mounts, p)
                        IN  /\ Agrees(n, world[p], "content")
                            /\ n # NULL /\ p \notin late =>
                                  n.mnt_point = IF e = 0 THEN NULL ELSE mounts[e].dir
    BY DEF ListIsTrue, Settled
  <2> DEFINE n == Snapshot(media)[p]
             e == FirstEntry(mounts, p)
             f == find_media(media, p)
  <2>2. Sequence(media) /\ Distinct(media) /\ \A i \in DOMAIN media : NodeOK(media[i])
    BY <1>1, <2>1 DEF Inv, ListInv
  <2>3. enumeration = <<>> /\ Len(queue) = 0 /\ DOMAIN queue = {}
    BY <1>1, <2>1 DEF Inv, PhaseInv
  <2>4. Known(p, media, world)
    <3>1. PICK hist : Chain(hist, queue, world) /\ Explained(p, media, hist[0], queue)
      BY <1>1, <2>1, <2>3, EmptyFacts DEF Inv, HistoryInv
    <3>2. hist[0] = world
      BY <2>3, <3>1 DEF Chain
    <3> QED
      BY <2>3, <3>1, <3>2 DEF Explained, Pending
  <2>5. n = IF f = 0 THEN NULL
            ELSE [kind |-> media[f].kind, content |-> media[f].content,
                  mnt_point |-> media[f].mnt_point, mnt_opts |-> media[f].mnt_opts]
    BY DEF Snapshot
  <2> HIDE DEF n, e
  <2>6. CASE f = 0
    <3>1. ~Listed(media, p)
      BY <2>2, <2>6, ListedFacts
    <3>2. world[p] = NULL
      BY <2>4, <3>1 DEF Known, Listed
    <3> QED
      BY <2>5, <2>6, <3>2 DEF Agrees, n
  <2>7. CASE f # 0
    <3>1. f \in DOMAIN media /\ media[f].path = p /\ \A i \in DOMAIN media : media[i].path = p => i = f
      BY <2>2, <2>7, FindFacts DEF Distinct
    <3>2. n \in Devices /\ n # NULL /\ n.content = media[f].content /\ n.mnt_point = media[f].mnt_point
      <4>1. media[f] \in Nodes
        BY <2>2, <3>1 DEF NodeOK
      <4>2. n \in Devices
        BY <2>5, <2>7, <4>1 DEF Nodes, Devices
      <4>3. NULL \notin Devices
        BY DeviceAssumption
      <4> QED
        BY <2>5, <2>7, <4>2, <4>3
    <3>3. world[p] # NULL /\ media[f].content = world[p].content
      BY <2>4, <3>1 DEF Known, Listed
    <3>4. Agrees(n, world[p], "content")
      BY <3>2, <3>3 DEF Agrees
    <3>5. p \notin late => media[f].mnt_point = IF e = 0 THEN NULL ELSE mounts[e].dir
      BY <1>1, <2>1, <3>1 DEF Inv, ShownInv, Unchecked, e
    <3> QED
      BY <3>2, <3>4, <3>5 DEF n, e
  <2> QED
    BY <2>6, <2>7
<1> QED
  BY <1>1, Invariance, PTL

(***************************************************************************)
(* What the client knows.                                                  *)
(***************************************************************************)
ClientViews == [Paths -> Devices \cup {NULL}]

ClientNotes ==
    {Added(p, k, c) : p \in Paths, k \in Kinds, c \in Contents}
        \cup {Changed(p, k, c) : p \in Paths, k \in Kinds, c \in Contents}
        \cup {Removed(p) : p \in Paths}
        \cup {Mounted(p, d, o) : p \in Paths, d \in Dirs, o \in Opts}
        \cup {Unmounted(p, d) : p \in Paths, d \in Dirs}

\* A view has the devices of the list, as they are there but for what is not
\* announced: the kind and the options of the mount.
Shows(v, m) ==
    /\ v \in ClientViews
    /\ \A p \in Paths : v[p] # NULL <=> Listed(m, p)
    /\ \A i \in DOMAIN m : /\ v[m[i].path].content = m[i].content
                           /\ v[m[i].path].mnt_point = m[i].mnt_point

\* What each notification does to the device it is about.
LEMMA AddedView ==
    ASSUME NEW v \in ClientViews, NEW p \in Paths, NEW k \in Kinds, NEW c \in Contents
    PROVE  LET w == processCommand(v, Added(p, k, c))
           IN  /\ w \in ClientViews
               /\ Fits(v, Added(p, k, c)) =>
                     /\ w[p] # NULL /\ w[p].content = c /\ w[p].mnt_point = NULL
                     /\ \A q \in Paths \ {p} : w[q] = v[q]
<1> DEFINE d == Device(k, c)
           fit == v[p] = NULL /\ (IsPartition(p) => v[ParentOf[p]] # NULL)
           w == processCommand(v, Added(p, k, c))
<1>1. w = IF fit THEN [v EXCEPT ![p] = d] ELSE v
  BY DEF processCommand, Added
<1>2. Fits(v, Added(p, k, c)) <=> fit
  BY DEF Fits, Added
<1>3. d \in Devices /\ d.content = c /\ d.mnt_point = NULL /\ d # NULL
  BY DeviceAssumption DEF Device, Devices
<1> HIDE DEF d, fit
<1>4. w \in ClientViews
  BY <1>1, <1>3 DEF ClientViews
<1>5. fit => w[p] = d /\ \A q \in Paths \ {p} : w[q] = v[q]
  BY <1>1 DEF ClientViews
<1> QED
  BY <1>2, <1>3, <1>4, <1>5

LEMMA ChangedView ==
    ASSUME NEW v \in ClientViews, NEW p \in Paths, NEW k \in Kinds, NEW c \in Contents
    PROVE  LET w == processCommand(v, Changed(p, k, c))
           IN  /\ w \in ClientViews
               /\ v[p] # NULL => w[p] # NULL /\ w[p].content = c /\ w[p].mnt_point = NULL
               /\ \A q \in Paths \ {p} : w[q] = v[q]
<1> DEFINE d == Device(k, c)
           w == processCommand(v, Changed(p, k, c))
<1>1. w = IF v[p] # NULL THEN [v EXCEPT ![p] = d] ELSE v
  BY DEF processCommand, Changed
<1>3. d \in Devices /\ d.content = c /\ d.mnt_point = NULL /\ d # NULL
  BY DeviceAssumption DEF Device, Devices
<1> HIDE DEF d
<1>4. w \in ClientViews
  BY <1>1, <1>3 DEF ClientViews
<1>5. (v[p] # NULL => w[p] = d) /\ \A q \in Paths \ {p} : w[q] = v[q]
  BY <1>1 DEF ClientViews
<1> QED
  BY <1>3, <1>4, <1>5

LEMMA RemovedView ==
    ASSUME NEW v \in ClientViews, NEW p \in Paths
    PROVE  LET w == processCommand(v, Removed(p))
           IN  /\ w \in ClientViews
               /\ v[p] # NULL => w = Erase(v, p)
               /\ \A q \in Paths : w[q] = IF v[p] # NULL /\ (q = p \/ ParentOf[q] = p) THEN NULL ELSE v[q]
<1> DEFINE w == processCommand(v, Removed(p))
<1>1. w = IF v[p] # NULL THEN Erase(v, p) ELSE v
  BY DEF processCommand, Removed
<1>2. Erase(v, p) \in ClientViews
  BY DEF Erase, ClientViews
<1>3. \A q \in Paths : Erase(v, p)[q] = IF q = p \/ ParentOf[q] = p THEN NULL ELSE v[q]
  BY DEF Erase
<1> QED
  BY <1>1, <1>2, <1>3

\* Devices that agree in everything are the same.
LEMMA SameDevice ==
    ASSUME NEW a \in Devices, NEW b \in Devices, a.kind = b.kind, a.content = b.content,
           a.mnt_point = b.mnt_point, a.mnt_opts = b.mnt_opts
    PROVE  a = b
  BY DEF Devices

\* The mount point of a device.
Put(v, p, dir, opts) == [v EXCEPT ![p].mnt_point = dir, ![p].mnt_opts = opts]

LEMMA PutFacts ==
    ASSUME NEW v \in ClientViews, NEW p \in Paths, v[p] # NULL,
           NEW dir \in Dirs \cup {NULL}, NEW opts \in Opts \cup {NULL}
    PROVE  LET w == Put(v, p, dir, opts)
           IN  /\ w \in ClientViews
               /\ w[p] \in Devices /\ w[p] # NULL
               /\ w[p].kind = v[p].kind /\ w[p].content = v[p].content
               /\ w[p].mnt_point = dir /\ w[p].mnt_opts = opts
               /\ \A q \in Paths \ {p} : w[q] = v[q]
<1> DEFINE w == Put(v, p, dir, opts)
           d == [kind |-> v[p].kind, content |-> v[p].content, mnt_point |-> dir, mnt_opts |-> opts]
<1>1. v[p] \in Devices
  BY DEF ClientViews
<1>2. /\ d \in Devices /\ d # NULL /\ d.kind = v[p].kind /\ d.content = v[p].content
      /\ d.mnt_point = dir /\ d.mnt_opts = opts
  <2>1. d \in Devices
    BY <1>1 DEF Devices
  <2>2. NULL \notin Devices
    BY DeviceAssumption
  <2> QED
    BY <2>1, <2>2
<1>3. w = [v EXCEPT ![p] = d]
  <2>1. [v[p] EXCEPT !.mnt_point = dir, !.mnt_opts = opts] = d
    <3>1. ASSUME NEW x \in Devices
          PROVE  [x EXCEPT !.mnt_point = dir, !.mnt_opts = opts]
                     = [kind |-> x.kind, content |-> x.content, mnt_point |-> dir, mnt_opts |-> opts]
      <4>1. x = [kind |-> x.kind, content |-> x.content, mnt_point |-> x.mnt_point, mnt_opts |-> x.mnt_opts]
        BY DEF Devices
      <4>2. PICK y : y = [x EXCEPT !.mnt_point = dir, !.mnt_opts = opts]
        OBVIOUS
      <4>3. /\ y = [f \in {"kind", "content", "mnt_point", "mnt_opts"} |-> y[f]]
            /\ y.kind = x.kind /\ y.content = x.content /\ y.mnt_point = dir /\ y.mnt_opts = opts
        BY <4>1, <4>2
      <4> QED
        BY <4>2, <4>3
    <3> QED
      BY <1>1, <3>1
  <2>2. w = [v EXCEPT ![p] = [v[p] EXCEPT !.mnt_point = dir, !.mnt_opts = opts]]
    BY DEF Put, ClientViews
  <2> QED
    BY <2>1, <2>2
<1> HIDE DEF d, w
<1>4. w \in ClientViews /\ w[p] = d /\ \A q \in Paths \ {p} : w[q] = v[q]
  BY <1>2, <1>3 DEF ClientViews
<1> QED
  BY <1>2, <1>4 DEF w

LEMMA MountedView ==
    ASSUME NEW v \in ClientViews, NEW p \in Paths, NEW d \in Dirs, NEW o \in Opts
    PROVE  /\ processCommand(v, Mounted(p, d, o)) = IF v[p] # NULL THEN Put(v, p, d, o) ELSE v
           /\ processCommand(v, Mounted(p, d, o)) \in ClientViews
<1>1. processCommand(v, Mounted(p, d, o)) = IF v[p] # NULL THEN Put(v, p, d, o) ELSE v
  BY DEF processCommand, Mounted, Put
<1> QED
  BY <1>1, PutFacts

LEMMA UnmountedView ==
    ASSUME NEW v \in ClientViews, NEW p \in Paths, NEW d
    PROVE  /\ processCommand(v, Unmounted(p, d)) = IF v[p] # NULL THEN Put(v, p, NULL, NULL) ELSE v
           /\ processCommand(v, Unmounted(p, d)) \in ClientViews
<1>1. processCommand(v, Unmounted(p, d)) = IF v[p] # NULL THEN Put(v, p, NULL, NULL) ELSE v
  BY DEF processCommand, Unmounted, Put
<1> QED
  BY <1>1, PutFacts

\* The client's view stays one, whatever it is told.
LEMMA ViewStep ==
    ASSUME NEW v \in ClientViews, NEW notes \in Seq(ClientNotes)
    PROVE  Follow(v, notes) \in ClientViews
<1>1. ASSUME NEW w \in ClientViews, NEW note \in ClientNotes
      PROVE  processCommand(w, note) \in ClientViews
  <2>1. CASE \E p \in Paths, k \in Kinds, c \in Contents : note = Added(p, k, c)
    BY <2>1, AddedView
  <2>2. CASE \E p \in Paths, k \in Kinds, c \in Contents : note = Changed(p, k, c)
    BY <2>2, ChangedView
  <2>3. CASE \E p \in Paths : note = Removed(p)
    BY <2>3, RemovedView
  <2>4. CASE \E p \in Paths, d \in Dirs, o \in Opts : note = Mounted(p, d, o)
    BY <2>4, MountedView
  <2>5. CASE \E p \in Paths, d \in Dirs : note = Unmounted(p, d)
    BY <2>5, UnmountedView
  <2> QED
    BY <2>1, <2>2, <2>3, <2>4, <2>5 DEF ClientNotes
<1> QED
  BY <1>1, FollowIn

\* The answer to list_all_removable_devices has what is listed.
LEMMA SnapshotFacts ==
    ASSUME ListInv
    PROVE  Snapshot(media) \in ClientViews /\ (~duplicated => Shows(Snapshot(media), media))
<1> DEFINE At(i) == [kind |-> media[i].kind, content |-> media[i].content,
                     mnt_point |-> media[i].mnt_point, mnt_opts |-> media[i].mnt_opts]
           v == Snapshot(media)
<1>0. Sequence(media) /\ \A i \in DOMAIN media : media[i].path \in Paths /\ media[i] \in Nodes
  BY NodeFacts DEF ListInv, NodeOK
<1>1. \A p \in Paths : v[p] = IF find_media(media, p) = 0 THEN NULL ELSE At(find_media(media, p))
  BY DEF Snapshot
<1>2. ASSUME NEW i \in DOMAIN media
      PROVE  At(i) \in Devices /\ At(i) # NULL
  <2>1. media[i] \in Nodes
    BY <1>0
  <2>2. At(i) \in Devices
    BY <2>1 DEF Nodes, Devices
  <2> QED
    BY <2>2, DeviceAssumption
<1>3. \A p \in Paths : find_media(media, p) = 0 \/ find_media(media, p) \in DOMAIN media
  BY <1>0, FindFacts
<1>4. v = [p \in Paths |-> v[p]]
  BY DEF Snapshot
<1>5. v \in ClientViews
  <2> HIDE DEF At, v
  <2> QED
    BY <1>1, <1>2, <1>3, <1>4 DEF ClientViews
<1>6. ASSUME ~duplicated
      PROVE  Shows(v, media)
  <2>1. ASSUME NEW p \in Paths
        PROVE  v[p] # NULL <=> Listed(media, p)
    <3> HIDE DEF At, v
    <3> QED
      BY <1>0, <1>1, <1>2, <1>3, ListedFacts
  <2>2. ASSUME NEW i \in DOMAIN media
        PROVE  v[media[i].path].content = media[i].content /\ v[media[i].path].mnt_point = media[i].mnt_point
    <3>1. find_media(media, media[i].path) = i /\ media[i].path \in Paths /\ i # 0
      BY <1>0, <1>6, FindsIt, SequenceFacts DEF ListInv
    <3>2. v[media[i].path] = At(i)
      BY <1>1, <3>1
    <3> HIDE DEF v
    <3> QED
      BY <3>2
  <2> HIDE DEF v
  <2> QED
    BY <1>5, <2>1, <2>2 DEF Shows
<1> QED
  BY <1>5, <1>6

\* A device is added where the client has none, under a disk it has.
LEMMA AddTold ==
    ASSUME ListInv, ~duplicated, NEW p \in Paths, NEW attr \in Attributes, HasParent(media, p),
           find_media(media, p) = 0, NEW v, Shows(v, media)
    PROVE  LET note == Added(p, attr.kind, attr.content)
           IN  /\ Applies(v, <<note>>, processCommand(v, note))
               /\ Shows(processCommand(v, note), add_media(media, p, attr.kind, attr.content))
<1> DEFINE note == Added(p, attr.kind, attr.content)
           w == processCommand(v, note)
           r == add_media(media, p, attr.kind, attr.content)
           new == Node(p, attr.kind, attr.content)
<1>0. Sequence(media) /\ attr.kind \in Kinds /\ attr.content \in Contents
  BY DEF ListInv, Attributes
<1>1. ~Listed(media, p) /\ (IsPartition(p) => Listed(media, ParentOf[p]))
  BY <1>0, ListedFacts DEF HasParent
<1>2. Fits(v, note)
  <2>1. v[p] = NULL /\ (IsPartition(p) => v[ParentOf[p]] # NULL)
    BY <1>1, DiskFacts DEF Shows
  <2> QED
    BY <2>1 DEF Fits, Added
<1>3. /\ w \in ClientViews /\ w[p] # NULL /\ w[p].content = attr.content /\ w[p].mnt_point = NULL
      /\ \A q \in Paths \ {p} : w[q] = v[q]
  BY <1>0, <1>2, AddedView DEF Shows
<1>4. Applies(v, <<note>>, w)
  BY <1>2, AppliesOne
<1>5. /\ \A k \in DOMAIN r : r[k] = new \/ \E j \in DOMAIN media : r[k] = media[j]
      /\ \A j \in DOMAIN media : \E k \in DOMAIN r : r[k] = media[j]
      /\ \E k \in DOMAIN r : r[k] = new
      /\ new.path = p /\ new.content = attr.content /\ new.mnt_point = NULL
  BY AddedList
<1> HIDE DEF r, new, w, note
<1>6. ASSUME NEW q \in Paths
      PROVE  w[q] # NULL <=> Listed(r, q)
  <2>1. CASE q = p
    BY <1>3, <1>5, <2>1 DEF Listed
  <2>2. CASE q # p
    <3>1. w[q] = v[q] /\ (v[q] # NULL <=> Listed(media, q))
      BY <1>3, <2>2 DEF Shows
    <3>2. Listed(media, q) <=> Listed(r, q)
      BY <1>5, <2>2 DEF Listed
    <3> QED
      BY <3>1, <3>2
  <2> QED
    BY <2>1, <2>2
<1>7. ASSUME NEW k \in DOMAIN r
      PROVE  w[r[k].path].content = r[k].content /\ w[r[k].path].mnt_point = r[k].mnt_point
  <2>1. CASE r[k] = new
    BY <1>3, <1>5, <2>1
  <2>2. ASSUME NEW j \in DOMAIN media, r[k] = media[j]
        PROVE  w[r[k].path].content = r[k].content /\ w[r[k].path].mnt_point = r[k].mnt_point
    <3>1. media[j].path # p /\ media[j].path \in Paths
      BY <1>1, NodeFacts DEF Listed, ListInv
    <3>2. w[media[j].path] = v[media[j].path]
      BY <1>3, <3>1
    <3> QED
      BY <2>2, <3>2 DEF Shows
  <2> QED
    BY <1>5, <2>1, <2>2
<1>8. Shows(w, r)
  BY <1>3, <1>6, <1>7 DEF Shows
<1> QED
  BY <1>4, <1>8 DEF w, r, note

\* A device that is told to be not mounted, if it was, before anything else.
UnmountedFirst(p, dir) == IF dir # NULL THEN <<Unmounted(p, dir)>> ELSE <<>>

LEMMA UnmountedTold ==
    ASSUME NEW v \in ClientViews, NEW p \in Paths, v[p] # NULL,
           NEW dir, v[p].mnt_point = dir
    PROVE  \E u \in ClientViews :
              /\ Applies(v, UnmountedFirst(p, dir), u)
              /\ u[p] # NULL /\ u[p].kind = v[p].kind /\ u[p].content = v[p].content /\ u[p].mnt_point = NULL
              /\ \A q \in Paths \ {p} : u[q] = v[q]
<1>1. CASE dir = NULL
  <2>1. Applies(v, UnmountedFirst(p, dir), v)
    BY <1>1, AppliesNone DEF UnmountedFirst
  <2> QED
    BY <1>1, <2>1
<1>2. CASE dir # NULL
  <2> DEFINE u == Put(v, p, NULL, NULL)
  <2>1. /\ u \in ClientViews /\ u[p] # NULL /\ u[p].kind = v[p].kind /\ u[p].content = v[p].content /\ u[p].mnt_point = NULL
        /\ \A q \in Paths \ {p} : u[q] = v[q]
    BY PutFacts
  <2>2. Fits(v, Unmounted(p, dir))
    BY DEF Fits, Unmounted
  <2>3. Applies(v, UnmountedFirst(p, dir), u)
    BY <1>2, <2>2, AppliesOne, UnmountedView DEF UnmountedFirst
  <2> HIDE DEF u
  <2> QED
    BY <2>1, <2>3
<1> QED
  BY <1>1, <1>2

\* A device is removed after its partitions.
LEMMA RemovalApplies ==
    ASSUME NEW v \in ClientViews, NEW n, n.path \in Paths, v[n.path] # NULL,
           v[n.path].mnt_point = n.mnt_point, \A q \in Paths : ParentOf[q] = n.path => v[q] = NULL
    PROVE  \E w \in ClientViews :
              /\ Applies(v, RemovalNotes(n), w)
              /\ \A q \in Paths : w[q] = IF q = n.path THEN NULL ELSE v[q]
<1> DEFINE p == n.path
<1>1. RemovalNotes(n) = UnmountedFirst(p, n.mnt_point) \o <<Removed(p)>>
  BY DEF RemovalNotes, UnmountedFirst
<1>2. ParentOf[p] # p
  BY PathAssumption
<1>3. PICK u \in ClientViews :
              /\ Applies(v, UnmountedFirst(p, n.mnt_point), u)
              /\ u[p] # NULL /\ u[p].kind = v[p].kind /\ u[p].content = v[p].content /\ u[p].mnt_point = NULL
              /\ \A q \in Paths \ {p} : u[q] = v[q]
  BY UnmountedTold
<1> HIDE DEF p
<1>4. \A q \in Paths : ParentOf[q] = p => u[q] = NULL
  BY <1>2, <1>3 DEF p
<1>5. Fits(u, Removed(p))
  BY <1>3, <1>4 DEF Fits, Removed
<1> DEFINE w == processCommand(u, Removed(p))
<1>6. Applies(u, <<Removed(p)>>, w)
  BY <1>5, AppliesOne
<1>7. w \in ClientViews /\ \A q \in Paths : w[q] = IF q = p \/ ParentOf[q] = p THEN NULL ELSE u[q]
  BY <1>3, RemovedView DEF p
<1> HIDE DEF w
<1>8. \A q \in Paths : w[q] = IF q = p THEN NULL ELSE v[q]
  BY <1>3, <1>4, <1>7
<1>9. Applies(v, RemovalNotes(n), w)
  BY <1>1, <1>3, <1>6, AppliesConcat
<1> QED
  BY <1>7, <1>8, <1>9 DEF p

\* The nodes of a subtree are the partitions of its disk.
LEMMA SubtreeFacts ==
    ASSUME NEW m, Sequence(m), \A i \in DOMAIN m : m[i].path \in Paths, Tree(m), Distinct(m),
           NEW i \in DOMAIN m
    PROVE  /\ SubtreeEnd(m, i) \in i..Len(m)
           /\ \A j \in DOMAIN m : ParentOf[m[j].path] = m[i].path <=> j \in (i + 1)..SubtreeEnd(m, i)
<1> DEFINE e == SubtreeEnd(m, i)
<1>0. Len(m) \in Nat /\ DOMAIN m = 1..Len(m)
  BY SequenceFacts
<1>1. e \in i..Len(m) /\ (IsPartition(m[i].path) => e = i)
  BY SubtreeEndFacts
<1>2. CASE IsPartition(m[i].path)
  <2>1. \A j \in DOMAIN m : ParentOf[m[j].path] # m[i].path
    <3> TAKE j \in DOMAIN m
    <3>1. m[j].path \in Paths /\ m[i].path \in Paths
      OBVIOUS
    <3> QED
      BY <1>2, <3>1, DiskFacts, PathAssumption DEF IsPartition
  <2>2. \A j : j \notin (i + 1)..i
    BY <1>0
  <2> QED
    BY <1>1, <1>2, <2>1, <2>2
<1>3. CASE ~IsPartition(m[i].path) /\ \E j \in DOMAIN m : ParentOf[m[j].path] = m[i].path
  <2>1. PICK j \in DOMAIN m : ParentOf[m[j].path] = m[i].path
    BY <1>3
  <2>2. m[j].path \in Paths /\ IsPartition(m[j].path) /\ find_media(m, ParentOf[m[j].path]) = i
    <3>1. m[i].path \in Paths /\ Root \notin Paths
      BY PathAssumption
    <3> QED
      BY <2>1, <3>1, FindsIt DEF IsPartition
  <2>3. find_media(m, ParentOf[m[j].path]) # 0
    BY <1>0, <2>2
  <2>4. \A k \in DOMAIN m : ParentOf[m[k].path] = ParentOf[m[j].path] <=> k \in (i + 1)..e
    BY <2>2, <2>3, PartitionFacts
  <2> QED
    BY <1>1, <2>1, <2>4
<1>4. CASE ~IsPartition(m[i].path) /\ ~\E j \in DOMAIN m : ParentOf[m[j].path] = m[i].path
  <2>1. ASSUME NEW j \in (i + 1)..e
        PROVE  FALSE
    <3>1. \A k \in (i + 1)..e : IsPartition(m[k].path)
      BY <1>4, SubtreeEndFacts
    <3>2. i + 1 \in (i + 1)..e /\ i + 1 \in DOMAIN m /\ i \in 1..Len(m)
      BY <1>0, <1>1, <2>1
    <3>3. PICK d \in 1..((i + 1) - 1) :
              /\ m[d].path = ParentOf[m[i + 1].path]
              /\ \A k \in (d + 1)..(i + 1) : IsPartition(m[k].path)
      BY <3>1, <3>2 DEF Tree
    <3>4. d # i
      BY <1>4, <3>2, <3>3
    <3>5. i \in (d + 1)..(i + 1)
      BY <3>2, <3>3, <3>4
    <3> QED
      BY <1>4, <3>3, <3>5
  <2> QED
    BY <1>1, <1>4, <2>1
<1> QED
  BY <1>2, <1>3, <1>4

\* A device goes with its partitions, which are told first.
LEMMA RemoveTold ==
    ASSUME ListInv, ~duplicated, NEW p \in Paths, find_media(media, p) # 0, NEW v, Shows(v, media)
    PROVE  \E w : /\ Applies(v, remove_media_notes(media, p), w)
                  /\ Shows(w, remove_media(media, p))
<1> DEFINE m == media
           i == find_media(m, p)
           e == SubtreeEnd(m, i)
           r == remove_media(m, p)
           ss == [k \in 1..(e - i) |-> RemovalNotes(m[i + k])]
           W == [k \in 0..(e - i) |-> [q \in Paths |-> IF \E j \in 1..k : m[i + j].path = q THEN NULL ELSE v[q]]]
<1>0. /\ Sequence(m) /\ Distinct(m) /\ Tree(m) /\ \A j \in DOMAIN m : m[j].path \in Paths
      /\ Len(m) \in Nat /\ DOMAIN m = 1..Len(m)
  BY NodeFacts, SequenceFacts DEF ListInv
<1>1. i \in DOMAIN m /\ m[i].path = p
  BY <1>0, FindFacts
<1>2. e \in i..Len(m) /\ \A j \in DOMAIN m : ParentOf[m[j].path] = p <=> j \in (i + 1)..e
  BY <1>0, <1>1, SubtreeFacts
<1>3. remove_media_notes(m, p) = FlattenSeq(ss) \o RemovalNotes(m[i])
  BY DEF remove_media_notes
<1>4. e - i \in Nat /\ \A k \in 1..(e - i) : i + k \in DOMAIN m /\ i + k \in (i + 1)..e /\ k \in 0..(e - i) /\ k - 1 \in 0..(e - i)
  <2> HIDE DEF i, e, m
  <2> QED
    BY <1>0, <1>1, <1>2
<1>5. /\ \A k \in 0..(e - i) : W[k] \in ClientViews
      /\ \A k \in 0..(e - i) : \A q \in Paths : W[k][q] = IF \E j \in 1..k : m[i + j].path = q THEN NULL ELSE v[q]
  <2> HIDE DEF i, e, m
  <2> QED
    BY DEF Shows, ClientViews
<1>6. Sequence(ss) /\ Len(ss) = e - i /\ \A k \in 1..(e - i) : ss[k] = RemovalNotes(m[i + k])
  <2>1. ss \in [1..(e - i) -> {ss[k] : k \in 1..(e - i)}]
    OBVIOUS
  <2>2. \A k \in 1..(e - i) : ss[k] = RemovalNotes(m[i + k])
    OBVIOUS
  <2> HIDE DEF ss, i, e
  <2> QED
    BY <1>4, <2>1, <2>2, FunctionIsSeq
<1> HIDE DEF i, e, m, ss, W, r
<1>7. ASSUME NEW k \in 1..(e - i)
      PROVE  Applies(W[k - 1], ss[k], W[k])
  <2> DEFINE n == m[i + k]
             x == n.path
  <2>1. i + k \in DOMAIN m /\ x \in Paths /\ ParentOf[x] = p /\ k \in 0..(e - i) /\ k - 1 \in 0..(e - i)
    BY <1>0, <1>2, <1>4
  <2>2. \A j \in 1..(k - 1) : m[i + j].path # x
    <3> TAKE j \in 1..(k - 1)
    <3>1. j \in 1..(e - i) /\ i + j # i + k
      BY <1>0, <1>1, <1>4
    <3> QED
      BY <1>0, <1>4, <2>1, <3>1 DEF Distinct
  <2>3. W[k - 1][x] = v[x]
    BY <1>5, <2>1, <2>2
  <2>4. v[x] # NULL /\ v[x].mnt_point = n.mnt_point
    BY <2>1 DEF Shows, Listed, m
  <2>5. ASSUME NEW q \in Paths, ParentOf[q] = x
        PROVE  W[k - 1][q] = NULL
    <3>1. p # Root
      BY PathAssumption
    <3> QED
      BY <2>1, <2>5, <3>1, PathAssumption
  <2>6. PICK w \in ClientViews :
              /\ Applies(W[k - 1], RemovalNotes(n), w)
              /\ \A q \in Paths : w[q] = IF q = x THEN NULL ELSE W[k - 1][q]
    BY <1>5, <2>1, <2>3, <2>4, <2>5, RemovalApplies
  <2>7. \A q \in Paths : w[q] = W[k][q]
    <3> TAKE q \in Paths
    <3>1. (\E j \in 1..k : m[i + j].path = q) <=> q = x \/ \E j \in 1..(k - 1) : m[i + j].path = q
      <4>1. \A j \in 1..k : j = k \/ j \in 1..(k - 1)
        BY <1>4
      <4>2. k \in 1..k /\ \A j \in 1..(k - 1) : j \in 1..k
        BY <1>4
      <4> QED
        BY <4>1, <4>2
    <3> QED
      BY <1>5, <2>1, <2>6, <3>1
  <2>8. w = W[k]
    <3>1. w \in ClientViews /\ W[k] \in ClientViews
      BY <1>5, <2>1
    <3> QED
      BY <2>7, <3>1 DEF ClientViews
  <2> QED
    BY <1>6, <2>6, <2>8
<1> DEFINE z == W[e - i]
<1>8. Applies(W[0], FlattenSeq(ss), z)
  <2>1. Applies(W[0], FlattenSeq(ss), W[Len(ss)])
    BY <1>6, <1>7, AppliesFlatten
  <2> QED
    BY <1>6, <2>1
<1>9. W[0] = v
  <2>1. W[0] \in ClientViews /\ v \in ClientViews /\ 0 \in 0..(e - i) /\ 1..0 = {}
    BY <1>4, <1>5 DEF Shows
  <2>2. \A q \in Paths : W[0][q] = v[q]
    BY <1>5, <2>1
  <2> QED
    BY <2>1, <2>2 DEF ClientViews
<1>10. z \in ClientViews /\ \A q \in Paths : z[q] = IF Listed(m, q) /\ ParentOf[q] = p THEN NULL ELSE v[q]
  <2>1. e - i \in 0..(e - i)
    BY <1>4
  <2>2. ASSUME NEW q \in Paths
        PROVE  (\E j \in 1..(e - i) : m[i + j].path = q) <=> Listed(m, q) /\ ParentOf[q] = p
    <3>1. ASSUME NEW j \in 1..(e - i), m[i + j].path = q
          PROVE  Listed(m, q) /\ ParentOf[q] = p
      BY <1>2, <1>4, <3>1 DEF Listed
    <3>2. ASSUME NEW l \in DOMAIN m, m[l].path = q, ParentOf[q] = p
          PROVE  \E j \in 1..(e - i) : m[i + j].path = q
      <4>1. l \in (i + 1)..e
        BY <1>2, <3>2
      <4>2. l - i \in 1..(e - i) /\ i + (l - i) = l
        BY <1>0, <1>1, <1>2, <4>1
      <4> QED
        BY <3>2, <4>2
    <3> QED
      BY <3>1, <3>2 DEF Listed
  <2> QED
    BY <1>5, <2>1, <2>2
<1> HIDE DEF z
<1>11. z[p] = v[p] /\ v[p] # NULL /\ v[p].mnt_point = m[i].mnt_point
  <2>1. ParentOf[p] # p
    BY PathAssumption
  <2>2. z[p] = v[p]
    BY <1>10, <2>1
  <2> QED
    BY <1>1, <2>2 DEF Shows, Listed, m
<1>12. \A q \in Paths : ParentOf[q] = p => z[q] = NULL
  BY <1>10 DEF Shows, m
<1>13. PICK w \in ClientViews :
              /\ Applies(z, RemovalNotes(m[i]), w)
              /\ \A q \in Paths : w[q] = IF q = p THEN NULL ELSE z[q]
  BY <1>1, <1>10, <1>11, <1>12, RemovalApplies
<1>14. Applies(v, remove_media_notes(m, p), w)
  BY <1>3, <1>8, <1>9, <1>13, AppliesConcat
<1>15. \A q \in Paths : w[q] = IF q = p \/ ParentOf[q] = p THEN NULL ELSE v[q]
  BY <1>10, <1>12, <1>13
<1>16. /\ \A k \in DOMAIN r : r[k].path # p /\ ParentOf[r[k].path] # p
       /\ \A k \in DOMAIN r : \E j \in DOMAIN m : r[k] = m[j]
       /\ \A j \in DOMAIN m : m[j].path # p /\ ParentOf[m[j].path] # p => \E k \in DOMAIN r : r[k] = m[j]
  BY RemovedList DEF i, m, r
<1>17. ASSUME NEW q \in Paths
       PROVE  w[q] # NULL <=> Listed(r, q)
  <2>1. v[q] # NULL <=> Listed(m, q)
    BY DEF Shows, m
  <2> QED
    BY <1>15, <1>16, <2>1 DEF Listed
<1>18. ASSUME NEW k \in DOMAIN r
       PROVE  w[r[k].path].content = r[k].content /\ w[r[k].path].mnt_point = r[k].mnt_point
  <2>1. PICK j \in DOMAIN m : r[k] = m[j]
    BY <1>16
  <2>2. w[m[j].path] = v[m[j].path]
    BY <1>0, <1>15, <1>16, <2>1
  <2> QED
    BY <2>1, <2>2 DEF Shows, m
<1>19. Shows(w, r)
  BY <1>13, <1>17, <1>18 DEF Shows
<1> QED
  BY <1>14, <1>19 DEF m, r

\* A changed device is told to be not mounted, then to have changed.
LEMMA ChangeTold ==
    ASSUME ListInv, ~duplicated, NEW p \in Paths, NEW attr \in Attributes, NEW v, Shows(v, media)
    PROVE  \E w : /\ Applies(v, change_media_notes(media, p, attr.kind, attr.content), w)
                  /\ Shows(w, change_media(media, p, attr.kind, attr.content))
<1> DEFINE m == media
           i == find_media(m, p)
           r == change_media(m, p, attr.kind, attr.content)
           notes == change_media_notes(m, p, attr.kind, attr.content)
<1>0. /\ Sequence(m) /\ Distinct(m) /\ \A j \in DOMAIN m : m[j].path \in Paths /\ IsNode(m[j]) /\ Counted(m[j])
      /\ attr.kind \in Kinds /\ attr.content \in Contents
  BY NodeFacts DEF ListInv, Attributes
<1>1. CASE i = 0 \/ NothingChanged(m[i], attr.kind, attr.content)
  <2>1. r = m /\ notes = <<>>
    BY <1>1 DEF change_media, change_media_notes
  <2>2. Applies(v, notes, v)
    BY <2>1, AppliesNone
  <2> QED
    BY <2>1, <2>2
<1>2. CASE i # 0 /\ ~NothingChanged(m[i], attr.kind, attr.content)
  <2>1. i \in DOMAIN m /\ m[i].path = p
    BY <1>0, <1>2, FindFacts
  <2>2. notes = UnmountedFirst(p, m[i].mnt_point) \o <<Changed(p, attr.kind, attr.content)>>
    BY <1>2 DEF change_media_notes, UnmountedFirst
  <2>3. v \in ClientViews /\ v[p] # NULL /\ v[p].mnt_point = m[i].mnt_point
    BY <2>1 DEF Shows, Listed
  <2>4. PICK u \in ClientViews :
              /\ Applies(v, UnmountedFirst(p, m[i].mnt_point), u)
              /\ u[p] # NULL /\ u[p].kind = v[p].kind /\ u[p].content = v[p].content /\ u[p].mnt_point = NULL
              /\ \A q \in Paths \ {p} : u[q] = v[q]
    BY <2>3, UnmountedTold
  <2>5. Fits(u, Changed(p, attr.kind, attr.content))
    BY <2>4 DEF Fits, Changed
  <2> DEFINE w == processCommand(u, Changed(p, attr.kind, attr.content))
  <2>6. Applies(u, <<Changed(p, attr.kind, attr.content)>>, w)
    BY <2>5, AppliesOne
  <2>7. /\ w \in ClientViews /\ w[p] # NULL /\ w[p].content = attr.content /\ w[p].mnt_point = NULL
        /\ \A q \in Paths \ {p} : w[q] = v[q]
    BY <1>0, <2>4, ChangedView
  <2>8. /\ DOMAIN r = DOMAIN m
        /\ \A k \in DOMAIN m :
              /\ r[k].path = m[k].path
              /\ r[k].content = IF k = i THEN attr.content ELSE m[k].content
              /\ r[k].mnt_point = IF k = i THEN NULL ELSE m[k].mnt_point
    BY <1>0, ChangeFacts
  <2> HIDE DEF w, r, i, notes, m
  <2>9. Applies(v, notes, w)
    BY <2>2, <2>4, <2>6, AppliesConcat
  <2>10. ASSUME NEW q \in Paths
         PROVE  w[q] # NULL <=> Listed(r, q)
    <3>1. v[q] # NULL <=> Listed(m, q)
      BY DEF Shows, m
    <3>2. Listed(m, q) <=> Listed(r, q)
      BY <2>8 DEF Listed
    <3>3. w[q] # NULL <=> v[q] # NULL
      BY <2>3, <2>7
    <3> QED
      BY <3>1, <3>2, <3>3
  <2>11. ASSUME NEW k \in DOMAIN r
         PROVE  w[r[k].path].content = r[k].content /\ w[r[k].path].mnt_point = r[k].mnt_point
    <3>1. CASE k = i
      BY <2>1, <2>7, <2>8, <3>1
    <3>2. CASE k # i
      <4>1. k \in DOMAIN m /\ m[k].path \in Paths /\ m[k].path # p
        BY <1>0, <2>1, <2>8, <3>2 DEF Distinct
      <4>2. w[m[k].path] = v[m[k].path]
        BY <2>7, <4>1
      <4>3. v[m[k].path].content = m[k].content /\ v[m[k].path].mnt_point = m[k].mnt_point
        BY <4>1 DEF Shows, m
      <4> QED
        BY <2>8, <3>2, <4>1, <4>2, <4>3
    <3> QED
      BY <3>1, <3>2
  <2>12. Shows(w, r)
    BY <2>7, <2>10, <2>11 DEF Shows
  <2> QED
    BY <2>9, <2>12 DEF r, notes, m
<1> QED
  BY <1>1, <1>2

\* The notifications of check_mount_changes: for each entry of the mounts file, and
\* for each node of the list.
EntryNotes(m, entries, k) ==
    LET i == find_media(m, entries[k].dev)
    IN  IF i = 0 THEN <<>>
        ELSE IF FirstEntry(entries, entries[k].dev) # k \/ m[i].mnt_point = entries[k].dir
        THEN <<>>
        ELSE UnmountedFirst(m[i].path, m[i].mnt_point)
                 \o <<Mounted(m[i].path, entries[k].dir, entries[k].opts)>>

NodeNotes(m, entries, i) ==
    IF EntryOf(m, entries, i) = 0 /\ m[i].mount_counter = 1
    THEN <<Unmounted(m[i].path, m[i].mnt_point)>> ELSE <<>>

LEMMA CheckNotes ==
    ASSUME NEW m, NEW entries
    PROVE  check_mount_changes_notes(m, entries)
              = FlattenSeq([k \in DOMAIN entries |-> EntryNotes(m, entries, k)])
                    \o FlattenSeq([i \in DOMAIN m |-> NodeNotes(m, entries, i)])
  BY DEF check_mount_changes_notes, EntryNotes, NodeNotes, UnmountedFirst

\* The entries are told: a device is then where its first entry says.
LEMMA EntriesTold ==
    ASSUME ListInv, ~duplicated, mounts \in Seq(Entries), NEW v, Shows(v, media)
    PROVE  \E w \in ClientViews :
              /\ Applies(v, FlattenSeq([k \in DOMAIN mounts |-> EntryNotes(media, mounts, k)]), w)
              /\ \A q \in Paths :
                    LET e == FirstEntry(mounts, q)
                    IN  /\ v[q] # NULL <=> w[q] # NULL
                        /\ v[q] # NULL => /\ w[q].content = v[q].content
                                          /\ w[q].mnt_point = IF e # 0 THEN mounts[e].dir ELSE v[q].mnt_point
<1> DEFINE m == media
           n == Len(mounts)
           E(q) == FirstEntry(mounts, q)
           Moved(k, q) == v[q] # NULL /\ E(q) \in 1..k /\ v[q].mnt_point # mounts[E(q)].dir
           D(q) == [kind |-> v[q].kind, content |-> v[q].content, mnt_point |-> mounts[E(q)].dir,
                    mnt_opts |-> mounts[E(q)].opts]
           W == [k \in 0..n |-> [q \in Paths |-> IF Moved(k, q) THEN D(q) ELSE v[q]]]
           ss == [k \in DOMAIN mounts |-> EntryNotes(m, mounts, k)]
<1>0. /\ Sequence(m) /\ Distinct(m) /\ \A j \in DOMAIN m : m[j].path \in Paths
      /\ n \in Nat /\ DOMAIN mounts = 1..n /\ Sequence(mounts)
      /\ \A k \in 1..n : mounts[k].dev \in Paths /\ mounts[k].dir \in Dirs /\ mounts[k].opts \in Opts /\ mounts[k].dir # NULL
  BY NodeFacts, SequenceFacts, EntriesFacts DEF ListInv
<1>1. \A q : \/ E(q) = 0 /\ \A k \in 1..n : mounts[k].dev # q
             \/ E(q) \in 1..n /\ E(q) # 0 /\ mounts[E(q)].dev = q /\ \A k \in 1..n : mounts[k].dev = q => E(q) <= k
  BY <1>0, EntryFacts
<1>2. Sequence(ss) /\ Len(ss) = n /\ \A k \in 1..n : ss[k] = EntryNotes(m, mounts, k)
  <2>1. ss \in [1..n -> {ss[k] : k \in 1..n}]
    BY <1>0
  <2>2. \A k \in 1..n : ss[k] = EntryNotes(m, mounts, k)
    BY <1>0
  <2> HIDE DEF ss, n, m
  <2> QED
    BY <1>0, <2>1, <2>2, FunctionIsSeq
<1>3. v \in ClientViews /\ \A q \in Paths : v[q] \in Devices \cup {NULL}
  BY DEF Shows, ClientViews
<1> HIDE DEF n, E, m, ss
<1>4. ASSUME NEW q \in Paths, v[q] # NULL, E(q) # 0
      PROVE  D(q) \in Devices /\ D(q) # NULL /\ D(q).content = v[q].content /\ D(q).mnt_point = mounts[E(q)].dir
  <2>1. v[q] \in Devices /\ mounts[E(q)].dir \in Dirs /\ mounts[E(q)].opts \in Opts
    BY <1>0, <1>1, <1>3, <1>4
  <2>2. D(q) \in Devices
    BY <2>1 DEF Devices
  <2> QED
    BY <2>2, DeviceAssumption
<1>5. \A k \in 0..n : \A q \in Paths : W[k][q] = IF Moved(k, q) THEN D(q) ELSE v[q]
  OBVIOUS
<1>6. \A k \in 0..n : W[k] \in ClientViews
  <2> TAKE k \in 0..n
  <2>1. \A q \in Paths : Moved(k, q) => E(q) # 0
    BY <1>0
  <2>2. W[k] = [q \in Paths |-> IF Moved(k, q) THEN D(q) ELSE v[q]]
    OBVIOUS
  <2> HIDE DEF D, W
  <2> QED
    BY <1>3, <1>4, <2>1, <2>2 DEF ClientViews
<1> HIDE DEF W, D
<1>7. ASSUME NEW k \in 1..n
      PROVE  Applies(W[k - 1], ss[k], W[k])
  <2> DEFINE p == mounts[k].dev
             i == find_media(m, p)
             x == W[k - 1]
  <2>1. p \in Paths /\ k \in 0..n /\ k - 1 \in 0..n /\ x \in ClientViews /\ W[k] \in ClientViews
    BY <1>0, <1>6
  <2>2. v[p] # NULL <=> i # 0
    BY <1>0, <2>1, ListedFacts DEF Shows, m
  <2>3. \A q \in Paths : E(q) \in 1..k <=> E(q) \in 1..(k - 1) \/ E(q) = k
    BY <1>0, <1>1
  <2>4. \A q \in Paths : E(q) = k => q = p
    BY <1>0, <1>1
  <2>5. \A q \in Paths : q # p => W[k][q] = x[q]
    BY <1>5, <2>1, <2>3, <2>4
  <2>6. CASE i = 0 \/ E(p) # k \/ m[i].mnt_point = mounts[k].dir
    <3>1. ss[k] = <<>>
      BY <1>2, <2>6 DEF EntryNotes, E
    <3>2. W[k][p] = x[p]
      <4>1. ASSUME E(p) = k, i # 0
            PROVE  v[p].mnt_point = mounts[E(p)].dir
        <5>1. i \in DOMAIN m /\ m[i].path = p
          BY <1>0, <4>1, FindFacts
        <5>2. v[p].mnt_point = m[i].mnt_point
          BY <5>1 DEF Shows, m
        <5> QED
          BY <2>6, <4>1, <5>2
      <4> QED
        BY <1>5, <2>1, <2>2, <2>3, <4>1
    <3>3. W[k] = x
      <4> HIDE DEF p
      <4> QED
        BY <2>1, <2>5, <3>2 DEF ClientViews
    <3> QED
      BY <3>1, <3>3, AppliesNone
  <2>7. CASE i # 0 /\ E(p) = k /\ m[i].mnt_point # mounts[k].dir
    <3>1. i \in DOMAIN m /\ m[i].path = p
      BY <1>0, <2>7, FindFacts
    <3>2. ss[k] = UnmountedFirst(p, m[i].mnt_point) \o <<Mounted(p, mounts[k].dir, mounts[k].opts)>>
      BY <1>2, <2>7, <3>1 DEF EntryNotes, E
    <3>3. v[p] # NULL /\ v[p].mnt_point = m[i].mnt_point
      BY <2>2, <2>7, <3>1 DEF Shows, m
    <3>4. x[p] = v[p]
      <4>1. E(p) \notin 1..(k - 1)
        BY <1>0, <2>7
      <4> QED
        BY <1>5, <2>1, <4>1
    <3>5. W[k][p] = D(p)
      <4>1. E(p) \in 1..k
        BY <1>0, <2>7
      <4> QED
        BY <1>5, <2>1, <2>7, <3>3, <4>1
    <3> HIDE DEF x, i, p
    <3>6. PICK u \in ClientViews :
              /\ Applies(x, UnmountedFirst(p, m[i].mnt_point), u)
              /\ u[p] # NULL /\ u[p].kind = x[p].kind /\ u[p].content = x[p].content /\ u[p].mnt_point = NULL
              /\ \A q \in Paths \ {p} : u[q] = x[q]
      BY <2>1, <3>3, <3>4, UnmountedTold
    <3> DEFINE w == processCommand(u, Mounted(p, mounts[k].dir, mounts[k].opts))
    <3>7. Fits(u, Mounted(p, mounts[k].dir, mounts[k].opts))
      BY <3>6 DEF Fits, Mounted
    <3>8. Applies(u, <<Mounted(p, mounts[k].dir, mounts[k].opts)>>, w)
      BY <3>7, AppliesOne
    <3>9. w = Put(u, p, mounts[k].dir, mounts[k].opts)
      BY <1>0, <2>1, <3>6, MountedView
    <3>10. /\ w \in ClientViews /\ \A q \in Paths \ {p} : w[q] = u[q]
           /\ w[p] \in Devices /\ w[p].kind = u[p].kind /\ w[p].content = u[p].content
           /\ w[p].mnt_point = mounts[k].dir /\ w[p].mnt_opts = mounts[k].opts
      BY <1>0, <2>1, <3>6, <3>9, PutFacts
    <3>11. w[p] = W[k][p]
      <4>1. D(p) \in Devices
        BY <1>0, <1>4, <2>1, <2>7, <3>3
      <4>2. /\ D(p).kind = v[p].kind /\ D(p).content = v[p].content
            /\ D(p).mnt_point = mounts[k].dir /\ D(p).mnt_opts = mounts[k].opts
        BY <2>7 DEF D
      <4> HIDE DEF w
      <4>3. w[p] = D(p)
        BY <3>4, <3>6, <3>10, <4>1, <4>2, SameDevice
      <4> QED
        BY <3>5, <4>3
    <3> HIDE DEF w
    <3>12. \A q \in Paths : w[q] = W[k][q]
      BY <2>5, <3>6, <3>10, <3>11
    <3>13. w = W[k]
      BY <2>1, <3>10, <3>12 DEF ClientViews
    <3>14. Applies(x, ss[k], w)
      BY <3>2, <3>6, <3>8, AppliesConcat DEF w
    <3> QED
      BY <3>13, <3>14 DEF x
  <2> QED
    BY <2>6, <2>7
<1>8. Applies(W[0], FlattenSeq(ss), W[n])
  <2>1. Applies(W[0], FlattenSeq(ss), W[Len(ss)])
    BY <1>2, <1>7, AppliesFlatten
  <2> QED
    BY <1>2, <2>1
<1>9. W[0] = v
  <2>1. W[0] \in ClientViews /\ v \in ClientViews /\ 0 \in 0..n /\ 1..0 = {}
    BY <1>0, <1>3, <1>6
  <2>2. \A q \in Paths : W[0][q] = v[q]
    BY <1>5, <2>1
  <2> QED
    BY <2>1, <2>2 DEF ClientViews
<1>10. ASSUME NEW q \in Paths
       PROVE  /\ v[q] # NULL <=> W[n][q] # NULL
              /\ v[q] # NULL => /\ W[n][q].content = v[q].content
                                /\ W[n][q].mnt_point = IF E(q) # 0 THEN mounts[E(q)].dir ELSE v[q].mnt_point
  <2>1. n \in 0..n /\ (E(q) \in 1..n <=> E(q) # 0)
    BY <1>0, <1>1
  <2>2. W[n][q] = IF Moved(n, q) THEN D(q) ELSE v[q]
    BY <1>5, <2>1
  <2> QED
    BY <1>4, <2>1, <2>2
<1>11. W[n] \in ClientViews
  BY <1>0, <1>6
<1> QED
  BY <1>8, <1>9, <1>10, <1>11 DEF ss, m, E

\* A check of the mounts is told: first the entries, then the devices without one.
LEMMA CheckTold ==
    ASSUME ListInv, ~duplicated, mounts \in Seq(Entries), NEW v, Shows(v, media)
    PROVE  \E w : /\ Applies(v, check_mount_changes_notes(media, mounts), w)
                  /\ Shows(w, check_mount_changes(media, mounts))
<1> DEFINE m == media
           n == Len(m)
           E(q) == FirstEntry(mounts, q)
           r == check_mount_changes(m, mounts)
           ss == [i \in DOMAIN m |-> NodeNotes(m, mounts, i)]
<1>0. /\ Sequence(m) /\ Distinct(m) /\ \A j \in DOMAIN m : m[j].path \in Paths /\ Counted(m[j])
      /\ n \in Nat /\ DOMAIN m = 1..n
  BY NodeFacts, SequenceFacts DEF ListInv
<1>1. PICK u \in ClientViews :
              /\ Applies(v, FlattenSeq([k \in DOMAIN mounts |-> EntryNotes(media, mounts, k)]), u)
              /\ \A q \in Paths :
                    /\ v[q] # NULL <=> u[q] # NULL
                    /\ v[q] # NULL => /\ u[q].content = v[q].content
                                      /\ u[q].mnt_point = IF E(q) # 0 THEN mounts[E(q)].dir ELSE v[q].mnt_point
  BY EntriesTold
<1>2. Sequence(ss) /\ Len(ss) = n /\ \A k \in 1..n : ss[k] = NodeNotes(m, mounts, k)
  <2>1. ss \in [1..n -> {ss[k] : k \in 1..n}]
    BY <1>0
  <2>2. \A k \in 1..n : ss[k] = NodeNotes(m, mounts, k)
    BY <1>0
  <2> HIDE DEF ss, n, m
  <2> QED
    BY <1>0, <2>1, <2>2, FunctionIsSeq
<1>3. /\ DOMAIN r = DOMAIN m
      /\ \A i \in DOMAIN m :
            /\ r[i].path = m[i].path /\ r[i].content = m[i].content
            /\ r[i].mnt_point = IF E(m[i].path) = 0 THEN NULL ELSE mounts[E(m[i].path)].dir
  BY CheckedList
<1>4. \A i \in DOMAIN m : EntryOf(m, mounts, i) = E(m[i].path)
  BY <1>0, FindsIt DEF EntryOf
<1>5. \A i \in DOMAIN m : v[m[i].path] # NULL /\ v[m[i].path].mnt_point = m[i].mnt_point /\ v[m[i].path].content = m[i].content
  BY <1>0 DEF Shows, Listed
<1> DEFINE Gone(k, q) == \E i \in 1..k : m[i].path = q /\ E(q) = 0 /\ m[i].mnt_point # NULL
           D(q) == [kind |-> u[q].kind, content |-> u[q].content, mnt_point |-> NULL, mnt_opts |-> NULL]
           W == [k \in 0..n |-> [q \in Paths |-> IF Gone(k, q) THEN D(q) ELSE u[q]]]
<1>6. /\ \A k \in 0..n : \A q \in Paths : W[k][q] = IF Gone(k, q) THEN D(q) ELSE u[q]
      /\ \A k \in 0..n : W[k] = [q \in Paths |-> W[k][q]]
  <2> HIDE DEF n, E, m, Gone, D
  <2> QED
    OBVIOUS
<1> HIDE DEF n, E, m, r, ss, W
<1>7. ASSUME NEW k \in 0..n, NEW q \in Paths, Gone(k, q)
      PROVE  u[q] # NULL
  <2>1. PICK i \in 1..k : m[i].path = q
    BY <1>7
  <2>2. i \in DOMAIN m
    BY <1>0, <2>1
  <2> QED
    BY <1>1, <1>5, <2>1, <2>2
<1>8. ASSUME NEW q \in Paths, u[q] # NULL
      PROVE  /\ D(q) \in Devices /\ D(q) # NULL /\ D(q).kind = u[q].kind /\ D(q).content = u[q].content
             /\ D(q).mnt_point = NULL /\ D(q).mnt_opts = NULL
  <2>1. u[q] \in Devices
    BY <1>8 DEF ClientViews
  <2>2. D(q) \in Devices
    BY <2>1 DEF Devices
  <2> QED
    BY <2>2, DeviceAssumption
<1> HIDE DEF D
<1>9. \A k \in 0..n : W[k] \in ClientViews
  <2> TAKE k \in 0..n
  <2>1. \A q \in Paths : u[q] \in Devices \cup {NULL}
    BY DEF ClientViews
  <2>2. \A q \in Paths : W[k][q] \in Devices \cup {NULL}
    BY <1>6, <1>7, <1>8, <2>1
  <2> QED
    BY <1>6, <2>2 DEF ClientViews
<1>10. ASSUME NEW k \in 1..n
       PROVE  Applies(W[k - 1], ss[k], W[k])
  <2> DEFINE p == m[k].path
             x == W[k - 1]
  <2>1. k \in DOMAIN m /\ p \in Paths /\ k \in 0..n /\ k - 1 \in 0..n /\ x \in ClientViews /\ W[k] \in ClientViews
    BY <1>0, <1>9
  <2>2. \A q \in Paths : Gone(k, q) <=> Gone(k - 1, q) \/ (q = p /\ E(p) = 0 /\ m[k].mnt_point # NULL)
    <3>1. \A i \in 1..k : i = k \/ i \in 1..(k - 1)
      BY <1>0
    <3>2. k \in 1..k /\ \A i \in 1..(k - 1) : i \in 1..k
      BY <1>0
    <3> QED
      BY <3>1, <3>2
  <2>3. ~Gone(k - 1, p)
    <3>1. \A i \in 1..(k - 1) : i \in DOMAIN m /\ i # k
      BY <1>0
    <3> QED
      BY <1>0, <2>1, <3>1 DEF Distinct
  <2>4. \A q \in Paths : q # p => W[k][q] = x[q]
    <3> HIDE DEF Gone
    <3> QED
      BY <1>6, <2>1, <2>2
  <2>5. x[p] = u[p]
    BY <1>6, <2>1, <2>3
  <2>6. EntryOf(m, mounts, k) = E(p) /\ (m[k].mount_counter = 1 <=> m[k].mnt_point # NULL)
    BY <1>0, <1>4, <2>1 DEF Counted
  <2> HIDE DEF Gone
  <2>7. CASE E(p) # 0 \/ m[k].mnt_point = NULL
    <3>1. ss[k] = <<>>
      BY <1>2, <2>6, <2>7 DEF NodeNotes
    <3>2. W[k][p] = x[p]
      BY <1>6, <2>1, <2>2, <2>3, <2>5, <2>7
    <3>3. W[k] = x
      <4> HIDE DEF p
      <4> QED
        BY <2>1, <2>4, <3>2 DEF ClientViews
    <3> QED
      BY <3>1, <3>3, AppliesNone
  <2>8. CASE E(p) = 0 /\ m[k].mnt_point # NULL
    <3> DEFINE note == Unmounted(p, m[k].mnt_point)
               w == processCommand(x, note)
    <3>1. ss[k] = <<note>>
      BY <1>2, <2>6, <2>8 DEF NodeNotes
    <3>2. u[p] # NULL /\ u[p].mnt_point = m[k].mnt_point
      BY <1>1, <1>5, <2>1, <2>8
    <3>3. Fits(x, note)
      BY <2>5, <3>2 DEF Fits, Unmounted
    <3>4. Applies(x, <<note>>, w)
      BY <3>3, AppliesOne
    <3>5. w = Put(x, p, NULL, NULL)
      BY <2>1, <2>5, <3>2, UnmountedView
    <3>6. /\ w \in ClientViews /\ \A q \in Paths \ {p} : w[q] = x[q]
          /\ w[p] \in Devices /\ w[p].kind = x[p].kind /\ w[p].content = x[p].content
          /\ w[p].mnt_point = NULL /\ w[p].mnt_opts = NULL
      <4>1. x \in ClientViews /\ p \in Paths /\ x[p] # NULL
        BY <2>1, <2>5, <3>2
      <4> HIDE DEF w, x, p
      <4> QED
        BY <3>5, <4>1, PutFacts
    <3>7. Gone(k, p)
      BY <2>1, <2>2, <2>8
    <3>8. w[p] = W[k][p]
      <4> HIDE DEF w, x, p
      <4>1. w[p] = D(p)
        BY <1>8, <2>1, <2>5, <3>2, <3>6, SameDevice
      <4> QED
        BY <1>6, <2>1, <3>7, <4>1
    <3> HIDE DEF w, p, x, note
    <3>9. w = W[k]
      BY <2>1, <2>4, <3>6, <3>8 DEF ClientViews
    <3> QED
      BY <3>1, <3>4, <3>9 DEF x
  <2> QED
    BY <2>7, <2>8
<1>11. Applies(W[0], FlattenSeq(ss), W[n])
  <2>1. Applies(W[0], FlattenSeq(ss), W[Len(ss)])
    BY <1>2, <1>10, AppliesFlatten
  <2> QED
    BY <1>2, <2>1
<1>12. W[0] = u
  <2>1. W[0] \in ClientViews /\ 0 \in 0..n /\ 1..0 = {}
    BY <1>0, <1>9
  <2>2. \A q \in Paths : W[0][q] = u[q]
    BY <1>6, <2>1
  <2> QED
    BY <2>1, <2>2 DEF ClientViews
<1>13. Applies(v, check_mount_changes_notes(m, mounts), W[n])
  <2>1. check_mount_changes_notes(m, mounts)
           = FlattenSeq([k \in DOMAIN mounts |-> EntryNotes(m, mounts, k)]) \o FlattenSeq(ss)
    BY CheckNotes DEF ss
  <2> QED
    BY <1>1, <1>11, <1>12, <2>1, AppliesConcat DEF m
<1>14. n \in 0..n /\ W[n] \in ClientViews
  BY <1>0, <1>9
<1>15. ASSUME NEW q \in Paths
       PROVE  W[n][q] # NULL <=> Listed(r, q)
  <2>1. v[q] # NULL <=> Listed(m, q)
    BY DEF Shows, m
  <2>2. Listed(m, q) <=> Listed(r, q)
    BY <1>3 DEF Listed
  <2>3. W[n][q] # NULL <=> u[q] # NULL
    <3> HIDE DEF Gone
    <3> QED
      BY <1>6, <1>7, <1>8, <1>14
  <2> QED
    BY <1>1, <2>1, <2>2, <2>3
<1>16. ASSUME NEW i \in DOMAIN r
       PROVE  W[n][r[i].path].content = r[i].content /\ W[n][r[i].path].mnt_point = r[i].mnt_point
  <2> DEFINE q == m[i].path
  <2>1. i \in DOMAIN m /\ q \in Paths /\ r[i].path = q /\ r[i].content = m[i].content
    BY <1>0, <1>3
  <2>2. u[q].content = m[i].content /\ u[q].mnt_point = IF E(q) # 0 THEN mounts[E(q)].dir ELSE m[i].mnt_point
    BY <1>1, <1>5, <2>1
  <2>3. Gone(n, q) <=> E(q) = 0 /\ m[i].mnt_point # NULL
    BY <1>0, <2>1 DEF Distinct
  <2> HIDE DEF Gone
  <2>4. CASE Gone(n, q)
    <3>1. W[n][q] = D(q) /\ u[q] # NULL
      BY <1>6, <1>7, <1>14, <2>1, <2>4
    <3> QED
      BY <1>3, <1>8, <2>1, <2>2, <2>3, <2>4, <3>1
  <2>5. CASE ~Gone(n, q)
    BY <1>3, <1>6, <1>14, <2>1, <2>2, <2>3, <2>5
  <2> QED
    BY <2>4, <2>5
<1>17. Shows(W[n], r)
  BY <1>14, <1>15, <1>16 DEF Shows
<1> QED
  BY <1>13, <1>17 DEF m, r

\* The notifications are about devices, whatever is in the list.
LEMMA RemovalNotesType ==
    ASSUME NEW n, NodeOK(n)
    PROVE  RemovalNotes(n) \in Seq(ClientNotes)
<1>1. n.path \in Paths /\ n.mnt_point \in Dirs \cup {NULL}
  BY DEF NodeOK, Nodes
<1>2. Removed(n.path) \in ClientNotes /\ (n.mnt_point # NULL => Unmounted(n.path, n.mnt_point) \in ClientNotes)
  BY <1>1 DEF ClientNotes
<1> HIDE DEF ClientNotes
<1>3. <<Removed(n.path)>> \in Seq(ClientNotes) /\ <<>> \in Seq(ClientNotes)
  BY <1>2
<1>4. n.mnt_point # NULL => <<Unmounted(n.path, n.mnt_point)>> \in Seq(ClientNotes)
  BY <1>2
<1> QED
  BY <1>3, <1>4 DEF RemovalNotes

LEMMA RemoveNotesType ==
    ASSUME ListInv, NEW p \in Paths, find_media(media, p) # 0
    PROVE  remove_media_notes(media, p) \in Seq(ClientNotes)
<1> DEFINE i == find_media(media, p)
           e == SubtreeEnd(media, i)
           ss == [k \in 1..(e - i) |-> RemovalNotes(media[i + k])]
<1>1. Sequence(media) /\ Len(media) \in Nat /\ DOMAIN media = 1..Len(media) /\ i \in DOMAIN media
  BY FindFacts, SequenceFacts DEF ListInv
<1>2. e \in i..Len(media)
  BY <1>1, SubtreeEndFacts
<1> HIDE DEF i, e
<1>3. e - i \in Nat /\ \A k \in 1..(e - i) : i + k \in DOMAIN media
  BY <1>1, <1>2
<1>4. \A k \in 1..(e - i) : ss[k] \in Seq(ClientNotes)
  BY <1>3, RemovalNotesType DEF ListInv
<1>5. ss \in [1..(e - i) -> Seq(ClientNotes)]
  BY <1>4
<1> HIDE DEF ss
<1>6. Sequence(ss) /\ DOMAIN ss = 1..(e - i)
  BY <1>3, <1>5, FunctionIsSeq
<1>7. FlattenSeq(ss) \in Seq(ClientNotes)
  BY <1>4, <1>6, FlattenIn
<1>8. RemovalNotes(media[i]) \in Seq(ClientNotes)
  BY <1>1, RemovalNotesType DEF ListInv
<1>9. remove_media_notes(media, p) = FlattenSeq(ss) \o RemovalNotes(media[i])
  BY DEF remove_media_notes, i, e, ss
<1> QED
  BY <1>7, <1>8, <1>9

LEMMA ChangeNotesType ==
    ASSUME ListInv, NEW p \in Paths, NEW attr \in Attributes
    PROVE  change_media_notes(media, p, attr.kind, attr.content) \in Seq(ClientNotes)
<1> DEFINE i == find_media(media, p)
           a == Changed(p, attr.kind, attr.content)
           b == Unmounted(p, media[i].mnt_point)
<1>1. i = 0 \/ i \in DOMAIN media
  BY FindFacts DEF ListInv
<1>2. a \in ClientNotes
  BY DEF ClientNotes, Attributes
<1>3. i # 0 /\ media[i].mnt_point # NULL => b \in ClientNotes
  BY <1>1 DEF ListInv, NodeOK, Nodes, ClientNotes
<1>4. change_media_notes(media, p, attr.kind, attr.content) =
         IF i = 0 \/ NothingChanged(media[i], attr.kind, attr.content) THEN <<>>
         ELSE (IF media[i].mnt_point # NULL THEN <<b>> ELSE <<>>) \o <<a>>
  BY DEF change_media_notes
<1> HIDE DEF a, b, i, ClientNotes
<1>5. <<a>> \in Seq(ClientNotes) /\ <<>> \in Seq(ClientNotes)
  BY <1>2
<1>6. i # 0 /\ media[i].mnt_point # NULL => <<b>> \in Seq(ClientNotes)
  BY <1>3
<1>7. \A s, t \in Seq(ClientNotes) : s \o t \in Seq(ClientNotes)
  OBVIOUS
<1> QED
  BY <1>4, <1>5, <1>6, <1>7

LEMMA CheckNotesType ==
    ASSUME ListInv, mounts \in Seq(Entries)
    PROVE  check_mount_changes_notes(media, mounts) \in Seq(ClientNotes)
<1> DEFINE ee == [k \in DOMAIN mounts |-> EntryNotes(media, mounts, k)]
           nn == [i \in DOMAIN media |-> NodeNotes(media, mounts, i)]
<1>1. /\ Sequence(mounts) /\ Len(mounts) \in Nat /\ DOMAIN mounts = 1..Len(mounts)
      /\ \A k \in DOMAIN mounts : mounts[k].dir \in Dirs /\ mounts[k].opts \in Opts
  BY EntriesFacts, SequenceFacts
<1>2. Sequence(media) /\ Len(media) \in Nat /\ DOMAIN media = 1..Len(media)
  BY SequenceFacts DEF ListInv
<1>3. \A i \in DOMAIN media :
         /\ media[i].path \in Paths /\ media[i].mnt_point \in Dirs \cup {NULL}
         /\ media[i].mount_counter = 1 => media[i].mnt_point # NULL
  BY DEF ListInv, NodeOK, Nodes, Counted
<1>4. ASSUME NEW i \in DOMAIN media, media[i].mnt_point # NULL
      PROVE  Unmounted(media[i].path, media[i].mnt_point) \in ClientNotes
  BY <1>3, <1>4 DEF ClientNotes
<1>5. ASSUME NEW i \in DOMAIN media, NEW k \in DOMAIN mounts
      PROVE  Mounted(media[i].path, mounts[k].dir, mounts[k].opts) \in ClientNotes
  BY <1>1, <1>3 DEF ClientNotes
<1>6. (\A x \in ClientNotes : <<x>> \in Seq(ClientNotes)) /\ <<>> \in Seq(ClientNotes)
  <2> HIDE DEF ClientNotes
  <2> QED
    OBVIOUS
<1>7. \A s, t \in Seq(ClientNotes) : s \o t \in Seq(ClientNotes)
  <2> HIDE DEF ClientNotes
  <2> QED
    OBVIOUS
<1> HIDE DEF ClientNotes
<1>8. ASSUME NEW k \in DOMAIN mounts
      PROVE  EntryNotes(media, mounts, k) \in Seq(ClientNotes)
  <2> DEFINE i == find_media(media, mounts[k].dev)
  <2>1. i = 0 \/ i \in DOMAIN media
    BY <1>2, FindFacts
  <2>2. i # 0 => UnmountedFirst(media[i].path, media[i].mnt_point) \in Seq(ClientNotes)
    BY <1>4, <1>6, <2>1 DEF UnmountedFirst
  <2>3. i # 0 => <<Mounted(media[i].path, mounts[k].dir, mounts[k].opts)>> \in Seq(ClientNotes)
    BY <1>5, <1>6, <2>1
  <2> QED
    BY <1>6, <1>7, <2>2, <2>3 DEF EntryNotes
<1>9. ASSUME NEW i \in DOMAIN media
      PROVE  NodeNotes(media, mounts, i) \in Seq(ClientNotes)
  BY <1>3, <1>4, <1>6 DEF NodeNotes
<1>10. ee \in [1..Len(mounts) -> Seq(ClientNotes)] /\ nn \in [1..Len(media) -> Seq(ClientNotes)]
  BY <1>1, <1>2, <1>8, <1>9
<1>11. check_mount_changes_notes(media, mounts) = FlattenSeq(ee) \o FlattenSeq(nn)
  BY CheckNotes
<1> HIDE DEF ee, nn
<1>12. Sequence(ee) /\ DOMAIN ee = 1..Len(mounts) /\ Sequence(nn) /\ DOMAIN nn = 1..Len(media)
  BY <1>1, <1>2, <1>10, FunctionIsSeq
<1>13. (\A k \in DOMAIN ee : ee[k] \in Seq(ClientNotes)) /\ (\A k \in DOMAIN nn : nn[k] \in Seq(ClientNotes))
  BY <1>10, <1>12
<1>14. FlattenSeq(ee) \in Seq(ClientNotes) /\ FlattenSeq(nn) \in Seq(ClientNotes)
  BY <1>12, <1>13, FlattenIn
<1> QED
  BY <1>7, <1>11, <1>14

\* The client has listed the devices only after the startup; it then knows the list,
\* and all that it was told was news.
ToldInv ==
    /\ client \in {"none", "asking", "synced"} /\ view \in ClientViews /\ fitted \in BOOLEAN
    /\ changes \in Nat /\ late \subseteq Paths
    /\ client = "synced" => pc \notin {"scan", "enumerate"}
    /\ ~duplicated => fitted
    /\ client = "synced" /\ ~duplicated => Shows(view, media)

\* Notifications that lead the client from the old list to the new one.
LEMMA NotifyStep ==
    ASSUME ToldInv, NEW notes \in Seq(ClientNotes), Notify(notes),
           duplicated \in BOOLEAN, duplicated => duplicated',
           client = "synced" /\ ~duplicated' => \E w : Applies(view, notes, w) /\ Shows(w, media')
    PROVE  /\ client' = client /\ view' \in ClientViews /\ fitted' \in BOOLEAN
           /\ ~duplicated' => fitted'
           /\ client' = "synced" /\ ~duplicated' => Shows(view', media')
<1>1. CASE client # "synced"
  BY <1>1 DEF Notify, ToldInv
<1>2. CASE client = "synced"
  <2>1. client' = client /\ view' = Follow(view, notes) /\ fitted' = (fitted /\ AllFit(view, notes))
    BY <1>2 DEF Notify
  <2>2. view' \in ClientViews
    BY <2>1, ViewStep DEF ToldInv
  <2>3. fitted' \in BOOLEAN
    BY <2>1
  <2>4. ASSUME ~duplicated'
        PROVE  fitted' /\ Shows(view', media')
    <3>1. PICK w : Applies(view, notes, w) /\ Shows(w, media')
      BY <1>2, <2>4
    <3>2. Follow(view, notes) = w /\ AllFit(view, notes)
      BY <3>1, AppliesFacts
    <3>3. fitted
      BY <2>4 DEF ToldInv
    <3> QED
      BY <2>1, <3>1, <3>2, <3>3
  <2> QED
    BY <2>1, <2>2, <2>3, <2>4
<1> QED
  BY <1>1, <1>2

LEMMA AddDeviceStep ==
    ASSUME ShapeInv, ListInv, ToldInv, NEW p \in Paths, NEW attr \in Attributes, AddDevice(p, attr)
    PROVE  /\ client' = client /\ view' \in ClientViews /\ fitted' \in BOOLEAN /\ late' \subseteq Paths
           /\ ~duplicated' => fitted'
           /\ client' = "synced" /\ ~duplicated' => Shows(view', media')
<1> DEFINE note == Added(p, attr.kind, attr.content)
<1>0. duplicated \in BOOLEAN
  BY DEF ShapeInv
<1>1. CASE ~HasParent(media, p)
  <2>1. UNCHANGED <<media, told, duplicated, late>>
    BY <1>1 DEF AddDevice
  <2> QED
    BY <2>1 DEF ToldInv, told
<1>2. CASE HasParent(media, p)
  <2>1. /\ media' = add_media(media, p, attr.kind, attr.content) /\ Notify(<<note>>)
        /\ duplicated' = (duplicated \/ find_media(media, p) # 0)
        /\ late' = IF FirstEntry(mounts, p) # 0 THEN late \cup {p} ELSE late
    BY <1>2 DEF AddDevice
  <2>2. note \in ClientNotes
    BY DEF ClientNotes, Attributes
  <2> HIDE DEF ClientNotes
  <2>3. <<note>> \in Seq(ClientNotes)
    BY <2>2
  <2>4. ASSUME client = "synced", ~duplicated'
        PROVE  \E w : Applies(view, <<note>>, w) /\ Shows(w, media')
    <3>1. ~duplicated /\ find_media(media, p) = 0
      BY <2>1, <2>4
    <3>2. Shows(view, media)
      BY <2>4, <3>1 DEF ToldInv
    <3> QED
      BY <1>2, <2>1, <3>1, <3>2, AddTold
  <2>5. duplicated => duplicated'
    BY <2>1
  <2> HIDE DEF note
  <2>6. /\ client' = client /\ view' \in ClientViews /\ fitted' \in BOOLEAN
        /\ ~duplicated' => fitted'
        /\ client' = "synced" /\ ~duplicated' => Shows(view', media')
    BY <1>0, <2>1, <2>3, <2>4, <2>5, NotifyStep
  <2> QED
    BY <2>1, <2>6 DEF ToldInv
<1> QED
  BY <1>1, <1>2

LEMMA CheckMountsStep ==
    ASSUME ShapeInv, ListInv, ToldInv, CheckMounts
    PROVE  /\ client' = client /\ view' \in ClientViews /\ fitted' \in BOOLEAN /\ late' \subseteq Paths
           /\ ~duplicated' => fitted'
           /\ client' = "synced" /\ ~duplicated' => Shows(view', media')
<1> DEFINE notes == check_mount_changes_notes(media, mounts)
<1>1. /\ media' = check_mount_changes(media, mounts) /\ Notify(notes) /\ late' = {} /\ duplicated' = duplicated
      /\ duplicated \in BOOLEAN /\ mounts \in Seq(Entries)
  BY DEF CheckMounts, ShapeInv
<1>2. notes \in Seq(ClientNotes)
  BY <1>1, CheckNotesType
<1>3. ASSUME client = "synced", ~duplicated'
      PROVE  \E w : Applies(view, notes, w) /\ Shows(w, media')
  <2>1. ~duplicated /\ Shows(view, media)
    BY <1>1, <1>3 DEF ToldInv
  <2> QED
    BY <1>1, <2>1, CheckTold
<1> HIDE DEF notes
<1>4. /\ client' = client /\ view' \in ClientViews /\ fitted' \in BOOLEAN
      /\ ~duplicated' => fitted'
      /\ client' = "synced" /\ ~duplicated' => Shows(view', media')
  BY <1>1, <1>2, <1>3, NotifyStep
<1> QED
  BY <1>1, <1>4

LEMMA MonitorStep ==
    ASSUME Inv, ToldInv, MonitorGetDevice
    PROVE  /\ client' = client /\ view' \in ClientViews /\ fitted' \in BOOLEAN /\ late' \subseteq Paths
           /\ ~duplicated' => fitted'
           /\ client' = "synced" /\ ~duplicated' => Shows(view', media')
<1> DEFINE Goal == /\ client' = client /\ view' \in ClientViews /\ fitted' \in BOOLEAN /\ late' \subseteq Paths
                   /\ ~duplicated' => fitted'
                   /\ client' = "synced" /\ ~duplicated' => Shows(view', media')
           e == Head(queue)
<1>0. ShapeInv /\ ListInv /\ duplicated \in BOOLEAN /\ late \subseteq Paths
  BY DEF Inv, ShapeInv, ToldInv
<1>1. CASE UNCHANGED <<media, told, duplicated, late>>
  BY <1>1 DEF ToldInv, told
<1>2. CASE ready.monitor
  <2>1. queue # <<>> /\ queue \in Seq(Events)
    BY <1>0, <1>2 DEF MonitorGetDevice, Inv, PhaseInv, ShapeInv
  <2>2. e \in Events
    BY <2>1
  <2>3. e.path \in Paths /\ e.attr \in Attributes
    BY <2>2 DEF Events
  <2>4. \/ AddDevice(e.path, e.attr)
        \/ /\ find_media(media, e.path) # 0
           /\ media' = remove_media(media, e.path)
           /\ Notify(remove_media_notes(media, e.path))
           /\ late' = {q \in late : find_media(media', q) # 0}
           /\ UNCHANGED duplicated
        \/ /\ media' = change_media(media, e.path, e.attr.kind, e.attr.content)
           /\ Notify(change_media_notes(media, e.path, e.attr.kind, e.attr.content))
           /\ UNCHANGED <<duplicated, late>>
        \/ UNCHANGED <<media, told, duplicated, late>>
    BY <1>2 DEF MonitorGetDevice
  <2> HIDE DEF e
  <2>5. CASE AddDevice(e.path, e.attr)
    BY <1>0, <2>3, <2>5, AddDeviceStep
  <2>6. CASE /\ find_media(media, e.path) # 0
             /\ media' = remove_media(media, e.path)
             /\ Notify(remove_media_notes(media, e.path))
             /\ late' = {q \in late : find_media(media', q) # 0}
             /\ UNCHANGED duplicated
    <3> DEFINE notes == remove_media_notes(media, e.path)
    <3>1. notes \in Seq(ClientNotes)
      BY <1>0, <2>3, <2>6, RemoveNotesType
    <3>2. ASSUME client = "synced", ~duplicated'
          PROVE  \E w : Applies(view, notes, w) /\ Shows(w, media')
      <4>1. ~duplicated /\ Shows(view, media)
        BY <2>6, <3>2 DEF ToldInv
      <4> QED
        BY <1>0, <2>3, <2>6, <4>1, RemoveTold
    <3> HIDE DEF notes
    <3>3. /\ client' = client /\ view' \in ClientViews /\ fitted' \in BOOLEAN
          /\ ~duplicated' => fitted'
          /\ client' = "synced" /\ ~duplicated' => Shows(view', media')
      BY <1>0, <2>6, <3>1, <3>2, NotifyStep DEF notes
    <3>4. late' \subseteq Paths
      BY <1>0, <2>6
    <3> QED
      BY <3>3, <3>4
  <2>7. CASE /\ media' = change_media(media, e.path, e.attr.kind, e.attr.content)
             /\ Notify(change_media_notes(media, e.path, e.attr.kind, e.attr.content))
             /\ UNCHANGED <<duplicated, late>>
    <3> DEFINE notes == change_media_notes(media, e.path, e.attr.kind, e.attr.content)
    <3>1. notes \in Seq(ClientNotes)
      BY <1>0, <2>3, <2>7, ChangeNotesType
    <3>2. ASSUME client = "synced", ~duplicated'
          PROVE  \E w : Applies(view, notes, w) /\ Shows(w, media')
      <4>1. ~duplicated /\ Shows(view, media)
        BY <2>7, <3>2 DEF ToldInv
      <4> QED
        BY <1>0, <2>3, <2>7, <4>1, ChangeTold
    <3> HIDE DEF notes
    <3>3. /\ client' = client /\ view' \in ClientViews /\ fitted' \in BOOLEAN
          /\ ~duplicated' => fitted'
          /\ client' = "synced" /\ ~duplicated' => Shows(view', media')
      BY <1>0, <2>7, <3>1, <3>2, NotifyStep DEF notes
    <3>4. late' \subseteq Paths
      BY <1>0, <2>7
    <3> QED
      BY <3>3, <3>4
  <2> QED
    BY <1>1, <2>4, <2>5, <2>6, <2>7
<1> QED
  BY <1>1, <1>2 DEF MonitorGetDevice

LEMMA ToldStep ==
    ASSUME Inv, ToldInv, [Next]_vars
    PROVE  ToldInv'
<1>0. ShapeInv /\ ListInv /\ duplicated \in BOOLEAN
  BY DEF Inv, ShapeInv
<1>1. CASE UNCHANGED <<pc, told, changes, late, media, duplicated>>
  BY <1>1 DEF ToldInv, told
<1>2. CASE pc' = pc /\ changes' = changes + 1 /\ UNCHANGED <<told, late, media, duplicated>>
  BY <1>2 DEF ToldInv, told
<1>3. CASE ClientAsks
  BY <1>3 DEF ClientAsks, ToldInv, env, daemon
<1>4. CASE EnumerateDevices
  BY <1>4 DEF EnumerateDevices, ToldInv, env, told
<1>5. CASE NextEnumeratedDevice
  <2> DEFINE p == Head(enumeration)
  <2>1. p \in Paths /\ pc = "enumerate" /\ UNCHANGED changes
    BY <1>5, EnumerateCases DEF env
  <2>2. CASE world[p] # NULL
    <3>1. world[p] \in Attributes /\ pc' = pc /\ AddDevice(p, world[p])
      BY <1>0, <1>5, <2>1, <2>2 DEF NextEnumeratedDevice, ShapeInv, Worlds
    <3> HIDE DEF p
    <3>2. /\ client' = client /\ view' \in ClientViews /\ fitted' \in BOOLEAN /\ late' \subseteq Paths
          /\ ~duplicated' => fitted'
          /\ client' = "synced" /\ ~duplicated' => Shows(view', media')
      BY <1>0, <2>1, <3>1, AddDeviceStep
    <3> QED
      BY <2>1, <3>1, <3>2 DEF ToldInv
  <2>3. CASE world[p] = NULL
    <3>1. pc' = "exit" /\ media' = <<>> /\ late' = {} /\ UNCHANGED <<told, duplicated>> /\ client # "synced"
      BY <1>5, <2>1, <2>3 DEF NextEnumeratedDevice, ToldInv
    <3> QED
      BY <2>1, <3>1 DEF ToldInv, told
  <2> QED
    BY <2>2, <2>3
<1>6. CASE (FirstCheck \/ HandleMounts) /\ CheckMounts
  <2>1. UNCHANGED changes /\ pc' \in {"poll", "clients"}
    BY <1>6 DEF FirstCheck, HandleMounts, env
  <2>2. /\ client' = client /\ view' \in ClientViews /\ fitted' \in BOOLEAN /\ late' \subseteq Paths
        /\ ~duplicated' => fitted'
        /\ client' = "synced" /\ ~duplicated' => Shows(view', media')
    BY <1>0, <1>6, CheckMountsStep
  <2> QED
    BY <2>1, <2>2 DEF ToldInv
<1>7. CASE HandleMounts /\ UNCHANGED <<media, told, duplicated, late>>
  <2>1. UNCHANGED changes /\ pc' = "clients"
    BY <1>7 DEF HandleMounts, env
  <2> QED
    BY <1>7, <2>1 DEF ToldInv, told
<1>8. CASE Poll
  BY <1>8 DEF Poll, ToldInv, told
<1>9. CASE MonitorGetDevice
  <2>1. UNCHANGED changes /\ pc' = "mounts"
    BY <1>9 DEF MonitorGetDevice
  <2>2. /\ client' = client /\ view' \in ClientViews /\ fitted' \in BOOLEAN /\ late' \subseteq Paths
        /\ ~duplicated' => fitted'
        /\ client' = "synced" /\ ~duplicated' => Shows(view', media')
    BY <1>9, MonitorStep
  <2> QED
    BY <2>1, <2>2 DEF ToldInv
<1>10. CASE HandleClients
  <2>1. pc' = "poll" /\ UNCHANGED <<env, media, duplicated, late>>
    BY <1>10 DEF HandleClients
  <2>2. CASE ready.client
    <3>1. client' = "synced" /\ view' = Snapshot(media) /\ fitted' = TRUE
      BY <1>10, <2>2 DEF HandleClients
    <3>2. Snapshot(media) \in ClientViews /\ (~duplicated => Shows(Snapshot(media), media))
      BY <1>0, SnapshotFacts
    <3> QED
      BY <2>1, <3>1, <3>2 DEF ToldInv, env
  <2>3. CASE ~ready.client
    <3>1. UNCHANGED told
      BY <1>10, <2>3 DEF HandleClients
    <3> QED
      BY <2>1, <3>1 DEF ToldInv, env, told
  <2> QED
    BY <2>2, <2>3
<1>11. CASE Exit
  <2>1. EmptyView \in ClientViews
    BY DEF EmptyView, ClientViews
  <2> QED
    BY <1>11, <2>1 DEF Exit, ToldInv, env
<1>12. CASE Environment
  <2>1. ASSUME NEW a, NEW q, NEW attr, Emit(a, q, attr)
        PROVE  pc' = pc /\ changes' = changes + 1 /\ UNCHANGED <<told, late, media, duplicated>>
    BY <2>1 DEF Emit, daemon
  <2>2. ASSUME NEW new, MountsBecome(new)
        PROVE  pc' = pc /\ changes' = changes + 1 /\ UNCHANGED <<told, late, media, duplicated>>
    BY <2>2 DEF MountsBecome, daemon
  <2> QED
    BY <1>2, <1>3, <1>12, <2>1, <2>2 DEF Environment, Plug, Alter, Unplug, Mount, Unmount, Remount
<1>13. CASE Terminated \/ UNCHANGED vars
  BY <1>1, <1>13 DEF Terminated, vars, env, daemon, told
<1> QED
  BY <1>4, <1>5, <1>6, <1>7, <1>8, <1>9, <1>10, <1>11, <1>12, <1>13
     DEF Next, Daemon, FirstCheck, HandleMounts

LEMMA ToldInit == Init => ToldInv
<1>1. EmptyView \in ClientViews
  BY DEF EmptyView, ClientViews
<1> QED
  BY <1>1 DEF Init, ToldInv

LEMMA ToldInvariance == Spec => [](Inv /\ ToldInv)
<1>1. Init => Inv /\ ToldInv
  BY InvInit, ToldInit
<1>2. Inv /\ ToldInv /\ [Next]_vars => (Inv /\ ToldInv)'
  BY InvStep, ToldStep
<1> QED
  BY <1>1, <1>2, PTL DEF Spec

\* The list, the events and the view of the client keep their shape, whatever is
\* plugged in, mounted and told.
THEOREM TypeCorrect == Spec => []TypeOK
<1>1. ASSUME Inv, ToldInv PROVE TypeOK
  <2>1. ShapeInv /\ ListInv /\ PhaseInv
    BY <1>1 DEF Inv
  <2>2. media \in Seq(Nodes)
    <3>1. Sequence(media) /\ \A i \in DOMAIN media : media[i] \in Nodes
      BY <2>1 DEF ListInv, NodeOK
    <3>2. ToSet(media) \subseteq Nodes
      BY <3>1 DEF ToSet
    <3> QED
      BY <3>1, <3>2 DEF Sequence
  <2> QED
    BY <1>1, <2>1, <2>2 DEF ShapeInv, PhaseInv, ToldInv, ClientViews, Worlds, TypeOK
<1> QED
  BY <1>1, ToldInvariance, PTL

\* Every notification tells of a change from what the client knew: add_media,
\* remove_media, change_media and check_mount_changes notify in an order in which
\* no device is unmounted twice, or removed while mounted or before its partitions.
THEOREM NotificationsFitCorrect == Spec => []NotificationsFit
<1>1. ASSUME ToldInv PROVE NotificationsFit
  BY <1>1 DEF ToldInv, NotificationsFit
<1> QED
  BY <1>1, ToldInvariance, PTL

\* A client that has listed the devices once and applies every notification knows
\* what list_all_removable_devices would tell it now.
THEOREM ClientFollowsCorrect == Spec => []ClientFollows
<1>1. ASSUME Inv, ToldInv PROVE ClientFollows
  <2> SUFFICES ASSUME client = "synced", ~duplicated, NEW p \in Paths, NEW field \in {"content", "mnt_point"}
               PROVE  Agrees(view[p], Snapshot(media)[p], field)
    BY DEF ClientFollows
  <2>1. Shows(view, media) /\ ListInv
    BY <1>1 DEF ToldInv, Inv
  <2>2. Shows(Snapshot(media), media)
    BY <2>1, SnapshotFacts
  <2>3. CASE ~Listed(media, p)
    BY <2>1, <2>2, <2>3 DEF Shows, Agrees
  <2>4. CASE Listed(media, p)
    <3>1. PICK i \in DOMAIN media : media[i].path = p
      BY <2>4 DEF Listed
    <3>2. view[p] # NULL /\ view[p].content = media[i].content /\ view[p].mnt_point = media[i].mnt_point
      BY <2>1, <2>4, <3>1 DEF Shows
    <3>3. /\ Snapshot(media)[p] # NULL /\ Snapshot(media)[p].content = media[i].content
          /\ Snapshot(media)[p].mnt_point = media[i].mnt_point
      BY <2>2, <2>4, <3>1 DEF Shows
    <3> QED
      BY <3>2, <3>3 DEF Agrees
  <2> QED
    BY <2>3, <2>4
<1> QED
  BY <1>1, ToldInvariance, PTL
=============================================================================
