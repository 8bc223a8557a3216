------------------------ MODULE DaemonMountingProofs ------------------------
(***************************************************************************)
(* Proofs about mount, unmount and poweroff, for any devices, directories, *)
(* filesystems and number of commands, and whatever other processes do.    *)
(***************************************************************************)
EXTENDS DaemonMounting, MediaListProofs

\* The mounts and the events, of which TypeOK leaves open that they are sequences.
ShapeInv ==
    /\ Sequence(mounts) /\ Sequence(queue)
    /\ \A k \in DOMAIN queue :
          /\ queue[k].path \in DOMAIN Attached /\ queue[k].action \in {"add", "remove", "change"}
          /\ queue[k].action # "remove" => queue[k].content \in Contents

\* Where the daemon is says what it has at hand.
PhaseInv ==
    /\ pc \in {"poll", "clients", "mkdir", "mount", "rmdir", "remove"} => continue_working
    /\ pc \in {"unmount_all", "exit"} => ~continue_working
    /\ continue_working => rest = <<>>
    /\ \A j \in ToSet(rest) : media[j].mnt_point # NULL
    /\ pc \in {"mkdir", "mount", "rmdir", "umount", "tidy"} => job.dir \in Dirs
    /\ pc \in {"mkdir", "mount", "rmdir"} => job.dir \in MountDir
    /\ pc \in {"mkdir", "mount", "rmdir", "umount", "tidy", "remove"} => job.path \in Paths

\* A directory is the daemon's own or was touched by others, and what the daemon
\* made is in use, or about to be used or removed.
PlaceInv ==
    /\ MountsApart
    /\ \A k \in DOMAIN mounts : mounts[k].by = "other" => mounts[k].dir \in touched
    /\ pc \in {"mkdir", "mount"} =>
          \A k \in DOMAIN mounts : mounts[k].dir = job.dir => mounts[k].by = "other"
    /\ \A d \in made : Busy(d) \/ d \in touched \/ (pc \in {"mount", "rmdir", "tidy"} /\ d = job.dir)

\* A list is a sorted tree without duplicates, of nodes that know whether they are
\* mounted.
ListOK(m) ==
    /\ Sequence(m) /\ Distinct(m) /\ Tree(m) /\ Ordered(m)
    /\ \A i \in DOMAIN m :
          /\ IsNode(m[i]) /\ Counted(m[i])
          /\ m[i].path \in Paths /\ m[i].content \in Contents /\ m[i].mnt_point \in Dirs \cup {NULL}

\* A list shows what is mounted, but for devices that were added too late.
Shows(m, file, missed) ==
    \A i \in DOMAIN m :
        LET e == FirstEntry(file, m[i].path)
        IN  m[i].mnt_point = IF e = 0 \/ m[i].path \in missed THEN NULL ELSE file[e].dir

Listed(m, p) == \E i \in DOMAIN m : m[i].path = p

\* The list is right unless the mounts changed since they were checked.
ListInv == ListOK(media) /\ (mount_event \/ Shows(media, mounts, late))

\* Disks come and go with all their partitions.
Whole(S) ==
    /\ S \subseteq DOMAIN Attached
    /\ \A p \in DOMAIN Attached : p \in S <=> DiskOf(p) \in S

WholeInv == Whole(attached)

(***************************************************************************)
(* What the events that wait in w say of a device.                         *)
(***************************************************************************)
Is(w, k, action, p)  == w[k].action = action /\ w[k].path = p
Queued(w, action, p) == \E k \in DOMAIN w : Is(w, k, action, p)

\* It is added, and not removed after that.
Final(w, i, p) ==
    /\ Is(w, i, "add", p)
    /\ \A j \in DOMAIN w : j > i => ~Is(w, j, "remove", p)

Back(w, p) == \E i \in DOMAIN w : Final(w, i, p)

\* Between two additions it is removed.
Parted(w, p) ==
    \A i, j \in DOMAIN w :
        i < j /\ Is(w, i, "add", p) /\ Is(w, j, "add", p) =>
            \E k \in DOMAIN w : i < k /\ k < j /\ Is(w, k, "remove", p)

\* It is removed before it is added.
Preceded(w, p) ==
    \A i \in DOMAIN w : Is(w, i, "add", p) => \E k \in DOMAIN w : k < i /\ Is(w, k, "remove", p)

\* It is removed after it is added.
Undone(w, p) ==
    \A i \in DOMAIN w : Is(w, i, "add", p) => \E k \in DOMAIN w : i < k /\ Is(w, k, "remove", p)

\* A partition is not added before its disk.
Follows(w, p) ==
    \A i, j \in DOMAIN w :
        i < j /\ Is(w, i, "add", p) /\ Is(w, j, "add", ParentOf[p]) =>
            \E k \in DOMAIN w : i < k /\ Is(w, k, "remove", p)

\* A partition comes back when its disk has gone.
Returns(w, p) ==
    \A i \in DOMAIN w : Is(w, i, "remove", ParentOf[p]) => \E k \in DOMAIN w : i < k /\ Final(w, k, p)

\* The events bring the list m to what is plugged in.
Queues(w, m, plugged, p) ==
    /\ Parted(w, p)
    /\ Listed(m, p) => Preceded(w, p)
    /\ p \in plugged => Back(w, p) \/ (Listed(m, p) /\ ~Queued(w, "remove", p))
    /\ p \notin plugged => Undone(w, p) /\ (Listed(m, p) => Queued(w, "remove", p))
    /\ IsPartition(p) => Follows(w, p) /\ (p \in plugged => Returns(w, p))

\* What is plugged in is in the list or still to be added, until the daemon exits.
PluggedInv == pc # "exit" => \A p \in DOMAIN Attached : Queues(queue, media, attached, p)

\* What a command found out holds until it acts, or the mounts have changed.
JobInv ==
    /\ pc \in {"mkdir", "mount"} => mount_event \/ ~InUse(job.path) \/ job.path \in late
    /\ pc = "umount" =>
          /\ \E i \in DOMAIN media : media[i].path = job.path /\ media[i].mnt_point = job.dir
          /\ mount_event \/ External(job.path) \/ Count(job.dir) = 1
    /\ pc = "remove" =>
          \A k \in DOMAIN mounts : mounts[k].dev \in Subtree(job.path) => mounts[k].dev \in meanwhile

\* On exit, what the list shows mounted is gone, is still to come or had its turn.
ExitInv ==
    ~continue_working /\ pc # "exit" /\ config.unmount_on_exit =>
        \A i \in DOMAIN media, k \in DOMAIN mounts :
            /\ mounts[k].dev = media[i].path /\ mounts[k].dir = media[i].mnt_point
            /\ mounts[k].by = "daemon"
            => \/ media[i].path \in refused \/ mounts[k].dir \in touched
               \/ get_fsopts_for_fs(media[i].content.fstype) = NULL
               \/ i \in ToSet(rest)
               \/ pc = "umount" /\ job.path = media[i].path

Inv ==
    /\ TypeOK /\ ShapeInv /\ PhaseInv /\ PlaceInv /\ ListInv /\ WholeInv /\ PluggedInv
    /\ JobInv /\ ExitInv

\* umount(2) takes away a mount at the directory.
LEMMA TopmostFacts ==
    ASSUME Sequence(mounts), NEW d, Busy(d)
    PROVE  Topmost(d) \in DOMAIN mounts /\ mounts[Topmost(d)].dir = d
<1> DEFINE T == {k \in DOMAIN mounts : mounts[k].dir = d}
<1>1. Len(mounts) \in Nat /\ DOMAIN mounts = 1..Len(mounts)
  BY SequenceFacts
<1>2. T \in SUBSET (1..Len(mounts)) /\ T # {}
  BY <1>1 DEF Busy
<1>3. Max(T) \in T
  <2> HIDE DEF T
  <2> QED
    BY <1>1, <1>2, MaxFacts
<1> QED
  BY <1>3 DEF Topmost

\* The mounts after umount(2).
LEMMA UmountFacts ==
    ASSUME Sequence(mounts), NEW d, Busy(d)
    PROVE  LET t == RemoveAt(mounts, Topmost(d))
               gone == Topmost(d)
           IN  /\ Sequence(t) /\ gone \in DOMAIN mounts /\ mounts[gone].dir = d
               /\ \A k \in DOMAIN t : \E j \in DOMAIN mounts \ {gone} : t[k] = mounts[j]
               /\ \A j \in DOMAIN mounts \ {gone} : \E k \in DOMAIN t : t[k] = mounts[j]
               /\ \A k, l \in DOMAIN t : k # l =>
                     \E j, h \in DOMAIN mounts \ {gone} : j # h /\ t[k] = mounts[j] /\ t[l] = mounts[h]
  BY TopmostFacts, RemoveAtFacts

\* The events without the first of them.
LEMMA PopFacts ==
    ASSUME NEW w, Sequence(w), w # <<>>
    PROVE  /\ 1 \in DOMAIN w /\ Head(w) = w[1]
           /\ \A i \in DOMAIN w : i \in Nat /\ (i = 1 \/ 1 < i)
           /\ \A i \in DOMAIN Tail(w) : i \in Nat /\ i + 1 \in DOMAIN w /\ 1 < i + 1 /\ Tail(w)[i] = w[i + 1]
           /\ \A i \in DOMAIN w : 1 < i =>
                 \E k \in DOMAIN Tail(w) : i = k + 1
<1> DEFINE n == Len(w)
<1>1. /\ Sequence(Tail(w)) /\ 1 \in DOMAIN w /\ Head(w) = w[1]
      /\ \A i \in DOMAIN Tail(w) : i + 1 \in DOMAIN w /\ Tail(w)[i] = w[i + 1]
  BY TailFacts
<1>2. n \in Nat /\ DOMAIN w = 1..n
  BY SequenceFacts
<1>3. DOMAIN Tail(w) = 1..(n - 1)
  BY DEF Sequence
<1> HIDE DEF n
<1>4. \A i \in DOMAIN w : 1 < i => i - 1 \in DOMAIN Tail(w) /\ i = (i - 1) + 1
  BY <1>2, <1>3
<1>5. \A i \in DOMAIN Tail(w) : i \in Nat /\ 1 < i + 1
  BY <1>2, <1>3
<1>6. \A i \in DOMAIN w : i \in Nat /\ (i = 1 \/ 1 < i)
  BY <1>2
<1> QED
  BY <1>1, <1>4, <1>5, <1>6

\* What the events say of a device when the first has been received.
LEMMA PopOrder ==
    ASSUME NEW w, Sequence(w), w # <<>>, NEW p
    PROVE  LET t == Tail(w)
           IN  /\ Parted(w, p) => Parted(t, p)
               /\ Undone(w, p) => Undone(t, p)
               /\ Follows(w, p) => Follows(t, p)
               /\ Returns(w, p) => Returns(t, p)
               /\ Returns(w, p) /\ Is(w, 1, "remove", ParentOf[p]) => Back(t, p)
               /\ Back(w, p) => Back(t, p) \/ (Final(w, 1, p) /\ ~Queued(t, "remove", p))
               /\ Queued(t, "remove", p) => Queued(w, "remove", p)
               /\ Queued(w, "remove", p) => Queued(t, "remove", p) \/ Is(w, 1, "remove", p)
               /\ Preceded(w, p) => ~Is(w, 1, "add", p)
               /\ Preceded(w, p) /\ ~Is(w, 1, "remove", p) => Preceded(t, p)
               /\ Parted(w, p) /\ Is(w, 1, "add", p) => Preceded(t, p)
<1> DEFINE t == Tail(w)
<1>1. /\ 1 \in DOMAIN w
      /\ \A i \in DOMAIN w : i \in Nat /\ (i = 1 \/ 1 < i)
      /\ \A i \in DOMAIN t : i \in Nat /\ i + 1 \in DOMAIN w /\ 1 < i + 1 /\ t[i] = w[i + 1]
      /\ \A i \in DOMAIN w : 1 < i => \E k \in DOMAIN t : i = k + 1
  BY PopFacts
<1> HIDE DEF t
<1>2. \A i \in DOMAIN t : \A a, q : Is(t, i, a, q) <=> Is(w, i + 1, a, q)
  BY <1>1 DEF Is
<1>3. \A i, j \in Nat : (i < j <=> i + 1 < j + 1) /\ (j > i <=> i < j)
  OBVIOUS
<1>4. \A i \in DOMAIN t : Final(t, i, p) <=> Final(w, i + 1, p)
  <2> TAKE i \in DOMAIN t
  <2>1. ASSUME Final(w, i + 1, p) PROVE Final(t, i, p)
    BY <1>1, <1>2, <1>3, <2>1 DEF Final
  <2>2. ASSUME Final(t, i, p) PROVE Final(w, i + 1, p)
    <3>1. ASSUME NEW j \in DOMAIN w, j > i + 1 PROVE ~Is(w, j, "remove", p)
      <4>1. 1 < j
        BY <1>1, <3>1
      <4>2. PICK k \in DOMAIN t : j = k + 1
        BY <1>1, <4>1
      <4>3. k > i
        BY <1>1, <3>1, <4>2
      <4> QED
        BY <1>2, <2>2, <4>2, <4>3 DEF Final
    <3> QED
      BY <1>2, <2>2, <3>1 DEF Final
  <2> QED
    BY <2>1, <2>2
<1>5. ASSUME Parted(w, p) PROVE Parted(t, p)
  <2> SUFFICES ASSUME NEW i \in DOMAIN t, NEW j \in DOMAIN t, i < j, Is(t, i, "add", p), Is(t, j, "add", p)
               PROVE  \E k \in DOMAIN t : i < k /\ k < j /\ Is(t, k, "remove", p)
    BY DEF Parted
  <2>1. PICK k \in DOMAIN w : i + 1 < k /\ k < j + 1 /\ Is(w, k, "remove", p)
    BY <1>1, <1>2, <1>3, <1>5 DEF Parted
  <2>2. PICK l \in DOMAIN t : k = l + 1
    BY <1>1, <2>1
  <2> QED
    BY <1>1, <1>2, <1>3, <2>1, <2>2
<1>6. ASSUME Undone(w, p) PROVE Undone(t, p)
  <2> SUFFICES ASSUME NEW i \in DOMAIN t, Is(t, i, "add", p)
               PROVE  \E k \in DOMAIN t : i < k /\ Is(t, k, "remove", p)
    BY DEF Undone
  <2>1. PICK k \in DOMAIN w : i + 1 < k /\ Is(w, k, "remove", p)
    BY <1>1, <1>2, <1>6 DEF Undone
  <2>2. PICK l \in DOMAIN t : k = l + 1
    BY <1>1, <2>1
  <2> QED
    BY <1>1, <1>2, <1>3, <2>1, <2>2
<1>7. ASSUME Follows(w, p) PROVE Follows(t, p)
  <2> SUFFICES ASSUME NEW i \in DOMAIN t, NEW j \in DOMAIN t, i < j,
                      Is(t, i, "add", p), Is(t, j, "add", ParentOf[p])
               PROVE  \E k \in DOMAIN t : i < k /\ Is(t, k, "remove", p)
    BY DEF Follows
  <2>1. PICK k \in DOMAIN w : i + 1 < k /\ Is(w, k, "remove", p)
    BY <1>1, <1>2, <1>3, <1>7 DEF Follows
  <2>2. PICK l \in DOMAIN t : k = l + 1
    BY <1>1, <2>1
  <2> QED
    BY <1>1, <1>2, <1>3, <2>1, <2>2
<1>8. ASSUME Returns(w, p) PROVE Returns(t, p)
  <2> SUFFICES ASSUME NEW i \in DOMAIN t, Is(t, i, "remove", ParentOf[p])
               PROVE  \E k \in DOMAIN t : i < k /\ Final(t, k, p)
    BY DEF Returns
  <2>1. PICK k \in DOMAIN w : i + 1 < k /\ Final(w, k, p)
    BY <1>1, <1>2, <1>8 DEF Returns
  <2>2. PICK l \in DOMAIN t : k = l + 1
    BY <1>1, <2>1
  <2> QED
    BY <1>1, <1>3, <1>4, <2>1, <2>2
<1>9. ASSUME Returns(w, p), Is(w, 1, "remove", ParentOf[p]) PROVE Back(t, p)
  <2>1. PICK k \in DOMAIN w : 1 < k /\ Final(w, k, p)
    BY <1>1, <1>9 DEF Returns
  <2>2. PICK l \in DOMAIN t : k = l + 1
    BY <1>1, <2>1
  <2> QED
    BY <1>4, <2>1, <2>2 DEF Back
<1>10. ASSUME Back(w, p) PROVE Back(t, p) \/ (Final(w, 1, p) /\ ~Queued(t, "remove", p))
  <2>1. PICK k \in DOMAIN w : Final(w, k, p)
    BY <1>10 DEF Back
  <2>2. CASE k = 1
    <3>1. \A j \in DOMAIN t : j + 1 \in DOMAIN w /\ j + 1 > 1
      BY <1>1
    <3> QED
      BY <1>2, <2>1, <2>2, <3>1 DEF Final, Queued
  <2>3. CASE 1 < k
    <3>1. PICK l \in DOMAIN t : k = l + 1
      BY <1>1, <2>3
    <3> QED
      BY <1>4, <2>1, <3>1 DEF Back
  <2> QED
    BY <1>1, <2>2, <2>3
<1>11. Queued(t, "remove", p) => Queued(w, "remove", p)
  BY <1>1, <1>2 DEF Queued
<1>12. Queued(w, "remove", p) => Queued(t, "remove", p) \/ Is(w, 1, "remove", p)
  BY <1>1, <1>2 DEF Queued
<1>13. ASSUME Preceded(w, p) PROVE ~Is(w, 1, "add", p)
  <2>1. \A k \in DOMAIN w : ~(k < 1)
    BY <1>1
  <2> QED
    BY <1>1, <1>13, <2>1 DEF Preceded
<1>14. ASSUME Preceded(w, p), ~Is(w, 1, "remove", p) PROVE Preceded(t, p)
  <2> SUFFICES ASSUME NEW i \in DOMAIN t, Is(t, i, "add", p)
               PROVE  \E k \in DOMAIN t : k < i /\ Is(t, k, "remove", p)
    BY DEF Preceded
  <2>1. PICK k \in DOMAIN w : k < i + 1 /\ Is(w, k, "remove", p)
    BY <1>1, <1>2, <1>14 DEF Preceded
  <2>2. k # 1
    BY <1>14, <2>1
  <2>3. PICK l \in DOMAIN t : k = l + 1
    BY <1>1, <2>2
  <2> QED
    BY <1>1, <1>2, <1>3, <2>1, <2>3
<1>15. ASSUME Parted(w, p), Is(w, 1, "add", p) PROVE Preceded(t, p)
  <2> SUFFICES ASSUME NEW i \in DOMAIN t, Is(t, i, "add", p)
               PROVE  \E k \in DOMAIN t : k < i /\ Is(t, k, "remove", p)
    BY DEF Preceded
  <2>1. PICK k \in DOMAIN w : 1 < k /\ k < i + 1 /\ Is(w, k, "remove", p)
    BY <1>1, <1>2, <1>15 DEF Parted
  <2>2. PICK l \in DOMAIN t : k = l + 1
    BY <1>1, <2>1
  <2> QED
    BY <1>1, <1>2, <1>3, <2>1, <2>2
<1> QED
  BY <1>5, <1>6, <1>7, <1>8, <1>9, <1>10, <1>11, <1>12, <1>13, <1>14, <1>15 DEF t

\* What an event does to the list, but for what is mounted.  One that counts adds
\* a device that is not listed, by what the events before it said.
LEMMA EventFacts ==
    ASSUME Inv, queue # <<>>, pc # "exit"
    PROVE  LET e == Head(queue)
               m == AfterEvent(e)
           IN  /\ e = queue[1] /\ 1 \in DOMAIN queue
               /\ e.path \in DOMAIN Attached /\ e.path \in Paths
               /\ e.action \in {"add", "remove", "change"}
               /\ ListOK(m)
               /\ \A q : Listed(m, q) <=>
                     \/ Listed(media, q) /\ ~(e.action = "remove" /\ (q = e.path \/ q \in Subtree(e.path)))
                     \/ q = e.path /\ e.action = "add" /\ Counts(e)
               /\ \A i \in DOMAIN m :
                     \/ \E j \in DOMAIN media : m[i] = media[j]
                     \/ e.action = "change" /\ Counts(e)
                     \/ /\ e.action = "add" /\ ~Listed(media, m[i].path)
                        /\ m[i].path = e.path /\ m[i].mnt_point = NULL
<1> DEFINE e == Head(queue)
           m == AfterEvent(e)
           f == find_media(media, e.path)
<1>1. /\ ListOK(media) /\ Sequence(media) /\ Sequence(queue)
      /\ \A p \in DOMAIN Attached : Queues(queue, media, attached, p)
  BY DEF Inv, ListInv, ListOK, ShapeInv, PluggedInv
<1>2. /\ e = queue[1] /\ 1 \in DOMAIN queue
      /\ e.path \in DOMAIN Attached /\ e.path \in Paths
      /\ e.action \in {"add", "remove", "change"}
      /\ e.action # "remove" => e.content \in Contents
  <2>1. 1 \in DOMAIN queue /\ e = queue[1]
    BY <1>1, TailFacts
  <2> QED
    BY <2>1, MountingAssumption DEF Inv, ShapeInv
<1>3. \A q : Listed(media, q) <=> find_media(media, q) # 0
  BY <1>1, FindFacts DEF Listed
<1>4. f = 0 \/ f \in DOMAIN media
  BY <1>1, FindFacts
<1> HIDE DEF e, f
<1>5. CASE ~Counts(e)
  <2>1. m = media
    BY <1>5 DEF AfterEvent
  <2>2. e.action = "remove" => ~Listed(media, e.path)
    BY <1>3, <1>5 DEF Counts
  <2>3. ASSUME e.action = "remove", NEW q \in Subtree(e.path)
        PROVE  ~Listed(media, q)
    <3>1. SUFFICES ASSUME NEW i \in DOMAIN media, media[i].path = q, ParentOf[q] = e.path
                   PROVE  Listed(media, e.path)
      BY <2>2, <2>3 DEF Subtree, Listed
    <3>2. IsPartition(media[i].path)
      BY <1>2, <3>1, PathAssumption DEF IsPartition
    <3>3. PICK j \in 1..(i - 1) : media[j].path = ParentOf[media[i].path]
      BY <1>1, <3>1, <3>2 DEF ListOK, Tree
    <3>4. j \in DOMAIN media
      BY <1>1, <3>1, <3>3, SequenceFacts
    <3> QED
      BY <3>1, <3>3, <3>4 DEF Listed
  <2>4. \A q : Listed(m, q) <=>
            \/ Listed(media, q) /\ ~(e.action = "remove" /\ (q = e.path \/ q \in Subtree(e.path)))
            \/ q = e.path /\ e.action = "add" /\ Counts(e)
    BY <1>5, <2>1, <2>2, <2>3
  <2> QED
    BY <1>1, <1>2, <2>1, <2>4 DEF e
<1>6. CASE Counts(e) /\ e.action = "remove"
  <2>1. m = remove_media(media, e.path) /\ find_media(media, e.path) # 0
    BY <1>6 DEF AfterEvent, Counts
  <2>2. /\ Sequence(m) /\ Distinct(m) /\ Tree(m) /\ Ordered(m)
        /\ \A k \in DOMAIN m : \E j \in DOMAIN media : m[k] = media[j]
        /\ \A j \in DOMAIN media : media[j].path # e.path /\ ParentOf[media[j].path] # e.path =>
              \E k \in DOMAIN m : m[k] = media[j]
        /\ \A k \in DOMAIN m : m[k].path # e.path /\ ParentOf[m[k].path] # e.path
    BY <1>1, <2>1, RemoveFacts DEF ListOK
  <2> HIDE DEF m
  <2>3. ListOK(m)
    BY <1>1, <2>2 DEF ListOK
  <2>4. \A j \in DOMAIN media : media[j].path \in Paths
    BY <1>1 DEF ListOK
  <2>5. \A q : Listed(m, q) <=> Listed(media, q) /\ ~(q = e.path \/ q \in Subtree(e.path))
    BY <2>2, <2>4 DEF Listed, Subtree
  <2> QED
    BY <1>2, <1>6, <2>2, <2>3, <2>5 DEF e, m
<1>7. CASE Counts(e) /\ e.action = "change"
  <2> DEFINE kind == Attached[e.path].kind
  <2>1. m = change_media(media, e.path, kind, e.content)
    BY <1>7 DEF AfterEvent
  <2> HIDE DEF kind
  <2>2. /\ Sequence(m) /\ DOMAIN m = DOMAIN media
        /\ \A i \in DOMAIN media :
              /\ IsNode(m[i]) /\ Counted(m[i]) /\ m[i].path = media[i].path
              /\ m[i].content = IF i = f THEN e.content ELSE media[i].content
              /\ m[i].mnt_point = IF i = f THEN NULL ELSE media[i].mnt_point
    BY <1>1, <2>1, ChangeFacts DEF ListOK, f
  <2> HIDE DEF m
  <2>3. Distinct(m) /\ Tree(m) /\ Ordered(m)
    BY <1>1, <2>2, SamePaths DEF ListOK
  <2>4. ListOK(m)
    BY <1>1, <1>2, <1>7, <2>2, <2>3 DEF ListOK
  <2>5. \A q : Listed(m, q) <=> Listed(media, q)
    BY <2>2 DEF Listed
  <2> QED
    BY <1>2, <1>7, <2>4, <2>5 DEF e, m
<1>8. CASE Counts(e) /\ e.action = "add"
  <2> DEFINE kind == Attached[e.path].kind
             new == Node(e.path, kind, e.content)
  <2>1. m = add_media(media, e.path, kind, e.content) /\ HasParent(media, e.path)
    BY <1>8 DEF AfterEvent, Counts
  <2> HIDE DEF kind
  <2>2. ~Listed(media, e.path)
    <3>1. Is(queue, 1, "add", e.path)
      BY <1>2, <1>8 DEF Is
    <3> QED
      BY <1>1, <1>2, <3>1, PopOrder DEF Queues
  <2>3. /\ Sequence(m) /\ Distinct(m) /\ Tree(m) /\ Ordered(m)
        /\ \A k \in DOMAIN m : m[k] = new \/ \E j \in DOMAIN media : m[k] = media[j]
        /\ \A j \in DOMAIN media : \E k \in DOMAIN m : m[k] = media[j]
        /\ \E k \in DOMAIN m : m[k] = new
    BY <1>1, <1>2, <1>3, <2>1, <2>2, AddFacts DEF ListOK
  <2>4. /\ new.path = e.path /\ new.mnt_point = NULL /\ new.content = e.content
        /\ IsNode(new) /\ Counted(new)
    BY DEF Node, IsNode, Counted
  <2> HIDE DEF m, new
  <2>5. ListOK(m)
    BY <1>1, <1>2, <1>8, <2>3, <2>4 DEF ListOK
  <2>6. \A q : Listed(m, q) <=> Listed(media, q) \/ q = e.path
    BY <2>3, <2>4 DEF Listed
  <2> QED
    BY <1>2, <1>8, <2>2, <2>3, <2>4, <2>5, <2>6 DEF e, m
<1> QED
  BY <1>2, <1>5, <1>6, <1>7, <1>8

\* The list after the event of a round, if there is one.
LEMMA UpdatedFacts ==
    ASSUME Inv, pc # "exit"
    PROVE  /\ ListOK(Updated)
           /\ Forced \/ \A i \in DOMAIN Updated :
                           \/ \E j \in DOMAIN media : Updated[i] = media[j]
                           \/ ~Listed(media, Updated[i].path) /\ Updated[i].mnt_point = NULL
<1>1. CASE queue = <<>>
  BY <1>1 DEF Updated, Inv, ListInv
<1>2. CASE queue # <<>>
  <2> DEFINE e == Head(queue)
  <2>1. Updated = AfterEvent(e)
    BY <1>2 DEF Updated
  <2>2. /\ ListOK(Updated)
        /\ \A i \in DOMAIN Updated :
              \/ \E j \in DOMAIN media : Updated[i] = media[j]
              \/ e.action = "change" /\ Counts(e)
              \/ ~Listed(media, Updated[i].path) /\ Updated[i].mnt_point = NULL
    BY <1>2, <2>1, EventFacts
  <2>3. e.action = "change" /\ Counts(e) => Forced
    BY <1>2 DEF Counts, Forced
  <2> HIDE DEF e
  <2> QED
    BY <2>2, <2>3
<1> QED
  BY <1>1, <1>2

\* A round leaves a list that shows what is mounted, but for devices that it has
\* added without checking the mounts.
LEMMA RoundFacts ==
    ASSUME Inv, Round
    PROVE  /\ ListOK(media') /\ Shows(media', mounts, late')
           /\ \A q : Listed(media', q) <=> Listed(Updated, q)
<1>0. ListInv /\ pc # "exit" /\ Sequence(mounts)
  BY DEF Inv, Round, ShapeInv
<1> DEFINE m == Updated
           r == check_mount_changes(m, mounts)
<1>1. /\ ListOK(m) /\ Sequence(m)
      /\ Forced \/ \A i \in DOMAIN m :
                      \/ \E j \in DOMAIN media : m[i] = media[j]
                      \/ ~Listed(media, m[i].path) /\ m[i].mnt_point = NULL
  BY <1>0, UpdatedFacts DEF ListOK
<1>2. /\ media' = IF Checked THEN r ELSE m
      /\ late' = IF Checked THEN {}
                 ELSE {p \in Paths : /\ find_media(m, p) # 0
                                     /\ p \in late \/ (find_media(media, p) = 0 /\ InUse(p))}
  BY DEF Round
<1> HIDE DEF m
<1>3. CASE Checked
  <2>1. \A k \in DOMAIN mounts : mounts[k].dir \in Dirs /\ mounts[k].dir # NULL
    BY MountingAssumption DEF Inv, TypeOK
  <2>2. /\ Sequence(r) /\ DOMAIN r = DOMAIN m
        /\ \A i \in DOMAIN m :
              LET e == EntryOf(m, mounts, i)
              IN  /\ IsNode(r[i]) /\ Counted(r[i]) /\ (e = 0 \/ e \in DOMAIN mounts)
                  /\ r[i].path = m[i].path /\ r[i].content = m[i].content
                  /\ r[i].mnt_point = IF e = 0 THEN NULL ELSE mounts[e].dir
    BY <1>0, <1>1, <2>1, CheckFacts DEF ListOK
  <2> HIDE DEF r
  <2>3. Distinct(r) /\ Tree(r) /\ Ordered(r)
    BY <1>1, <2>2, SamePaths DEF ListOK
  <2>4. \A i \in DOMAIN m : EntryOf(m, mounts, i) = FirstEntry(mounts, m[i].path)
    BY <1>1, FindsIt DEF ListOK, EntryOf
  <2>5. ListOK(r)
    BY <1>1, <2>1, <2>2, <2>3 DEF ListOK
  <2>6. Shows(r, mounts, {})
    BY <2>2, <2>4 DEF Shows
  <2>7. \A q : Listed(r, q) <=> Listed(m, q)
    BY <2>2 DEF Listed
  <2> QED
    BY <1>2, <1>3, <2>5, <2>6, <2>7 DEF m
<1>4. CASE ~Checked
  <2>1. ~mount_event /\ ~Forced
    BY <1>4 DEF Checked
  <2>2. Shows(media, mounts, late)
    BY <1>0, <2>1 DEF ListInv
  <2>3. ASSUME NEW i \in DOMAIN m
        PROVE  LET e == FirstEntry(mounts, m[i].path)
               IN  m[i].mnt_point = IF e = 0 \/ m[i].path \in late' THEN NULL ELSE mounts[e].dir
    <3> DEFINE p == m[i].path
               e == FirstEntry(mounts, p)
    <3>1. p \in Paths /\ find_media(m, p) # 0
      BY <1>1, FindFacts DEF ListOK
    <3>2. p \in late' <=> p \in late \/ (find_media(media, p) = 0 /\ InUse(p))
      BY <1>2, <1>4, <3>1
    <3>3. find_media(media, p) = 0 <=> ~Listed(media, p)
      BY <1>0, FindFacts DEF Listed, ListInv, ListOK
    <3>4. InUse(p) <=> e # 0
      BY <1>0, EntryFacts DEF InUse
    <3> HIDE DEF e
    <3>5. CASE \E j \in DOMAIN media : m[i] = media[j]
      <4>1. PICK j \in DOMAIN media : m[i] = media[j]
        BY <3>5
      <4>2. Listed(media, p)
        BY <4>1 DEF Listed
      <4>3. m[i].mnt_point = IF e = 0 \/ p \in late THEN NULL ELSE mounts[e].dir
        BY <2>2, <4>1 DEF Shows, e
      <4>4. p \in late' <=> p \in late
        BY <3>2, <3>3, <4>2
      <4> QED
        BY <4>3, <4>4 DEF e
    <3>6. CASE ~Listed(media, p) /\ m[i].mnt_point = NULL
      BY <3>2, <3>3, <3>4, <3>6 DEF e
    <3> QED
      BY <1>1, <2>1, <3>5, <3>6
  <2>4. Shows(m, mounts, late')
    BY <2>3 DEF Shows
  <2> QED
    BY <1>1, <1>2, <1>4, <2>4 DEF m
<1> QED
  BY <1>3, <1>4

\* What is in a tree order follows its disk.
LEMMA ListedInOrder ==
    ASSUME NEW S \in SUBSET Paths, \A p \in S : IsPartition(p) => ParentOf[p] \in S,
           NEW order \in Sortings(S, ListedBefore)
    PROVE  /\ order \in Seq(S) /\ DOMAIN order = 1..Cardinality(S) /\ Cardinality(S) \in Nat
           /\ \A p \in S : \E i \in DOMAIN order : order[i] = p
           /\ \A i, j \in DOMAIN order : order[i] = order[j] => i = j
           /\ \A i \in DOMAIN order : IsPartition(order[i]) =>
                 \E j \in 1..(i - 1) :
                     /\ order[j] = ParentOf[order[i]]
                     /\ \A k \in (j + 1)..i : IsPartition(order[k])
           /\ \A i, j \in DOMAIN order :
                 j < i /\ ParentOf[order[j]] = ParentOf[order[i]] => Rank[order[j]] <= Rank[order[i]]
<1> DEFINE n == Cardinality(S)
<1>1. IsFiniteSet(S)
  BY FS_Subset, PathAssumption
<1>2. order \in [1..n -> S] /\ \A i, j \in 1..n : i < j => ListedBefore(order[i], order[j])
  BY DEF Sortings
<1>3. \A p \in S : p \in Paths /\ DiskOf(p) \in Paths /\ Rank[p] \in Nat /\ Rank[DiskOf(p)] \in Nat
  BY DiskFacts, PathAssumption
<1>4. \A p, q \in S : ListedBefore(p, q) =>
         /\ p # q /\ ~ListedBefore(q, p) /\ Rank[DiskOf(p)] <= Rank[DiskOf(q)]
         /\ ParentOf[p] = ParentOf[q] => Rank[p] <= Rank[q]
  <2> TAKE p, q \in S
  <2> DEFINE a == Rank[DiskOf(p)]
             b == Rank[DiskOf(q)]
             x == Rank[p]
             y == Rank[q]
  <2>1. a \in Nat /\ b \in Nat /\ x \in Nat /\ y \in Nat /\ (p = q => a = b /\ x = y)
    BY <1>3
  <2>2. ListedBefore(p, q) <=> a < b \/ (DiskOf(p) = DiskOf(q) /\ IsPartition(q) /\ (IsPartition(p) => x < y))
    BY DEF ListedBefore
  <2>3. ListedBefore(q, p) <=> b < a \/ (DiskOf(q) = DiskOf(p) /\ IsPartition(p) /\ (IsPartition(q) => y < x))
    BY DEF ListedBefore
  <2>4. DiskOf(p) = DiskOf(q) => a = b
    OBVIOUS
  <2>5. ParentOf[p] = ParentOf[q] =>
            /\ IsPartition(p) <=> IsPartition(q)
            /\ IsPartition(p) => DiskOf(p) = DiskOf(q)
            /\ ~IsPartition(p) => a = x /\ b = y
    BY DEF IsPartition, DiskOf
  <2> HIDE DEF a, b, x, y
  <2>6. ListedBefore(p, q) => p # q /\ ~ListedBefore(q, p) /\ a <= b
    BY <2>1, <2>2, <2>3, <2>4 DEF IsPartition
  <2>7. ListedBefore(p, q) /\ ParentOf[p] = ParentOf[q] => x <= y
    BY <2>1, <2>2, <2>4, <2>5
  <2> QED
    BY <2>6, <2>7 DEF a, b, x, y
<1>5. \A i, j \in 1..n : i < j => order[i] # order[j]
  BY <1>2, <1>4
<1>6. /\ n \in Nat /\ order \in Seq(S) /\ DOMAIN order = 1..n
      /\ \A p \in S : \E i \in DOMAIN order : order[i] = p
  BY <1>1, <1>2, <1>5, OntoFacts
<1>7. \A i, j \in DOMAIN order : order[i] = order[j] => i = j
  BY <1>5, <1>6
<1> HIDE DEF n
<1>8. ASSUME NEW i \in DOMAIN order, IsPartition(order[i])
      PROVE  \E j \in 1..(i - 1) :
                /\ order[j] = ParentOf[order[i]]
                /\ \A k \in (j + 1)..i : IsPartition(order[k])
  <2> DEFINE d == ParentOf[order[i]]
  <2>1. order[i] \in S /\ d \in S /\ d = DiskOf(order[i]) /\ ~IsPartition(d) /\ d = DiskOf(d)
    BY <1>2, <1>6, <1>8, DiskFacts DEF DiskOf
  <2>2. PICK j \in DOMAIN order : order[j] = d
    BY <1>6, <2>1
  <2>3. ~ListedBefore(order[i], order[j]) /\ i # j
    <3>1. DiskOf(order[i]) = DiskOf(order[j]) /\ Rank[DiskOf(order[i])] \in Nat
      BY <1>3, <2>1, <2>2
    <3>2. ~IsPartition(order[j])
      BY <2>1, <2>2
    <3>3. ~(Rank[DiskOf(order[i])] < Rank[DiskOf(order[j])])
      BY <3>1
    <3>4. ~ListedBefore(order[i], order[j])
      BY <3>2, <3>3, Zenon DEF ListedBefore
    <3> QED
      BY <1>8, <3>2, <3>4
  <2>4. i \in 1..n /\ j \in 1..n /\ j < i
    BY <1>2, <1>6, <2>3
  <2>5. ASSUME NEW k \in (j + 1)..i
        PROVE  IsPartition(order[k])
    <3>1. k \in 1..n /\ j < k /\ order[k] \in S
      BY <1>2, <1>6, <2>4
    <3>2. Rank[d] <= Rank[DiskOf(order[k])]
      BY <1>2, <1>4, <2>1, <2>2, <2>4, <3>1
    <3>3. Rank[DiskOf(order[k])] <= Rank[d]
      <4>1. CASE k = i
        BY <1>3, <2>1, <4>1
      <4>2. CASE k < i
        BY <1>2, <1>4, <2>1, <2>4, <3>1, <4>2
      <4> QED
        BY <2>4, <4>1, <4>2
    <3>4. DiskOf(order[k]) = d
      <4>1. Rank[DiskOf(order[k])] = Rank[d]
        BY <1>3, <2>1, <3>1, <3>2, <3>3
      <4> QED
        BY <1>3, <2>1, <3>1, <4>1, PathAssumption
    <3>5. order[k] # d
      BY <1>5, <2>2, <2>4, <3>1
    <3> QED
      BY <3>4, <3>5 DEF DiskOf
  <2> QED
    BY <2>2, <2>4, <2>5
<1>9. \A i, j \in DOMAIN order :
          j < i /\ ParentOf[order[j]] = ParentOf[order[i]] => Rank[order[j]] <= Rank[order[i]]
  BY <1>2, <1>4, <1>6
<1> QED
  BY <1>6, <1>7, <1>8, <1>9 DEF n

\* The daemon starts with a list of what is plugged in.
LEMMA ListInit ==
    ASSUME Init
    PROVE  ListOK(media) /\ Shows(media, mounts, late) /\ \A p : Listed(media, p) <=> p \in attached
<1> DEFINE D == attached
<1>1. D \subseteq Paths /\ \A p \in D : (IsPartition(p) => ParentOf[p] \in D) /\ Attached[p].content \in Contents
  <2>1. D \subseteq DOMAIN Attached /\ \A p \in DOMAIN Attached : p \in D <=> DiskOf(p) \in D
    BY MountingAssumption DEF Init
  <2> QED
    BY <2>1, MountingAssumption DEF DiskOf
<1>2. PICK order \in Sortings(D, ListedBefore) :
          media = [i \in DOMAIN order |-> Node(order[i], Attached[order[i]].kind, Attached[order[i]].content)]
  BY DEF Init
<1> HIDE DEF D
<1>3. /\ order \in Seq(D) /\ DOMAIN order = 1..Cardinality(D) /\ Cardinality(D) \in Nat
      /\ \A p \in D : \E i \in DOMAIN order : order[i] = p
      /\ \A i, j \in DOMAIN order : order[i] = order[j] => i = j
      /\ \A i \in DOMAIN order : IsPartition(order[i]) =>
            \E j \in 1..(i - 1) :
                /\ order[j] = ParentOf[order[i]]
                /\ \A k \in (j + 1)..i : IsPartition(order[k])
      /\ \A i, j \in DOMAIN order :
            j < i /\ ParentOf[order[j]] = ParentOf[order[i]] => Rank[order[j]] <= Rank[order[i]]
  BY <1>1, <1>2, ListedInOrder
<1>4. DOMAIN media = DOMAIN order /\ media \in [1..Cardinality(D) -> {media[i] : i \in DOMAIN media}]
  BY <1>2, <1>3
<1>5. Sequence(media)
  BY <1>3, <1>4, FunctionIsSeq
<1>6. \A i \in DOMAIN media : order[i] \in D /\ media[i] = Node(order[i], Attached[order[i]].kind, Attached[order[i]].content)
  BY <1>2, <1>3
<1>7. \A i \in DOMAIN media :
          /\ IsNode(media[i]) /\ Counted(media[i]) /\ media[i].path = order[i]
          /\ media[i].content \in Contents /\ media[i].mnt_point = NULL
  BY <1>1, <1>6 DEF Node, IsNode, Counted
<1>8. Distinct(media)
  BY <1>3, <1>4, <1>7 DEF Distinct
<1>9. Tree(media)
  <2> SUFFICES ASSUME NEW i \in DOMAIN media, IsPartition(media[i].path)
               PROVE  \E j \in 1..(i - 1) :
                         /\ media[j].path = ParentOf[media[i].path]
                         /\ \A k \in (j + 1)..i : IsPartition(media[k].path)
                         /\ \A k \in 1..(j - 1) : media[k].path # media[j].path
    BY DEF Tree
  <2>1. PICK j \in 1..(i - 1) : order[j] = ParentOf[order[i]] /\ \A k \in (j + 1)..i : IsPartition(order[k])
    BY <1>3, <1>4, <1>7
  <2>2. \A n \in Nat : i \in 1..n =>
            j \in 1..n /\ (\A k \in (j + 1)..i : k \in 1..n) /\ \A k \in 1..(j - 1) : k \in 1..n /\ k # j
    BY <2>1
  <2>3. /\ j \in DOMAIN media /\ \A k \in (j + 1)..i : k \in DOMAIN media
        /\ \A k \in 1..(j - 1) : k \in DOMAIN media /\ k # j
    BY <1>3, <1>4, <2>2
  <2>4. \A k \in 1..(j - 1) : media[k].path # media[j].path
    BY <1>8, <2>3 DEF Distinct
  <2> QED
    BY <1>7, <2>1, <2>3, <2>4
<1>12. Ordered(media)
  <2> SUFFICES ASSUME NEW i \in DOMAIN media, NEW j \in 1..(i - 1),
                      ParentOf[media[j].path] = ParentOf[media[i].path]
               PROVE  Rank[media[j].path] <= Rank[media[i].path]
    BY DEF Ordered
  <2>1. j \in DOMAIN media /\ j < i
    BY <1>5, SequenceFacts
  <2>2. media[i].path = order[i] /\ media[j].path = order[j] /\ i \in DOMAIN order /\ j \in DOMAIN order
    BY <1>4, <1>7, <2>1
  <2> QED
    BY <1>3, <2>1, <2>2
<1>10. Shows(media, mounts, late)
  <2>1. mounts = <<>> /\ Sequence(mounts)
    BY SequenceOf DEF Init, Sequence, ToSet
  <2>2. \A p : FirstEntry(mounts, p) = 0
    BY <2>1, EntryFacts
  <2> QED
    BY <1>7, <2>2 DEF Shows
<1>11. \A p : Listed(media, p) <=> p \in attached
  <2>1. \A p : Listed(media, p) => p \in D
    BY <1>6, <1>7 DEF Listed
  <2>2. ASSUME NEW p \in D PROVE Listed(media, p)
    <3>1. PICK i \in DOMAIN order : order[i] = p
      BY <1>3
    <3>2. i \in DOMAIN media /\ media[i].path = p
      BY <1>4, <1>7, <3>1
    <3> QED
      BY <3>2 DEF Listed
  <2> QED
    BY <2>1, <2>2 DEF D
<1> QED
  BY <1>1, <1>5, <1>6, <1>7, <1>8, <1>9, <1>10, <1>11, <1>12 DEF ListOK

LEMMA InvInit == Init => Inv
<1> SUFFICES ASSUME Init
             PROVE  Inv
  OBVIOUS
<1>1. ListOK(media) /\ Shows(media, mounts, late) /\ \A p : Listed(media, p) <=> p \in attached
  BY ListInit
<1>2. Sequence(<<>>) /\ DOMAIN <<>> = {} /\ ToSet(<<>>) = {}
  BY DEF Sequence, ToSet
<1>3. TypeOK
  <2>1. attached \subseteq Paths /\ MountDir \subseteq Dirs /\ DOMAIN mounts = {} /\ MaxCommands \in Nat /\ MaxOthers \in Nat
    BY <1>2, MountingAssumption DEF Init
  <2>2. \A i \in DOMAIN media : media[i].path \in Paths /\ media[i].mnt_point \in Dirs \cup {NULL}
    BY <1>1 DEF ListOK
  <2>3. /\ dirs \subseteq Dirs /\ made \subseteq dirs \cap MountDir /\ touched \subseteq Dirs
        /\ refused \subseteq Paths /\ late \subseteq Paths /\ meanwhile \subseteq Paths
    BY DEF Init
  <2>4. rest \in Seq(DOMAIN media) /\ reply \in Errors
    BY DEF Init, Errors
  <2>5. job.path \in Paths \cup {NULL} /\ job.dir \in Dirs \cup {NULL} /\ job = NoJob
    BY DEF Init, NoJob
  <2>6. commands \in 0..MaxCommands /\ others \in 0..MaxOthers
    BY <2>1 DEF Init
  <2> QED
    BY <2>1, <2>2, <2>3, <2>4, <2>5, <2>6 DEF Init, TypeOK
<1>4. ShapeInv
  BY <1>2 DEF Init, ShapeInv
<1>5. PhaseInv /\ JobInv /\ ExitInv
  BY <1>2 DEF Init, PhaseInv, JobInv, ExitInv
<1>6. PlaceInv
  BY <1>2 DEF Init, PlaceInv, MountsApart
<1>7. WholeInv
  BY MountingAssumption DEF Init, WholeInv, Whole
<1>8. PluggedInv
  <2>1. queue = <<>> /\ DOMAIN queue = {}
    BY <1>2 DEF Init
  <2> QED
    BY <1>1, <2>1 DEF PluggedInv, Queues, Parted, Preceded, Undone, Follows, Returns, Queued
<1> QED
  BY <1>1, <1>3, <1>4, <1>5, <1>6, <1>7, <1>8 DEF Inv, ListInv

\* calculate_path gives a directory of mount_dir that is free.
LEMMA MountPathFacts ==
    ASSUME NEW n, n.path \in Paths, n.content \in Contents, MountPath(n) # NULL
    PROVE  MountPath(n) \in MountDir /\ ~Busy(MountPath(n))
<1> DEFINE by_label == config.mount_by = "label" /\ n.content.label # NULL
           choices  == (IF by_label THEN <<LabelDir[n.content.label]>> ELSE <<>>) \o <<NameDir[n.path]>>
           I        == {i \in 1..Len(choices) : ~Busy(choices[i])}
           free     == IF I # {} THEN Min(I) ELSE 0
<1>1. MountPath(n) = IF free = 0 THEN NULL ELSE choices[free]
  BY DEF MountPath, SelectInSeq
<1>2. choices \in Seq(MountDir) /\ Len(choices) \in Nat
  <2>1. NameDir[n.path] \in MountDir
    BY MountingAssumption
  <2>2. CASE by_label
    <3>1. n.content.label \in Labels
      BY <2>2 DEF Contents
    <3>2. LabelDir[n.content.label] \in MountDir
      BY <3>1, MountingAssumption
    <3>3. choices = <<LabelDir[n.content.label]>> \o <<NameDir[n.path]>>
      BY <2>2
    <3> HIDE DEF choices
    <3> QED
      BY <2>1, <3>2, <3>3
  <2>3. CASE ~by_label
    <3>1. choices = <<>> \o <<NameDir[n.path]>>
      BY <2>3
    <3> HIDE DEF choices
    <3> QED
      BY <2>1, <3>1
  <2> QED
    BY <2>2, <2>3
<1> HIDE DEF choices, by_label
<1>3. I # {} /\ MountPath(n) = choices[Min(I)]
  BY <1>1
<1>4. Min(I) \in I
  <2>1. I \in SUBSET Nat
    BY <1>2
  <2> HIDE DEF I
  <2> QED
    BY <1>3, <2>1, MinFacts
<1>5. Min(I) \in 1..Len(choices) /\ ~Busy(choices[Min(I)])
  BY <1>4
<1> HIDE DEF I
<1>6. choices[Min(I)] \in MountDir
  BY <1>2, <1>5
<1> QED
  BY <1>3, <1>5, <1>6

\* The ways a command mount goes.
LEMMA InvokeMount ==
    ASSUME Inv, NEW p \in Paths, NEW requested, invoke_mount(p, requested)
    PROVE  /\ pc = "clients" /\ commands < MaxCommands /\ commands' = commands + 1
           /\ UNCHANGED <<world, mounts, mount_event, media, main, others, history>>
           /\ \/ /\ pc' = "clients" /\ reply' \in Errors /\ job' = NoJob
                 /\ reply' = "device_already_mounted" =>
                       \E i \in DOMAIN media : media[i].path = p /\ media[i].mnt_point # NULL
                 /\ reply' = "no_such_removable_device" => ~Listed(media, p)
              \/ /\ pc' = "mkdir" /\ reply' = "none"
                 /\ job'.path = p /\ job'.dir \in MountDir /\ ~Busy(job'.dir)
                 /\ \E i \in DOMAIN media : media[i].path = p /\ media[i].mnt_point = NULL
<1> DEFINE i == find_media(media, p)
           error == MountError(i, requested)
<1>1. /\ pc = "clients" /\ commands < MaxCommands /\ commands' = commands + 1
      /\ UNCHANGED <<world, mounts, mount_event, media, main, others, history>>
  BY DEF invoke_mount, Command
<1>2. IF error # "none" THEN pc' = "clients" /\ reply' = error /\ job' = NoJob
      ELSE /\ pc' = "mkdir" /\ reply' = "none"
           /\ job' = [path |-> p, dir |-> MountPath(media[i]),
                      opts |-> MountOptions(requested, get_fsopts_for_fs(media[i].content.fstype))]
  BY DEF invoke_mount, Answer, GoOn
<1>3. ListOK(media)
  BY DEF Inv, ListInv
<1>4. CASE i = 0
  <2>1. error = "no_such_removable_device"
    BY <1>4 DEF MountError
  <2>2. ~Listed(media, p)
    BY <1>3, <1>4, FindFacts DEF Listed, ListOK
  <2> HIDE DEF error
  <2> QED
    BY <1>1, <1>2, <2>1, <2>2 DEF Errors
<1>5. CASE i # 0
  <2>1. i \in DOMAIN media /\ media[i].path = p /\ media[i].path \in Paths /\ media[i].content \in Contents
    BY <1>3, <1>5, FindFacts DEF ListOK
  <2>2. /\ error \in Errors /\ error # "no_such_removable_device"
        /\ error = "device_already_mounted" => media[i].mnt_point # NULL
        /\ error = "none" => media[i].mnt_point = NULL /\ MountPath(media[i]) # NULL
    BY <1>5 DEF MountError, Errors
  <2>3. error = "none" => MountPath(media[i]) \in MountDir /\ ~Busy(MountPath(media[i]))
    BY <2>1, <2>2, MountPathFacts
  <2> HIDE DEF error, i
  <2>4. CASE error = "none"
    BY <1>1, <1>2, <2>1, <2>2, <2>3, <2>4
  <2>5. CASE error # "none"
    BY <1>1, <1>2, <2>1, <2>2, <2>5
  <2> QED
    BY <2>4, <2>5
<1> QED
  BY <1>4, <1>5

\* What is left to find out before umount(2).
LEMMA UnmountErrors ==
    ASSUME NEW n
    PROVE  /\ UnmountError(n) \in {"none", "unsupported_fstype", "device_not_mounted"}
           /\ UnmountError(n) = "none" =>
                 LET f == get_fsopts_for_fs(n.content.fstype)
                 IN  f # NULL /\ (f.external \/ Count(n.mnt_point) = 1)
           /\ UnmountError(n) = "device_not_mounted" => Count(n.mnt_point) # 1
           /\ UnmountError(n) = "unsupported_fstype" => get_fsopts_for_fs(n.content.fstype) = NULL
  BY DEF UnmountError

\* The ways a command unmount goes.
LEMMA InvokeUnmount ==
    ASSUME Inv, NEW p \in Paths, invoke_unmount(p)
    PROVE  /\ pc = "clients" /\ commands < MaxCommands /\ commands' = commands + 1
           /\ UNCHANGED <<world, mounts, mount_event, media, main, others, history>>
           /\ \/ /\ pc' = "clients" /\ reply' \in Errors /\ job' = NoJob
                 /\ reply' = "device_not_mounted" =>
                       \E i \in DOMAIN media :
                           /\ media[i].path = p
                           /\ media[i].mnt_point = NULL \/ Count(media[i].mnt_point) # 1
              \/ /\ pc' = "umount" /\ reply' = "none" /\ job'.path = p
                 /\ \E i \in DOMAIN media :
                       /\ media[i].path = p /\ media[i].mnt_point = job'.dir /\ job'.dir # NULL
                       /\ External(p) \/ Count(job'.dir) = 1
<1> DEFINE i == find_media(media, p)
           error == IF i = 0 THEN "no_such_removable_device"
                    ELSE IF media[i].mnt_point = NULL THEN "device_not_mounted"
                    ELSE UnmountError(media[i])
<1>1. /\ pc = "clients" /\ commands < MaxCommands /\ commands' = commands + 1
      /\ UNCHANGED <<world, mounts, mount_event, media, main, others, history>>
  BY DEF invoke_unmount, Command
<1>2. IF error # "none" THEN pc' = "clients" /\ reply' = error /\ job' = NoJob
      ELSE /\ pc' = "umount" /\ reply' = "none"
           /\ job' = [path |-> p, dir |-> media[i].mnt_point, opts |-> <<>>]
  BY DEF invoke_unmount, Answer, GoOn
<1>3. i = 0 \/ (i \in DOMAIN media /\ media[i].path = p)
  BY FindFacts DEF Inv, ListInv, ListOK
<1>4. CASE i = 0
  BY <1>1, <1>2, <1>4 DEF Errors
<1>5. CASE i # 0 /\ media[i].mnt_point = NULL
  <2>1. error = "device_not_mounted" /\ i \in DOMAIN media /\ media[i].path = p
    BY <1>3, <1>5
  <2> HIDE DEF error
  <2> QED
    BY <1>1, <1>2, <1>5, <2>1 DEF Errors
<1>6. CASE i # 0 /\ media[i].mnt_point # NULL
  <2>1. i \in DOMAIN media /\ media[i].path = p /\ error = UnmountError(media[i])
    BY <1>3, <1>6
  <2>2. /\ error \in {"none", "unsupported_fstype", "device_not_mounted"}
        /\ error = "none" => External(p) \/ Count(media[i].mnt_point) = 1
        /\ error = "device_not_mounted" => Count(media[i].mnt_point) # 1
    BY <2>1, UnmountErrors DEF External
  <2> HIDE DEF error, i
  <2>3. CASE error = "none"
    BY <1>1, <1>2, <1>6, <2>1, <2>2, <2>3
  <2>4. CASE error # "none"
    BY <1>1, <1>2, <1>6, <2>1, <2>2, <2>4 DEF Errors
  <2> QED
    BY <2>3, <2>4
<1> QED
  BY <1>4, <1>5, <1>6

\* The ways a command poweroff goes.
LEMMA InvokePoweroff ==
    ASSUME NEW p \in Paths, invoke_poweroff(p)
    PROVE  /\ pc = "clients" /\ commands < MaxCommands /\ commands' = commands + 1
           /\ UNCHANGED <<world, mounts, mount_event, media, main, others, history>>
           /\ \/ pc' = "clients" /\ reply' \in Errors /\ job' = NoJob
              \/ /\ pc' = "remove" /\ reply' = "none" /\ job'.path = p /\ job'.dir = NULL
                 /\ \A q \in Subtree(p) : ~InUse(q)
<1>1. /\ pc = "clients" /\ commands < MaxCommands /\ commands' = commands + 1
      /\ UNCHANGED <<world, mounts, mount_event, media, main, others, history>>
  BY DEF invoke_poweroff, Command
<1> DEFINE error == PoweroffError(find_media(media, p))
<1>2. error \in Errors
  BY DEF PoweroffError, Errors
<1>3. IF error # "none" THEN pc' = "clients" /\ reply' = error /\ job' = NoJob
      ELSE \/ /\ OpensExclusively(p) /\ pc' = "remove" /\ reply' = "none"
              /\ job' = [path |-> p, dir |-> NULL, opts |-> <<>>]
           \/ pc' = "clients" /\ reply' = "generic_error" /\ job' = NoJob
  BY DEF invoke_poweroff, Answer, GoOn
<1> HIDE DEF error
<1> QED
  BY <1>1, <1>2, <1>3 DEF OpensExclusively, Errors

\* More events wait: u begins with w.
Grows(w, u) ==
    /\ \A k \in DOMAIN w : k \in DOMAIN u /\ u[k] = w[k] /\ k \in Nat
    /\ \A k \in DOMAIN u : k \in Nat /\ (k \in DOMAIN w \/ \A j \in DOMAIN w : j < k)

\* What the new ones of them are not.
NoNew(w, u, action, p) == \A k \in DOMAIN u : k \in DOMAIN w \/ ~Is(u, k, action, p)

\* What more events leave as it was.
LEMMA GrowOrder ==
    ASSUME NEW w, NEW u, Grows(w, u), NEW p
    PROVE  /\ Parted(w, p) /\ NoNew(w, u, "add", p) => Parted(u, p)
           /\ Preceded(w, p) /\ NoNew(w, u, "add", p) => Preceded(u, p)
           /\ Undone(w, p) /\ NoNew(w, u, "add", p) => Undone(u, p)
           /\ Follows(w, p) /\ NoNew(w, u, "add", p) /\ NoNew(w, u, "add", ParentOf[p]) => Follows(u, p)
           /\ Returns(w, p) /\ NoNew(w, u, "remove", p) /\ NoNew(w, u, "remove", ParentOf[p]) => Returns(u, p)
           /\ Back(w, p) /\ NoNew(w, u, "remove", p) => Back(u, p)
           /\ Queued(w, "remove", p) => Queued(u, "remove", p)
           /\ ~Queued(w, "remove", p) /\ NoNew(w, u, "remove", p) => ~Queued(u, "remove", p)
<1>1. \A k \in DOMAIN w : k \in DOMAIN u /\ \A a, q : Is(u, k, a, q) <=> Is(w, k, a, q)
  BY DEF Grows, Is
<1>2. ASSUME Parted(w, p), NoNew(w, u, "add", p) PROVE Parted(u, p)
  BY <1>1, <1>2 DEF Parted, NoNew
<1>3. ASSUME Preceded(w, p), NoNew(w, u, "add", p) PROVE Preceded(u, p)
  BY <1>1, <1>3 DEF Preceded, NoNew
<1>4. ASSUME Undone(w, p), NoNew(w, u, "add", p) PROVE Undone(u, p)
  BY <1>1, <1>4 DEF Undone, NoNew
<1>5. ASSUME Follows(w, p), NoNew(w, u, "add", p), NoNew(w, u, "add", ParentOf[p]) PROVE Follows(u, p)
  BY <1>1, <1>5 DEF Follows, NoNew
<1>6. ASSUME NoNew(w, u, "remove", p), NEW k \in DOMAIN w, Final(w, k, p) PROVE Final(u, k, p)
  BY <1>1, <1>6 DEF Final, NoNew
<1>7. ASSUME Returns(w, p), NoNew(w, u, "remove", p), NoNew(w, u, "remove", ParentOf[p]) PROVE Returns(u, p)
  BY <1>1, <1>6, <1>7 DEF Returns, NoNew
<1>8. ASSUME Back(w, p), NoNew(w, u, "remove", p) PROVE Back(u, p)
  BY <1>1, <1>6, <1>8 DEF Back
<1>9. Queued(w, "remove", p) => Queued(u, "remove", p)
  BY <1>1 DEF Queued
<1>10. ASSUME ~Queued(w, "remove", p), NoNew(w, u, "remove", p) PROVE ~Queued(u, "remove", p)
  BY <1>1, <1>10 DEF Queued, NoNew
<1> QED
  BY <1>2, <1>3, <1>4, <1>5, <1>7, <1>8, <1>9, <1>10

\* The events with some new ones.
LEMMA QueueFacts ==
    ASSUME NEW w, Sequence(w), NEW new, Sequence(new)
    PROVE  LET u == w \o new
               n == Len(new)
           IN  /\ Sequence(u) /\ Grows(w, u) /\ Len(w) \in Nat
               /\ \A k \in DOMAIN u : k \in DOMAIN w \/ \E i \in 1..n : k = Len(w) + i /\ u[k] = new[i]
               /\ \A i \in 1..n : Len(w) + i \in DOMAIN u \ DOMAIN w /\ u[Len(w) + i] = new[i]
<1> DEFINE u == w \o new
           l == Len(w)
           n == Len(new)
<1>1. l \in Nat /\ DOMAIN w = 1..l /\ n \in Nat
  BY SequenceFacts
<1>2. /\ Sequence(u) /\ Len(u) = l + n
      /\ \A k \in 1..l : u[k] = w[k]
      /\ \A k \in 1..n : u[l + k] = new[k]
  BY ConcatFacts
<1>3. DOMAIN u = 1..(l + n)
  BY <1>2, SequenceFacts
<1> HIDE DEF l, u, n
<1>4. \A k \in 1..(l + n) : k \in Nat /\ (k \in 1..l \/ ((\A j \in 1..l : j < k) /\ \E i \in 1..n : k = l + i))
  <2> TAKE k \in 1..(l + n)
  <2>1. CASE k <= l
    BY <1>1, <2>1
  <2>2. CASE ~(k <= l)
    <3>1. k - l \in 1..n /\ k = l + (k - l)
      BY <1>1, <2>2
    <3> QED
      BY <1>1, <2>2, <3>1
  <2> QED
    BY <2>1, <2>2
<1>5. \A k \in 1..l : k \in 1..(l + n) /\ k \in Nat
  BY <1>1
<1>6. Grows(w, u)
  BY <1>1, <1>2, <1>3, <1>4, <1>5 DEF Grows
<1>7. \A i \in 1..n : l + i \in 1..(l + n) /\ l + i \notin 1..l
  BY <1>1
<1>8. \A k \in DOMAIN u : k \in DOMAIN w \/ \E i \in 1..n : k = l + i /\ u[k] = new[i]
  BY <1>1, <1>2, <1>3, <1>4
<1> QED
  BY <1>1, <1>2, <1>3, <1>6, <1>7, <1>8 DEF l, u, n

\* The events after devices have gone.
LEMMA DetachFacts ==
    ASSUME Inv, NEW gone \in SUBSET attached, Detach(gone)
    PROVE  /\ attached' = attached \ gone /\ Sequence(queue') /\ Grows(queue, queue')
           /\ \A k \in DOMAIN queue' :
                 k \in DOMAIN queue \/ (queue'[k].action = "remove" /\ queue'[k].path \in gone)
           /\ \A p \in gone : \E k \in DOMAIN queue' : k \notin DOMAIN queue /\ Is(queue', k, "remove", p)
<1> DEFINE Event(p) == [action |-> "remove", path |-> p, content |-> NULL]
           Before(p, q) == IF IsPartition(p) = IsPartition(q) THEN Rank[p] < Rank[q] ELSE IsPartition(p)
           n == Cardinality(gone)
<1>1. gone \in SUBSET Paths
  BY DEF Inv, TypeOK
<1>2. PICK order :
         /\ order \in [1..n -> gone]
         /\ \A i, j \in 1..n : i < j => Before(order[i], order[j])
         /\ queue' = queue \o [i \in DOMAIN order |-> Event(order[i])]
  BY DEF Detach, Sortings
<1>3. \A p \in gone : ~Before(p, p)
  BY <1>1, PathAssumption
<1>4. \A i, j \in 1..n : i < j => order[i] # order[j]
  <2> HIDE DEF Before, n
  <2> QED
    BY <1>2, <1>3
<1>5. \A p : Event(p).action = "remove" /\ Event(p).path = p
  OBVIOUS
<1> HIDE DEF Before, Event
<1>9. /\ n \in Nat /\ DOMAIN order = 1..n /\ order \in [1..n -> gone]
      /\ \A p \in gone : \E i \in 1..n : order[i] = p
  <2>1. IsFiniteSet(gone)
    BY <1>1, FS_Subset, PathAssumption
  <2>2. order \in [1..Cardinality(gone) -> gone]
    BY <1>2
  <2>3. \A i, j \in 1..Cardinality(gone) : i < j => order[i] # order[j]
    BY <1>4
  <2>4. /\ Cardinality(gone) \in Nat /\ DOMAIN order = 1..Cardinality(gone)
        /\ \A p \in gone : \E i \in DOMAIN order : order[i] = p
    BY <2>1, <2>2, <2>3, OntoFacts
  <2> QED
    BY <2>2, <2>4
<1> DEFINE new == [i \in DOMAIN order |-> Event(order[i])]
<1>10. new \in [1..n -> {Event(p) : p \in gone}] /\ \A i \in 1..n : new[i] = Event(order[i])
  BY <1>9
<1>11. Sequence(queue) /\ queue' = queue \o new
  BY <1>2 DEF Inv, ShapeInv
<1> HIDE DEF new, n
<1>6. /\ Sequence(queue') /\ Grows(queue, queue')
      /\ \A k \in DOMAIN queue' : k \in DOMAIN queue \/
            \E i \in 1..n : k = Len(queue) + i /\ queue'[k] = Event(order[i])
      /\ \A i \in 1..n : Len(queue) + i \in DOMAIN queue' \ DOMAIN queue
                         /\ queue'[Len(queue) + i] = Event(order[i])
      /\ \A p \in gone : \E i \in 1..n : order[i] = p
  <2> DEFINE u == queue \o new
  <2>1. /\ Sequence(u) /\ Grows(queue, u) /\ Len(queue) \in Nat /\ Len(new) = n
        /\ \A k \in DOMAIN u : k \in DOMAIN queue \/ \E i \in 1..Len(new) : k = Len(queue) + i /\ u[k] = new[i]
        /\ \A i \in 1..Len(new) : Len(queue) + i \in DOMAIN u \ DOMAIN queue /\ u[Len(queue) + i] = new[i]
    <3> DEFINE S == {Event(p) : p \in gone}
    <3>1. n \in Nat /\ new \in [1..n -> S]
      BY <1>9, <1>10
    <3> HIDE DEF S
    <3>2. Sequence(new) /\ Len(new) = n
      BY <3>1, FunctionIsSeq
    <3> QED
      BY <1>11, <3>2, QueueFacts
  <2>2. queue' = u
    BY <1>11
  <2> HIDE DEF u, Event
  <2> QED
    <3>1. \A i \in 1..Len(new) : new[i] = Event(order[i])
      BY <1>10, <2>1
    <3>2. \A p \in gone : \E i \in 1..n : order[i] = p
      BY <1>9
    <3>3. /\ \A k \in DOMAIN u : k \in DOMAIN queue \/
                \E i \in 1..Len(new) : k = Len(queue) + i /\ u[k] = Event(order[i])
          /\ \A i \in 1..Len(new) : Len(queue) + i \in DOMAIN u \ DOMAIN queue
                                     /\ u[Len(queue) + i] = Event(order[i])
      BY <2>1, <3>1
    <3> QED
      BY <2>1, <2>2, <3>2, <3>3
<1>7. \A p \in gone : \E k \in DOMAIN queue' : k \notin DOMAIN queue /\ Is(queue', k, "remove", p)
  BY <1>5, <1>6 DEF Is
<1>8. \A k \in DOMAIN queue' :
          k \in DOMAIN queue \/ (queue'[k].action = "remove" /\ queue'[k].path \in gone)
  BY <1>5, <1>6, <1>9
<1> QED
  BY <1>6, <1>7, <1>8 DEF Detach

\* The events after a disk has come with its partitions: one for each, the disk's
\* first.
LEMMA PlugFacts ==
    ASSUME Inv, NEW p \in Paths, Plug(p)
    PROVE  LET new == DOMAIN Attached \cap Subtree(p)
           IN  /\ attached' = attached \cup new /\ Sequence(queue') /\ Grows(queue, queue')
               /\ \A k \in DOMAIN queue' :
                     \/ k \in DOMAIN queue
                     \/ /\ queue'[k].action = "add" /\ queue'[k].path \in new
                        /\ queue'[k].content \in Contents
               /\ \A q \in new : \E k \in DOMAIN queue' : k \notin DOMAIN queue /\ Is(queue', k, "add", q)
               /\ \A i, j \in DOMAIN queue' \ DOMAIN queue :
                     /\ queue'[i].path = queue'[j].path => i = j
                     /\ IsPartition(queue'[i].path) /\ queue'[j].path = ParentOf[queue'[i].path] => j < i
<1> DEFINE new == DOMAIN Attached \cap Subtree(p)
           Event(q) == [action |-> "add", path |-> q, content |-> Attached[q].content]
           n == Cardinality(new)
<1>1. /\ new \in SUBSET Paths
      /\ \A q \in new : IsPartition(q) => ParentOf[q] \in new
      /\ \A q \in new : Attached[q].content \in Contents
  <2>1. p \in DOMAIN Attached /\ ~IsPartition(p)
    BY DEF Plug
  <2>2. \A q \in new : q = p \/ ParentOf[q] = p
    BY DEF Subtree
  <2>3. p \in new
    BY <2>1 DEF Subtree
  <2> HIDE DEF new
  <2>4. \A q \in new : IsPartition(q) => ParentOf[q] \in new
    BY <2>1, <2>2, <2>3
  <2> QED
    BY <2>4, MountingAssumption DEF new
<1>2. PICK order \in Sortings(new, ListedBefore) : queue' = queue \o [i \in DOMAIN order |-> Event(order[i])]
  BY DEF Plug
<1>3. attached' = attached \cup new
  BY DEF Plug
<1>4. \A q : Event(q).action = "add" /\ Event(q).path = q /\ Event(q).content = Attached[q].content
  OBVIOUS
<1> HIDE DEF new, Event
<1>5. /\ order \in Seq(new) /\ DOMAIN order = 1..n /\ n \in Nat
      /\ \A i, j \in DOMAIN order : order[i] = order[j] => i = j
      /\ \A i \in DOMAIN order : IsPartition(order[i]) =>
            \E j \in 1..(i - 1) :
                /\ order[j] = ParentOf[order[i]]
                /\ \A k \in (j + 1)..i : IsPartition(order[k])
  BY <1>1, <1>2, ListedInOrder
<1>6. order \in [1..n -> new] /\ \A i, j \in 1..n : i < j => order[i] # order[j]
  <2>1. order \in [1..n -> new]
    BY <1>2 DEF Sortings
  <2> HIDE DEF n
  <2> QED
    BY <1>5, <2>1
<1>7. /\ Sequence(queue') /\ Grows(queue, queue') /\ Len(queue) \in Nat
      /\ \A k \in DOMAIN queue' : k \in DOMAIN queue \/
            \E i \in 1..n : k = Len(queue) + i /\ queue'[k] = Event(order[i])
      /\ \A i \in 1..n : Len(queue) + i \in DOMAIN queue' \ DOMAIN queue
                         /\ queue'[Len(queue) + i] = Event(order[i])
      /\ \A q \in new : \E i \in 1..n : order[i] = q
  <2> DEFINE added == [i \in DOMAIN order |-> Event(order[i])]
             u == queue \o added
  <2>1. added \in [1..n -> {Event(q) : q \in new}] /\ \A i \in 1..n : added[i] = Event(order[i])
    BY <1>5, <1>6
  <2>2. Sequence(queue) /\ queue' = u
    BY <1>2 DEF Inv, ShapeInv
  <2> HIDE DEF added, n
  <2>3. /\ Sequence(u) /\ Grows(queue, u) /\ Len(queue) \in Nat /\ Len(added) = n
        /\ \A k \in DOMAIN u : k \in DOMAIN queue \/ \E i \in 1..Len(added) : k = Len(queue) + i /\ u[k] = added[i]
        /\ \A i \in 1..Len(added) : Len(queue) + i \in DOMAIN u \ DOMAIN queue /\ u[Len(queue) + i] = added[i]
    <3> DEFINE S == {Event(q) : q \in new}
    <3>1. n \in Nat /\ added \in [1..n -> S]
      BY <1>5, <2>1
    <3> HIDE DEF S
    <3>2. Sequence(added) /\ Len(added) = n
      BY <3>1, FunctionIsSeq
    <3> QED
      BY <2>2, <3>2, QueueFacts
  <2> HIDE DEF u
  <2>4. \A q \in new : \E i \in 1..n : order[i] = q
    <3>1. IsFiniteSet(new)
      BY <1>1, FS_Subset, PathAssumption
    <3>2. order \in [1..Cardinality(new) -> new] /\ \A i, j \in 1..Cardinality(new) : i < j => order[i] # order[j]
      BY <1>6 DEF n
    <3>3. DOMAIN order = 1..Cardinality(new) /\ \A q \in new : \E i \in DOMAIN order : order[i] = q
      BY <3>1, <3>2, OntoFacts
    <3> QED
      BY <3>3 DEF n
  <2> QED
    BY <2>1, <2>2, <2>3, <2>4
<1> HIDE DEF n
<1>8. \A q \in new : \E k \in DOMAIN queue' : k \notin DOMAIN queue /\ Is(queue', k, "add", q)
  BY <1>4, <1>7 DEF Is
<1>9. \A k \in DOMAIN queue' :
         \/ k \in DOMAIN queue
         \/ queue'[k].action = "add" /\ queue'[k].path \in new /\ queue'[k].content \in Contents
  BY <1>1, <1>4, <1>6, <1>7
<1>10. ASSUME NEW i \in DOMAIN queue' \ DOMAIN queue, NEW j \in DOMAIN queue' \ DOMAIN queue
       PROVE  /\ queue'[i].path = queue'[j].path => i = j
              /\ IsPartition(queue'[i].path) /\ queue'[j].path = ParentOf[queue'[i].path] => j < i
  <2>1. PICK a \in 1..n : i = Len(queue) + a /\ queue'[i].path = order[a]
    BY <1>4, <1>7
  <2>2. PICK b \in 1..n : j = Len(queue) + b /\ queue'[j].path = order[b]
    BY <1>4, <1>7
  <2>3. order[a] = order[b] => a = b
    BY <1>5
  <2>4. IsPartition(order[a]) /\ order[b] = ParentOf[order[a]] => b < a
    <3>1. SUFFICES ASSUME IsPartition(order[a]), order[b] = ParentOf[order[a]]
                   PROVE  b < a
      OBVIOUS
    <3>2. PICK c \in 1..(a - 1) : order[c] = ParentOf[order[a]]
      BY <1>5, <3>1
    <3>3. c \in 1..n /\ c < a
      BY <1>5, <3>2
    <3> QED
      BY <1>5, <3>1, <3>2, <3>3
  <2>5. a \in Nat /\ b \in Nat /\ Len(queue) \in Nat
    BY <1>5, <1>7
  <2>6. a = b => i = j
    BY <2>1, <2>2
  <2>7. b < a => j < i
    BY <2>1, <2>2, <2>5
  <2> QED
    BY <2>1, <2>2, <2>3, <2>4, <2>6, <2>7
<1> QED
  BY <1>3, <1>7, <1>8, <1>9, <1>10 DEF new

\* The places of the mounts after umount(2) of d, and after a mount(2).
LEMMA UmountEntries ==
    ASSUME Sequence(mounts), NEW d, Busy(d), MountsBecome(RemoveAt(mounts, Topmost(d)))
    PROVE  /\ mount_event' = TRUE /\ Sequence(mounts')
           /\ \A k \in DOMAIN mounts' : \E j \in DOMAIN mounts : mounts'[k] = mounts[j]
           /\ \A j \in DOMAIN mounts : mounts[j].dir # d => \E k \in DOMAIN mounts' : mounts'[k] = mounts[j]
           /\ \A k, l \in DOMAIN mounts' : k # l =>
                 \E j, h \in DOMAIN mounts : j # h /\ mounts'[k] = mounts[j] /\ mounts'[l] = mounts[h]
           /\ \A k \in DOMAIN mounts' : mounts'[k].dir = d =>
                 \E j, h \in DOMAIN mounts : j # h /\ mounts'[k] = mounts[j] /\ mounts[h].dir = d
<1> DEFINE gone == Topmost(d)
           t == RemoveAt(mounts, gone)
<1>1. /\ Sequence(t) /\ gone \in DOMAIN mounts /\ mounts[gone].dir = d
      /\ \A k \in DOMAIN t : \E j \in DOMAIN mounts \ {gone} : t[k] = mounts[j]
      /\ \A j \in DOMAIN mounts \ {gone} : \E k \in DOMAIN t : t[k] = mounts[j]
      /\ \A k, l \in DOMAIN t : k # l =>
            \E j, h \in DOMAIN mounts \ {gone} : j # h /\ t[k] = mounts[j] /\ t[l] = mounts[h]
  BY UmountFacts
<1>2. mounts' = t /\ mount_event' = TRUE
  BY DEF MountsBecome
<1> HIDE DEF t, gone
<1>3. /\ \A k \in DOMAIN t : \E j \in DOMAIN mounts : t[k] = mounts[j]
      /\ \A j \in DOMAIN mounts : mounts[j].dir # d => \E k \in DOMAIN t : t[k] = mounts[j]
  BY <1>1
<1>4. \A k, l \in DOMAIN t : k # l =>
         \E j, h \in DOMAIN mounts : j # h /\ t[k] = mounts[j] /\ t[l] = mounts[h]
  BY <1>1
<1>5. \A k \in DOMAIN t : t[k].dir = d =>
         \E j, h \in DOMAIN mounts : j # h /\ t[k] = mounts[j] /\ mounts[h].dir = d
  BY <1>1
<1> QED
  BY <1>1, <1>2, <1>3, <1>4, <1>5

LEMMA MountEntries ==
    ASSUME Sequence(mounts), NEW e, MountsBecome(Append(mounts, e))
    PROVE  /\ mount_event' = TRUE /\ Sequence(mounts')
           /\ \A k \in DOMAIN mounts' : (k \in DOMAIN mounts /\ mounts'[k] = mounts[k]) \/ mounts'[k] = e
           /\ \A k, l \in DOMAIN mounts' : k # l => k \in DOMAIN mounts \/ l \in DOMAIN mounts
           /\ \A j \in DOMAIN mounts : j \in DOMAIN mounts' /\ mounts'[j] = mounts[j]
           /\ \E k \in DOMAIN mounts' : mounts'[k] = e
<1> DEFINE t == Append(mounts, e)
           n == Len(mounts)
<1>1. /\ Sequence(t) /\ DOMAIN t = 1..(n + 1)
      /\ \A i \in DOMAIN mounts : t[i] = mounts[i] /\ i # n + 1
      /\ t[n + 1] = e
      /\ \A i \in DOMAIN t : i \in DOMAIN mounts \/ i = n + 1
  BY AppendFacts
<1>2. n \in Nat /\ DOMAIN mounts = 1..n
  BY SequenceFacts
<1>3. mounts' = t /\ mount_event' = TRUE
  BY DEF MountsBecome
<1> HIDE DEF t, n
<1>4. n + 1 \in DOMAIN t /\ \A j \in DOMAIN mounts : j \in DOMAIN t
  BY <1>1, <1>2
<1> QED
  BY <1>1, <1>3, <1>4

\* invoke_unmount_all goes through all nodes that the list shows mounted.
LEMMA ExitFacts ==
    ASSUME Inv, Exit
    PROVE  /\ rest' \in Seq(DOMAIN media) /\ \A j \in ToSet(rest') : media[j].mnt_point # NULL
           /\ config.unmount_on_exit =>
                 \A i \in DOMAIN media : media[i].mnt_point # NULL => i \in ToSet(rest')
<1>1. CASE ~config.unmount_on_exit
  <2>1. rest' = <<>>
    BY <1>1 DEF Exit
  <2> QED
    BY <1>1, <2>1 DEF ToSet
<1>2. CASE config.unmount_on_exit
  <2> DEFINE S == {i \in DOMAIN media : media[i].mnt_point # NULL}
             n == Cardinality(S)
             Before(i, j) == IF i < j THEN ParentOf[media[j].path] # media[i].path
                             ELSE ParentOf[media[i].path] = media[j].path
  <2>1. rest' \in [1..n -> S] /\ \A i, j \in 1..n : i < j => Before(rest'[i], rest'[j])
    BY <1>2 DEF Exit, UnmountOrders, Sortings
  <2>2. IsFiniteSet(S)
    <3>1. S \in SUBSET (1..Len(media)) /\ Len(media) \in Nat
      BY SequenceFacts DEF Inv, ListInv, ListOK
    <3>2. IsFiniteSet(1..Len(media))
      BY <3>1, FS_Interval
    <3> HIDE DEF S
    <3> QED
      BY <3>1, <3>2, FS_Subset
  <2>3. \A i \in S : ~Before(i, i)
    <3> TAKE i \in S
    <3>1. media[i].path \in Paths /\ i \in Nat
      BY SequenceFacts DEF Inv, ListInv, ListOK
    <3>2. ParentOf[media[i].path] # media[i].path
      BY <3>1, PathAssumption
    <3> QED
      BY <3>1, <3>2
  <2>4. \A i, j \in 1..n : i < j => rest'[i] # rest'[j]
    <3> HIDE DEF S, n, Before
    <3> QED
      BY <2>1, <2>3
  <2>5. rest' \in Seq(S) /\ \A x \in S : \E i \in DOMAIN rest' : rest'[i] = x
    <3>1. PICK r \in [1..Cardinality(S) -> S] : r = rest'
      BY <2>1
    <3>2. \A i, j \in 1..Cardinality(S) : i < j => r[i] # r[j]
      BY <2>4, <3>1
    <3> HIDE DEF S
    <3>3. r \in Seq(S) /\ \A x \in S : \E i \in DOMAIN r : r[i] = x
      BY <2>2, <3>2, OntoFacts
    <3> QED
      BY <3>1, <3>3
  <2>6. \A i \in DOMAIN media : media[i].mnt_point # NULL => i \in ToSet(rest')
    BY <2>5 DEF ToSet
  <2>7. \A j \in ToSet(rest') : j \in S
    <3> HIDE DEF S
    <3> QED
      BY <2>5 DEF ToSet
  <2> QED
    BY <2>5, <2>6, <2>7
<1> QED
  BY <1>1, <1>2

LEMMA TypeStep ==
    ASSUME Inv, [Next]_vars
    PROVE  TypeOK'
<1>0. TypeOK /\ PhaseInv /\ Sequence(mounts) /\ ListOK(media)
  BY DEF Inv, ShapeInv, ListInv
<1>a. /\ MountDir \subseteq Dirs /\ NULL \notin Dirs /\ NULL \notin Paths
      /\ MaxCommands \in Nat /\ MaxOthers \in Nat
  BY MountingAssumption
<1>b. \A n, b \in Nat : n \in 0..b /\ n < b => n + 1 \in 0..b
  OBVIOUS
<1>c. \A n : others \in 0..MaxOthers /\ others < MaxOthers => others + 1 \in 0..MaxOthers
  BY <1>a, <1>b
<1>d. commands \in 0..MaxCommands /\ commands < MaxCommands => commands + 1 \in 0..MaxCommands
  BY <1>a, <1>b
<1>1. ASSUME NEW p \in Paths, NEW d \in Dirs, OtherMounts(p, d)
      PROVE  TypeOK'
  <2> DEFINE e == [dev |-> p, dir |-> d, opts |-> <<>>, by |-> "other"]
  <2>1. MountsBecome(Append(mounts, e)) /\ d \in dirs
    BY <1>1 DEF OtherMounts
  <2>2. \A k \in DOMAIN mounts' : (k \in DOMAIN mounts /\ mounts'[k] = mounts[k]) \/ mounts'[k] = e
    BY <1>0, <2>1, MountEntries
  <2>3. mount_event' = TRUE
    BY <2>1 DEF MountsBecome
  <2>4. e.dev \in Paths /\ e.dir \in dirs /\ e.dir \in Dirs /\ e.by \in {"daemon", "other"}
    BY <2>1
  <2> HIDE DEF e
  <2> QED
    BY <1>0, <1>1, <1>c, <2>2, <2>3, <2>4 DEF TypeOK, OtherMounts, Other, world, main
<1>2. ASSUME NEW d \in Dirs, OtherUnmounts(d)
      PROVE  TypeOK'
  <2>1. \A k \in DOMAIN mounts' : \E j \in DOMAIN mounts : mounts'[k] = mounts[j]
    BY <1>0, <1>2, UmountEntries DEF OtherUnmounts
  <2>2. mount_event' = TRUE
    BY <1>2 DEF OtherUnmounts, MountsBecome
  <2> QED
    BY <1>0, <1>2, <1>c, <2>1, <2>2 DEF TypeOK, OtherUnmounts, Other, world, main
<1>3. ASSUME NEW p \in Paths, Unplug(p) \/ \E c \in Altered : Alter(p, c)
      PROVE  TypeOK'
  BY <1>0, <1>3, <1>c DEF TypeOK, Unplug, Detach, Alter, Other, main
<1>19. ASSUME NEW p \in Paths, Plug(p)
       PROVE  TypeOK'
  BY <1>0, <1>19, <1>c, MountingAssumption DEF TypeOK, Plug, Other, main
<1>4. CASE Round
  <2>1. ListOK(media')
    BY <1>4, RoundFacts
  <2>2. rest' \in Seq(DOMAIN media')
    BY <1>0, <1>4 DEF Round, PhaseInv, main
  <2>3. late' \subseteq Paths
    BY <1>4 DEF Round
  <2> QED
    BY <1>0, <1>4, <2>1, <2>2, <2>3 DEF TypeOK, Round, ListOK, main, bounds, history
<1>5. CASE EndRound
  BY <1>0, <1>5 DEF TypeOK, EndRound, Errors, world, main, bounds, history
<1>6. ASSUME NEW p \in Paths, invoke_unmount(p)
      PROVE  TypeOK'
  <2>1. /\ UNCHANGED <<world, mounts, mount_event, media, main, others, history>>
        /\ commands' \in 0..MaxCommands
        /\ \/ pc' = "clients" /\ reply' \in Errors /\ job' = NoJob
           \/ /\ pc' = "umount" /\ reply' = "none" /\ job'.path = p
              /\ job'.dir \in Dirs /\ job' # NoJob
    BY <1>0, <1>6, <1>a, <1>d, InvokeUnmount DEF TypeOK, NoJob
  <2> QED
    BY <1>0, <2>1 DEF TypeOK, NoJob, Errors, world, main, history
<1>7. ASSUME NEW p \in Paths, invoke_poweroff(p)
      PROVE  TypeOK'
  <2>1. /\ UNCHANGED <<world, mounts, mount_event, media, main, others, history>>
        /\ commands' \in 0..MaxCommands
        /\ \/ pc' = "clients" /\ reply' \in Errors /\ job' = NoJob
           \/ /\ pc' = "remove" /\ reply' = "none" /\ job'.path = p
              /\ job'.dir = NULL /\ job' # NoJob
    BY <1>0, <1>7, <1>a, <1>d, InvokePoweroff DEF TypeOK, NoJob
  <2> QED
    BY <1>0, <2>1 DEF TypeOK, NoJob, Errors, world, main, history
<1>8. ASSUME NEW p \in Paths, NEW r \in Requests, invoke_mount(p, r)
      PROVE  TypeOK'
  <2>1. /\ UNCHANGED <<world, mounts, mount_event, media, main, others, history>>
        /\ commands' \in 0..MaxCommands
        /\ \/ pc' = "clients" /\ reply' \in Errors /\ job' = NoJob
           \/ /\ pc' = "mkdir" /\ reply' = "none" /\ job'.path = p
              /\ job'.dir \in Dirs /\ job' # NoJob
    BY <1>0, <1>8, <1>a, <1>d, InvokeMount DEF TypeOK, NoJob
  <2> QED
    BY <1>0, <2>1 DEF TypeOK, NoJob, Errors, world, main, history
<1>9. CASE MakeDir
  <2>1. job.dir \in Dirs /\ job.dir \in MountDir
    BY <1>0, <1>9 DEF PhaseInv, MakeDir
  <2> QED
    BY <1>0, <1>9, <2>1 DEF TypeOK, MakeDir, Answer, NoJob, Errors, main, bounds
<1>10. CASE DoMount
  <2>1. job.dir \in Dirs /\ job.path \in Paths
    BY <1>0, <1>10 DEF PhaseInv, DoMount
  <2>2. CASE pc' = "rmdir" /\ UNCHANGED <<job, reply, mounts, mount_event, dirs, made, touched>>
    BY <1>0, <1>10, <2>2 DEF TypeOK, DoMount, main, bounds
  <2>3. CASE ~(pc' = "rmdir" /\ UNCHANGED <<job, reply, mounts, mount_event, dirs, made, touched>>)
    <3> DEFINE e == [dev |-> job.path, dir |-> job.dir, opts |-> job.opts, by |-> "daemon"]
    <3>1. /\ MountsBecome(Append(mounts, e)) /\ job.dir \in dirs /\ Answer("none")
          /\ UNCHANGED <<dirs, made, touched>>
      BY <1>10, <2>3 DEF DoMount
    <3>2. \A k \in DOMAIN mounts' : (k \in DOMAIN mounts /\ mounts'[k] = mounts[k]) \/ mounts'[k] = e
      BY <1>0, <3>1, MountEntries
    <3>3. mount_event' = TRUE /\ pc' = "clients" /\ reply' = "none" /\ job' = NoJob
      BY <3>1 DEF MountsBecome, Answer
    <3>4. e.dev \in Paths /\ e.dir \in dirs /\ e.dir \in Dirs /\ e.by \in {"daemon", "other"}
      BY <2>1, <3>1
    <3> HIDE DEF e
    <3> QED
      BY <1>0, <1>10, <3>1, <3>2, <3>3, <3>4 DEF TypeOK, DoMount, NoJob, Errors, main, bounds
  <2> QED
    BY <2>2, <2>3
<1>11. CASE MountFailed
  BY <1>0, <1>11 DEF TypeOK, MountFailed, RemoveDir, Busy, Answer, NoJob, Errors, main, bounds
<1>12. CASE DoUnmount
  <2>1. CASE /\ Busy(job.dir) /\ MountsBecome(RemoveAt(mounts, Topmost(job.dir)))
             /\ pc' = "tidy" /\ UNCHANGED <<job, reply, refused>>
    <3>1. \A k \in DOMAIN mounts' : \E j \in DOMAIN mounts : mounts'[k] = mounts[j]
      BY <1>0, <2>1, UmountEntries
    <3>2. mount_event' = TRUE
      BY <2>1 DEF MountsBecome
    <3> QED
      BY <1>0, <1>12, <2>1, <3>1, <3>2 DEF TypeOK, DoUnmount, world, main, bounds
  <2>2. CASE /\ Return("generic_error") \/ Return("mount_point_busy")
             /\ refused' = refused \cup {job.path}
             /\ UNCHANGED <<mounts, mount_event>>
    <3>1. job.path \in Paths
      BY <1>0, <1>12 DEF PhaseInv, DoUnmount
    <3>2. job' = NoJob /\ pc' \in {"clients", "unmount_all"} /\ reply' \in Errors
      BY <1>0, <2>2 DEF Return, Answer, Errors, TypeOK
    <3> QED
      BY <1>0, <1>12, <2>2, <3>1, <3>2 DEF TypeOK, DoUnmount, NoJob, world, main, bounds
  <2> QED
    BY <1>12, <2>1, <2>2 DEF DoUnmount
<1>13. CASE Tidy
  <2>1. job' = NoJob /\ pc' \in {"clients", "unmount_all"} /\ reply' \in Errors
    BY <1>0, <1>13 DEF Tidy, Return, Answer, Errors, TypeOK
  <2> QED
    BY <1>0, <1>13, <2>1 DEF TypeOK, Tidy, RemoveDir, Busy, NoJob, main, bounds
<1>14. CASE PoweroffRemove
  <2>1. attached' \subseteq attached /\ job' = NoJob /\ pc' = "clients" /\ reply' \in Errors
    BY <1>14 DEF PoweroffRemove, Detach, Answer, Errors
  <2> QED
    BY <1>0, <1>14, <2>1 DEF TypeOK, PoweroffRemove, NoJob, main, bounds, history
<1>15. CASE Exit
  <2>1. rest' \in Seq(DOMAIN media)
    BY <1>15, ExitFacts
  <2> QED
    BY <1>0, <1>15, <2>1 DEF TypeOK, Exit, world, bounds, history
<1>16. CASE invoke_unmount_all
  <2> DEFINE n == media[Head(rest)]
  <2>1. rest \in Seq(DOMAIN media) /\ rest # <<>>
    BY <1>0, <1>16 DEF TypeOK, invoke_unmount_all
  <2>2. Head(rest) \in DOMAIN media /\ Tail(rest) \in Seq(DOMAIN media)
    BY <2>1
  <2>3. n.path \in Paths /\ n.mnt_point \in Dirs \cup {NULL}
    BY <1>0, <2>2 DEF TypeOK
  <2>4. \/ UNCHANGED <<pc, job>>
        \/ pc' = "umount" /\ job'.path \in Paths /\ job'.dir \in Dirs \cup {NULL} /\ job' # NoJob
    BY <1>16, <1>a, <2>3 DEF invoke_unmount_all, NoJob
  <2> QED
    BY <1>0, <1>16, <2>2, <2>4 DEF TypeOK, invoke_unmount_all, world, bounds, history
<1>17. CASE Finish
  <2>1. rest' = <<>> /\ media' = <<>>
    BY <1>17 DEF Finish, main
  <2>2. rest' \in Seq(DOMAIN media') /\ DOMAIN media' = {}
    BY <2>1
  <2> QED
    BY <1>0, <1>17, <2>2 DEF TypeOK, Finish, Busy, main, bounds
<1>18. CASE UNCHANGED vars
  BY <1>0, <1>18 DEF TypeOK, vars, world, main, bounds, history
<1> QED
  BY <1>1, <1>2, <1>3, <1>4, <1>5, <1>6, <1>7, <1>8, <1>9, <1>10, <1>11, <1>12, <1>13, <1>14, <1>15,
     <1>16, <1>17, <1>18, <1>19 DEF Next, Others, Daemon, Terminated

\* The mounts change by a mount or an unmount, or not at all.
LEMMA MountsStep ==
    ASSUME Inv, [Next]_vars
    PROVE  \/ UNCHANGED mounts
           \/ \E p \in Paths, d \in Dirs : OtherMounts(p, d)
           \/ \E d \in Dirs : OtherUnmounts(d)
           \/ DoMount /\ MountsBecome(Append(mounts, [dev |-> job.path, dir |-> job.dir,
                                                      opts |-> job.opts, by |-> "daemon"]))
                      /\ Answer("none") /\ UNCHANGED <<dirs, made, touched>>
           \/ DoUnmount /\ Busy(job.dir) /\ MountsBecome(RemoveAt(mounts, Topmost(job.dir)))
                        /\ pc' = "tidy" /\ UNCHANGED <<job, reply, refused>>
<1>1. ASSUME NEW p \in Paths, invoke_unmount(p) \/ invoke_poweroff(p) \/ \E r \in Requests : invoke_mount(p, r)
      PROVE  UNCHANGED mounts
  BY <1>1 DEF invoke_unmount, invoke_poweroff, invoke_mount
<1>2. ASSUME NEW p \in Paths, Plug(p) \/ Unplug(p) \/ \E c \in Altered : Alter(p, c)
      PROVE  UNCHANGED mounts
  BY <1>2 DEF Plug, Unplug, Alter
<1>3. CASE Round \/ EndRound \/ MakeDir \/ MountFailed \/ Tidy \/ PoweroffRemove \/ Exit \/ invoke_unmount_all \/ Finish
  BY <1>3 DEF Round, EndRound, MakeDir, MountFailed, Tidy, PoweroffRemove, Exit, invoke_unmount_all, Finish
<1>4. CASE DoMount
  BY <1>4 DEF DoMount
<1>5. CASE DoUnmount
  BY <1>5 DEF DoUnmount
<1>6. CASE UNCHANGED vars
  BY <1>6 DEF vars
<1> QED
  BY <1>1, <1>2, <1>3, <1>4, <1>5, <1>6 DEF Next, Others, Daemon, Terminated

LEMMA OthersFrame ==
    ASSUME Others
    PROVE  UNCHANGED <<media, main, pc, job, reply, commands, made, refused, late>> /\ pc # "exit"
  BY DEF Others, OtherMounts, OtherUnmounts, Plug, Unplug, Alter, Other

LEMMA ShapeStep ==
    ASSUME Inv, [Next]_vars
    PROVE  ShapeInv'
<1>0. ShapeInv /\ Sequence(mounts) /\ Sequence(queue)
  BY DEF Inv, ShapeInv
<1> DEFINE EventOK(e) ==
              /\ e.path \in DOMAIN Attached /\ e.action \in {"add", "remove", "change"}
              /\ e.action # "remove" => e.content \in Contents
<1>1. Sequence(mounts')
  <2>1. ASSUME NEW p \in Paths, NEW d \in Dirs, OtherMounts(p, d)
        PROVE  Sequence(mounts')
    BY <1>0, <2>1, MountEntries DEF OtherMounts
  <2>2. ASSUME NEW d \in Dirs, OtherUnmounts(d)
        PROVE  Sequence(mounts')
    BY <1>0, <2>2, UmountEntries DEF OtherUnmounts
  <2>3. ASSUME NEW e, MountsBecome(Append(mounts, e))
        PROVE  Sequence(mounts')
    BY <1>0, <2>3, MountEntries
  <2>4. ASSUME NEW d, Busy(d), MountsBecome(RemoveAt(mounts, Topmost(d)))
        PROVE  Sequence(mounts')
    BY <1>0, <2>4, UmountEntries
  <2> QED
    BY <1>0, <2>1, <2>2, <2>3, <2>4, MountsStep
<1>2. Sequence(queue') /\ \A k \in DOMAIN queue' : EventOK(queue'[k])
  <2>0. \A k \in DOMAIN queue : EventOK(queue[k])
    BY <1>0 DEF ShapeInv
  <2>1. CASE UNCHANGED queue
    BY <1>0, <2>0, <2>1
  <2>2. ASSUME NEW gone \in SUBSET attached, Detach(gone)
        PROVE  Sequence(queue') /\ \A k \in DOMAIN queue' : EventOK(queue'[k])
    <3>1. gone \subseteq DOMAIN Attached
      BY DEF Inv, WholeInv, Whole
    <3> QED
      BY <2>0, <2>2, <3>1, DetachFacts DEF Grows
  <2>8. ASSUME NEW p \in Paths, Plug(p)
        PROVE  Sequence(queue') /\ \A k \in DOMAIN queue' : EventOK(queue'[k])
    BY <2>0, <2>8, PlugFacts DEF Grows
  <2>3. ASSUME NEW p \in Paths, Unplug(p)
        PROVE  Sequence(queue') /\ \A k \in DOMAIN queue' : EventOK(queue'[k])
    BY <2>2, <2>3 DEF Unplug
  <2>4. ASSUME NEW p \in Paths, NEW c \in Altered, Alter(p, c)
        PROVE  Sequence(queue') /\ \A k \in DOMAIN queue' : EventOK(queue'[k])
    <3> DEFINE e == [action |-> "change", path |-> p, content |-> c]
    <3>1. queue' = Append(queue, e)
      BY <2>4 DEF Alter
    <3>2. EventOK(e)
      BY <2>4, MountingAssumption DEF Alter, Inv, WholeInv, Whole
    <3> HIDE DEF e, EventOK
    <3> QED
      BY <1>0, <2>0, <3>1, <3>2, AppendFacts
  <2>5. CASE Round
    <3>1. CASE queue # <<>>
      <4>1. queue' = Tail(queue)
        BY <2>5, <3>1 DEF Round
      <4> HIDE DEF EventOK
      <4> QED
        BY <1>0, <2>0, <3>1, <4>1, TailFacts
    <3> QED
      BY <2>1, <2>5, <3>1 DEF Round
  <2>6. CASE PoweroffRemove
    BY <2>1, <2>2, <2>6 DEF PoweroffRemove
  <2>7. \/ UNCHANGED queue \/ Round \/ PoweroffRemove
        \/ \E p \in Paths : Plug(p) \/ Unplug(p) \/ \E c \in Altered : Alter(p, c)
    BY DEF Next, Others, Daemon, Terminated, OtherMounts, OtherUnmounts, EndRound, invoke_unmount,
       invoke_poweroff, invoke_mount, MakeDir, DoMount, MountFailed, DoUnmount, Tidy, Exit,
       invoke_unmount_all, Finish, vars, world
  <2> QED
    BY <2>1, <2>3, <2>4, <2>5, <2>6, <2>7, <2>8
<1> QED
  BY <1>1, <1>2 DEF ShapeInv

LEMMA PhaseStep ==
    ASSUME Inv, [Next]_vars
    PROVE  PhaseInv'
<1>0. PhaseInv /\ TypeOK
  BY DEF Inv
<1>a. MountDir \subseteq Dirs /\ NULL \notin Dirs
  BY MountingAssumption
<1>1. ASSUME NEW p \in Paths, NEW r \in Requests, invoke_mount(p, r)
      PROVE  PhaseInv'
  <2>1. /\ UNCHANGED <<media, main>> /\ pc = "clients"
        /\ \/ pc' = "clients"
           \/ pc' = "mkdir" /\ job'.path = p /\ job'.dir \in MountDir
    BY <1>1, InvokeMount
  <2> QED
    BY <1>0, <1>a, <2>1 DEF PhaseInv, main
<1>2. ASSUME NEW p \in Paths, invoke_unmount(p)
      PROVE  PhaseInv'
  <2>1. /\ UNCHANGED <<media, main>> /\ pc = "clients"
        /\ \/ pc' = "clients"
           \/ pc' = "umount" /\ job'.path = p /\ job'.dir \in Dirs
    BY <1>0, <1>2, InvokeUnmount DEF TypeOK
  <2> QED
    BY <1>0, <2>1 DEF PhaseInv, main
<1>3. ASSUME NEW p \in Paths, invoke_poweroff(p)
      PROVE  PhaseInv'
  <2>1. /\ UNCHANGED <<media, main>> /\ pc = "clients"
        /\ pc' = "clients" \/ (pc' = "remove" /\ job'.path = p)
    BY <1>3, InvokePoweroff
  <2> QED
    BY <1>0, <2>1 DEF PhaseInv, main
<1>4. CASE Others
  BY <1>0, <1>4, OthersFrame DEF PhaseInv, main
<1>5. CASE EndRound \/ MakeDir \/ DoMount \/ MountFailed \/ PoweroffRemove
  BY <1>0, <1>5 DEF PhaseInv, EndRound, MakeDir, DoMount, MountFailed, PoweroffRemove, Answer, main
<1>11. CASE Round
  <2>1. rest' = <<>> /\ ToSet(rest') = {}
    BY <1>0, <1>11 DEF PhaseInv, Round, main, ToSet
  <2> QED
    BY <1>0, <1>11, <2>1 DEF PhaseInv, Round, main
<1>6. CASE DoUnmount \/ Tidy
  BY <1>0, <1>6 DEF PhaseInv, DoUnmount, Tidy, Return, Answer, main
<1>7. CASE Exit
  BY <1>0, <1>7, ExitFacts DEF PhaseInv, Exit
<1>10. CASE Finish
  <2>1. ToSet(rest') = {}
    BY <1>10 DEF Finish, main, ToSet
  <2> QED
    BY <1>0, <1>10, <2>1 DEF PhaseInv, Finish, main
<1>8. CASE invoke_unmount_all
  <2> DEFINE n == media[Head(rest)]
  <2>1. n.path \in Paths /\ n.mnt_point \in Dirs \cup {NULL}
    BY <1>0, <1>8 DEF TypeOK, invoke_unmount_all
  <2>2. Sequence(rest) /\ rest # <<>> /\ rest' = Tail(rest)
    BY <1>0, <1>8, SequenceOf DEF TypeOK, invoke_unmount_all
  <2>3. ToSet(rest) = ToSet(rest') \cup {Head(rest)}
    BY <2>2, TailFacts
  <2>4. n.mnt_point # NULL
    BY <1>0, <2>3 DEF PhaseInv
  <2> QED
    BY <1>0, <1>8, <2>1, <2>3, <2>4 DEF PhaseInv, invoke_unmount_all
<1>9. CASE UNCHANGED vars
  BY <1>0, <1>9 DEF PhaseInv, vars, main
<1> QED
  BY <1>1, <1>2, <1>3, <1>4, <1>5, <1>6, <1>7, <1>8, <1>9, <1>10, <1>11 DEF Next, Daemon, Terminated

LEMMA PlaceStep ==
    ASSUME Inv, [Next]_vars
    PROVE  PlaceInv'
<1>0. TypeOK /\ PlaceInv /\ PhaseInv /\ Sequence(mounts)
  BY DEF Inv, ShapeInv
<1> DEFINE At(m, d) == \E k \in DOMAIN m : m[k].dir = d
           Apart(m) == \A j, k \in DOMAIN m :
               j # k /\ m[j].by = "daemon" /\ m[k].by = "daemon" => m[j].dir # m[k].dir
<1>a. /\ \A d : Busy(d) <=> At(mounts, d)
      /\ \A d : Busy(d)' <=> At(mounts', d)
      /\ (MountsApart <=> Apart(mounts)) /\ (MountsApart' <=> Apart(mounts'))
  BY DEF Busy, MountsApart
<1>1. ASSUME UNCHANGED <<mounts, made, touched>>,
             pc' \in {"mkdir", "mount"} =>
                 \/ pc = pc' /\ job' = job
                 \/ pc = "mkdir" /\ job' = job
                 \/ ~Busy(job'.dir),
             pc \in {"mount", "rmdir", "tidy"} => pc' \in {"mount", "rmdir", "tidy"} /\ job' = job
      PROVE  PlaceInv'
  <2>1. MountsApart' /\ \A d : Busy(d)' <=> Busy(d)
    BY <1>0, <1>1, <1>a DEF PlaceInv
  <2>2. \A k \in DOMAIN mounts' : mounts'[k].by = "other" => mounts'[k].dir \in touched'
    BY <1>0, <1>1 DEF PlaceInv
  <2>3. pc' \in {"mkdir", "mount"} =>
            \A k \in DOMAIN mounts' : mounts'[k].dir = job'.dir => mounts'[k].by = "other"
    BY <1>0, <1>1 DEF PlaceInv, Busy
  <2>4. \A d \in made' :
            Busy(d)' \/ d \in touched' \/ (pc' \in {"mount", "rmdir", "tidy"} /\ d = job'.dir)
    BY <1>0, <1>1, <2>1 DEF PlaceInv
  <2> QED
    BY <2>1, <2>2, <2>3, <2>4 DEF PlaceInv
<1>2. ASSUME NEW p \in Paths, NEW d \in Dirs, OtherMounts(p, d)
      PROVE  PlaceInv'
  <2> DEFINE e == [dev |-> p, dir |-> d, opts |-> <<>>, by |-> "other"]
  <2>1. MountsBecome(Append(mounts, e)) /\ touched' = touched \cup {d} /\ UNCHANGED <<pc, job, made>>
    BY <1>2 DEF OtherMounts, Other
  <2>2. /\ \A k \in DOMAIN mounts' : (k \in DOMAIN mounts /\ mounts'[k] = mounts[k]) \/ mounts'[k] = e
        /\ \A j \in DOMAIN mounts : j \in DOMAIN mounts' /\ mounts'[j] = mounts[j]
    BY <1>0, <2>1, MountEntries
  <2>3. e.by = "other" /\ e.dir = d
    OBVIOUS
  <2> HIDE DEF e
  <2>4. Apart(mounts')
    BY <1>0, <1>a, <2>2, <2>3 DEF PlaceInv
  <2>5. \A x : Busy(x) => Busy(x)'
    BY <1>a, <2>2
  <2> HIDE DEF Apart, At
  <2> QED
    BY <1>0, <1>a, <2>1, <2>2, <2>3, <2>4, <2>5 DEF PlaceInv
<1>3. ASSUME NEW d \in Dirs, OtherUnmounts(d)
      PROVE  PlaceInv'
  <2>1. /\ MountsBecome(RemoveAt(mounts, Topmost(d))) /\ Busy(d)
        /\ touched' = touched \cup {d} /\ UNCHANGED <<pc, job, made>>
    BY <1>3 DEF OtherUnmounts, Other
  <2>2. /\ \A k \in DOMAIN mounts' : \E j \in DOMAIN mounts : mounts'[k] = mounts[j]
        /\ \A j \in DOMAIN mounts : mounts[j].dir # d => \E k \in DOMAIN mounts' : mounts'[k] = mounts[j]
        /\ \A k, l \in DOMAIN mounts' : k # l =>
              \E j, h \in DOMAIN mounts : j # h /\ mounts'[k] = mounts[j] /\ mounts'[l] = mounts[h]
    BY <1>0, <2>1, UmountEntries
  <2>3. Apart(mounts')
    BY <1>0, <1>a, <2>2 DEF PlaceInv
  <2>4. \A x : Busy(x) => Busy(x)' \/ x = d
    BY <1>a, <2>2
  <2> HIDE DEF Apart, At
  <2> QED
    BY <1>0, <1>a, <2>1, <2>2, <2>3, <2>4 DEF PlaceInv
<1>4. CASE DoMount /\ MountsBecome(Append(mounts, [dev |-> job.path, dir |-> job.dir,
                                                   opts |-> job.opts, by |-> "daemon"]))
                   /\ Answer("none") /\ UNCHANGED <<dirs, made, touched>>
  <2> DEFINE e == [dev |-> job.path, dir |-> job.dir, opts |-> job.opts, by |-> "daemon"]
  <2>1. /\ MountsBecome(Append(mounts, e)) /\ pc = "mount" /\ pc' = "clients" /\ UNCHANGED <<made, touched>>
    BY <1>4 DEF DoMount, Answer
  <2>2. /\ \A k \in DOMAIN mounts' : (k \in DOMAIN mounts /\ mounts'[k] = mounts[k]) \/ mounts'[k] = e
        /\ \A k, l \in DOMAIN mounts' : k # l => k \in DOMAIN mounts \/ l \in DOMAIN mounts
        /\ \A j \in DOMAIN mounts : j \in DOMAIN mounts' /\ mounts'[j] = mounts[j]
        /\ \E k \in DOMAIN mounts' : mounts'[k] = e
    BY <1>0, <2>1, MountEntries
  <2>3. e.by = "daemon" /\ e.dir = job.dir
    OBVIOUS
  <2> HIDE DEF e
  <2>4. \A k \in DOMAIN mounts : mounts[k].by = "daemon" => mounts[k].dir # job.dir
    BY <1>0, <2>1 DEF PlaceInv
  <2>5. Apart(mounts')
    BY <1>0, <1>a, <2>2, <2>3, <2>4 DEF PlaceInv
  <2>6. \A x : Busy(x) \/ x = job.dir => Busy(x)'
    BY <1>a, <2>2, <2>3
  <2>7. \A k \in DOMAIN mounts' : mounts'[k].by = "other" => mounts'[k].dir \in touched'
    BY <1>0, <2>1, <2>2, <2>3 DEF PlaceInv
  <2> HIDE DEF Apart, At
  <2> QED
    BY <1>0, <1>a, <2>1, <2>5, <2>6, <2>7 DEF PlaceInv
<1>5. CASE DoUnmount /\ Busy(job.dir) /\ MountsBecome(RemoveAt(mounts, Topmost(job.dir)))
                     /\ pc' = "tidy" /\ UNCHANGED <<job, reply, refused>>
  <2>1. pc = "umount" /\ UNCHANGED <<made, touched, job>>
    BY <1>5 DEF DoUnmount
  <2>2. /\ \A k \in DOMAIN mounts' : \E j \in DOMAIN mounts : mounts'[k] = mounts[j]
        /\ \A j \in DOMAIN mounts : mounts[j].dir # job.dir => \E k \in DOMAIN mounts' : mounts'[k] = mounts[j]
        /\ \A k, l \in DOMAIN mounts' : k # l =>
              \E j, h \in DOMAIN mounts : j # h /\ mounts'[k] = mounts[j] /\ mounts'[l] = mounts[h]
    BY <1>0, <1>5, UmountEntries
  <2>3. Apart(mounts')
    BY <1>0, <1>a, <2>2 DEF PlaceInv
  <2>4. \A x : Busy(x) => Busy(x)' \/ x = job.dir
    BY <1>a, <2>2
  <2> HIDE DEF Apart, At
  <2> QED
    BY <1>0, <1>5, <1>a, <2>1, <2>2, <2>3, <2>4 DEF PlaceInv
<1>6. CASE MakeDir
  <2>1. CASE /\ pc' = "mount" /\ UNCHANGED <<job, reply>>
             /\ made' = IF job.dir \in dirs THEN made ELSE made \cup {job.dir}
    <3>1. UNCHANGED <<mounts, touched, job>> /\ pc = "mkdir"
      BY <1>6, <2>1 DEF MakeDir
    <3>2. MountsApart' /\ \A d : Busy(d)' <=> Busy(d)
      BY <1>0, <1>a, <3>1 DEF PlaceInv
    <3> QED
      BY <1>0, <2>1, <3>1, <3>2 DEF PlaceInv
  <2>2. CASE ~(pc' = "mount" /\ UNCHANGED <<job, reply>>
               /\ made' = IF job.dir \in dirs THEN made ELSE made \cup {job.dir})
    <3>1. UNCHANGED <<mounts, touched, made>> /\ pc = "mkdir" /\ pc' = "clients"
      BY <1>6, <2>2 DEF MakeDir, Answer
    <3> QED
      BY <1>1, <3>1
  <2> QED
    BY <2>1, <2>2
<1>7. CASE MountFailed \/ Tidy
  <2>1. /\ RemoveDir(job.dir) /\ UNCHANGED mounts /\ pc \in {"rmdir", "tidy"}
        /\ pc' \in {"clients", "unmount_all"}
    BY <1>7 DEF MountFailed, Tidy, Answer, Return
  <2>2. MountsApart' /\ \A d : Busy(d)' <=> Busy(d)
    BY <1>0, <1>a, <2>1 DEF PlaceInv
  <2>3. CASE Busy(job.dir)
    BY <1>0, <2>1, <2>2, <2>3 DEF PlaceInv, RemoveDir
  <2>4. CASE ~Busy(job.dir)
    <3>1. \A k \in DOMAIN mounts : mounts[k].dir # job.dir
      BY <2>4 DEF Busy
    <3>2. made' = made \ {job.dir} /\ touched' = touched \ {job.dir}
      BY <2>1, <2>4 DEF RemoveDir
    <3> QED
      BY <1>0, <2>1, <2>2, <3>1, <3>2 DEF PlaceInv
  <2> QED
    BY <2>3, <2>4
<1>8. CASE Finish
  <2>1. UNCHANGED <<mounts, touched>> /\ pc' = "exit" /\ made' \subseteq made /\ pc = "unmount_all"
    BY <1>8 DEF Finish
  <2>2. MountsApart' /\ \A d : Busy(d)' <=> Busy(d)
    BY <1>0, <1>a, <2>1 DEF PlaceInv
  <2> QED
    BY <1>0, <2>1, <2>2 DEF PlaceInv
<1>9. ASSUME NEW p \in Paths, NEW r \in Requests, invoke_mount(p, r)
      PROVE  PlaceInv'
  <2>1. /\ UNCHANGED <<mounts, made, touched>> /\ pc = "clients"
        /\ pc' = "clients" \/ (pc' = "mkdir" /\ ~Busy(job'.dir))
    BY <1>9, InvokeMount DEF history
  <2> QED
    BY <1>1, <2>1
<1>10. ASSUME NEW p \in Paths, invoke_unmount(p) \/ invoke_poweroff(p)
       PROVE  PlaceInv'
  <2>1. /\ UNCHANGED <<mounts, made, touched>> /\ pc = "clients"
        /\ pc' \in {"clients", "umount", "remove"}
    BY <1>10, InvokeUnmount, InvokePoweroff DEF history
  <2> QED
    BY <1>1, <2>1
<1>11. ASSUME NEW p \in Paths, Plug(p) \/ Unplug(p) \/ \E c \in Altered : Alter(p, c)
       PROVE  PlaceInv'
  BY <1>1, <1>11 DEF Plug, Unplug, Alter, Other
<1>12. CASE Round \/ EndRound \/ PoweroffRemove \/ Exit \/ invoke_unmount_all
  BY <1>1, <1>12 DEF Round, EndRound, PoweroffRemove, Exit, invoke_unmount_all, Answer, history
<1>13. CASE DoMount
  BY <1>1, <1>4, <1>13 DEF DoMount
<1>14. CASE DoUnmount
  <2>1. CASE UNCHANGED mounts /\ (Return("generic_error") \/ Return("mount_point_busy"))
    BY <1>1, <1>14, <2>1 DEF DoUnmount, Return, Answer
  <2> QED
    BY <1>5, <1>14, <2>1 DEF DoUnmount
<1>15. CASE UNCHANGED vars
  BY <1>1, <1>15 DEF vars, history
<1> QED
  BY <1>2, <1>3, <1>6, <1>7, <1>8, <1>9, <1>10, <1>11, <1>12, <1>13, <1>14, <1>15
     DEF Next, Others, Daemon, Terminated

\* The list changes only in a round and at the end, and a change of the mounts is
\* an event.
LEMMA MediaStep ==
    ASSUME Inv, [Next]_vars
    PROVE  \/ Round
           \/ Finish /\ media' = <<>> /\ UNCHANGED <<mounts, mount_event>>
           \/ /\ UNCHANGED <<media, late>>
              /\ (mount_event' = TRUE) \/ UNCHANGED <<mounts, mount_event>>
<1>1. CASE Finish
  BY <1>1 DEF Finish
<1>2. CASE Others
  BY <1>2, OthersFrame DEF Others, OtherMounts, OtherUnmounts, Plug, Unplug, Alter, MountsBecome
<1>3. ASSUME NEW p \in Paths, invoke_unmount(p) \/ invoke_poweroff(p) \/ \E r \in Requests : invoke_mount(p, r)
      PROVE  UNCHANGED <<media, late, mounts, mount_event>>
  BY <1>3 DEF invoke_unmount, invoke_poweroff, invoke_mount, history
<1>4. CASE EndRound \/ MakeDir \/ MountFailed \/ Tidy \/ PoweroffRemove \/ Exit \/ invoke_unmount_all
  BY <1>4 DEF EndRound, MakeDir, MountFailed, Tidy, PoweroffRemove, Exit, invoke_unmount_all, history
<1>5. CASE DoMount \/ DoUnmount
  BY <1>5 DEF DoMount, DoUnmount, MountsBecome
<1>6. CASE UNCHANGED vars
  BY <1>6 DEF vars, history
<1> QED
  BY <1>1, <1>2, <1>3, <1>4, <1>5, <1>6 DEF Next, Daemon, Terminated

LEMMA ListStep ==
    ASSUME Inv, [Next]_vars
    PROVE  ListInv'
<1>0. ListInv
  BY DEF Inv
<1>1. CASE Round
  <2>1. ListOK(media') /\ Shows(media', mounts, late') /\ UNCHANGED mounts
    BY <1>1, RoundFacts DEF Round
  <2>2. Shows(media', mounts', late')
    BY <2>1
  <2> QED
    BY <2>1, <2>2 DEF ListInv
<1>2. CASE media' = <<>>
  <2>1. ListOK(<<>>)
    BY DEF ListOK, Sequence, Distinct, Tree, Ordered, ToSet
  <2>2. Shows(<<>>, mounts', late')
    BY DEF Shows
  <2>3. ListOK(media') /\ Shows(media', mounts', late')
    BY <1>2, <2>1, <2>2
  <2> QED
    BY <2>3 DEF ListInv
<1>3. CASE UNCHANGED <<media, late>> /\ ((mount_event' = TRUE) \/ UNCHANGED <<mounts, mount_event>>)
  <2>1. ListOK(media')
    BY <1>0, <1>3 DEF ListInv
  <2>2. mount_event' \/ Shows(media', mounts', late')
    BY <1>0, <1>3 DEF ListInv
  <2> QED
    BY <2>1, <2>2 DEF ListInv
<1> QED
  BY <1>1, <1>2, <1>3, MediaStep

\* What a disk and its partitions are.
LEMMA DisksFacts ==
    ASSUME NEW q \in DOMAIN Attached
    PROVE  /\ q \in Paths /\ DiskOf(q) \in DOMAIN Attached /\ DiskOf(DiskOf(q)) = DiskOf(q)
           /\ IsPartition(q) => ParentOf[q] = DiskOf(q)
           /\ \A p \in Paths : ~IsPartition(p) => (q \in Subtree(p) <=> DiskOf(q) = p)
<1>1. q \in Paths /\ (IsPartition(q) => ParentOf[q] \in DOMAIN Attached)
  BY MountingAssumption
<1>2. DiskOf(q) \in DOMAIN Attached /\ (IsPartition(q) => ParentOf[q] = DiskOf(q))
  BY <1>1 DEF DiskOf
<1>3. DiskOf(DiskOf(q)) = DiskOf(q)
  BY <1>1, DiskFacts DEF DiskOf
<1>4. ASSUME NEW p \in Paths, ~IsPartition(p)
      PROVE  q \in Subtree(p) <=> DiskOf(q) = p
  BY <1>1, <1>4, PathAssumption DEF Subtree, DiskOf, IsPartition
<1> QED
  BY <1>1, <1>2, <1>3, <1>4

\* How the devices and the events change.
LEMMA AttachedStep ==
    ASSUME Inv, [Next]_vars
    PROVE  \/ UNCHANGED <<attached, queue, media>> /\ (pc' # "exit" => pc # "exit")
           \/ UNCHANGED attached /\ pc' = "exit"
           \/ Round
           \/ \E p \in Paths : Plug(p)
           \/ \E p \in Paths, c \in Altered : Alter(p, c)
           \/ \E gone \in SUBSET attached :
                 Whole(gone) /\ Detach(gone) /\ UNCHANGED media /\ pc # "exit"
<1>0. Whole(attached) /\ attached \subseteq DOMAIN Attached
  BY DEF Inv, WholeInv, Whole
<1>1. ASSUME NEW p \in Paths, Unplug(p)
      PROVE  \E gone \in SUBSET attached :
                 Whole(gone) /\ Detach(gone) /\ UNCHANGED media /\ pc # "exit"
  <2> DEFINE gone == attached \cap Subtree(p)
  <2>1. Detach(gone) /\ ~IsPartition(p) /\ UNCHANGED media /\ pc # "exit"
    BY <1>1 DEF Unplug, Other
  <2>2. \A q \in DOMAIN Attached : q \in gone <=> DiskOf(q) \in gone
    <3> TAKE q \in DOMAIN Attached
    <3>1. q \in Subtree(p) <=> DiskOf(q) = p
      BY <2>1, DisksFacts
    <3>2. DiskOf(q) \in DOMAIN Attached /\ DiskOf(DiskOf(q)) = DiskOf(q)
      BY DisksFacts
    <3>3. DiskOf(q) \in Subtree(p) <=> DiskOf(q) = p
      BY <2>1, <3>2, DisksFacts
    <3> QED
      BY <1>0, <3>1, <3>3 DEF Whole
  <2>3. Whole(gone)
    BY <1>0, <2>2 DEF Whole
  <2> HIDE DEF gone
  <2>4. gone \in SUBSET attached
    BY DEF gone
  <2> QED
    BY <2>1, <2>3, <2>4
<1>2. CASE PoweroffRemove /\ ~UNCHANGED <<attached, queue>>
  <2> DEFINE gone == {p \in attached : \E disk \in Paths :
                         p \in Subtree(disk) /\ ~IsPartition(disk) /\ Sysfs[disk] = Sysfs[job.path]}
  <2>1. Detach(gone) /\ UNCHANGED media /\ pc # "exit"
    BY <1>2 DEF PoweroffRemove
  <2>2. ASSUME NEW q \in DOMAIN Attached
        PROVE  q \in gone <=> q \in attached /\ Sysfs[DiskOf(q)] = Sysfs[job.path]
    <3>1. q \in Paths /\ DiskOf(q) \in Paths /\ ~IsPartition(DiskOf(q))
      BY DisksFacts, DiskFacts
    <3>2. \A disk \in Paths : ~IsPartition(disk) => (q \in Subtree(disk) <=> DiskOf(q) = disk)
      BY DisksFacts
    <3> QED
      BY <3>1, <3>2
  <2>3. \A q \in DOMAIN Attached : q \in gone <=> DiskOf(q) \in gone
    <3> TAKE q \in DOMAIN Attached
    <3>1. DiskOf(q) \in DOMAIN Attached /\ DiskOf(DiskOf(q)) = DiskOf(q)
      BY DisksFacts
    <3> HIDE DEF gone
    <3> QED
      BY <1>0, <2>2, <3>1 DEF Whole
  <2>4. Whole(gone) /\ gone \in SUBSET attached
    BY <1>0, <2>3 DEF Whole
  <2> HIDE DEF gone
  <2> QED
    BY <2>1, <2>4
<1>3. CASE PoweroffRemove /\ UNCHANGED <<attached, queue>>
  BY <1>3 DEF PoweroffRemove
<1>4. CASE Finish
  BY <1>4 DEF Finish
<1>5. CASE \/ \E p \in Paths, d \in Dirs : OtherMounts(p, d)
           \/ \E d \in Dirs : OtherUnmounts(d)
  BY <1>5 DEF OtherMounts, OtherUnmounts, Other, world
<1>6. CASE \E p \in Paths : invoke_unmount(p) \/ invoke_poweroff(p) \/ \E r \in Requests : invoke_mount(p, r)
  BY <1>6 DEF invoke_unmount, invoke_poweroff, invoke_mount, Command, world
<1>7. CASE EndRound \/ MakeDir \/ DoMount \/ MountFailed \/ DoUnmount \/ Tidy \/ Exit \/ invoke_unmount_all
  BY <1>7 DEF EndRound, MakeDir, DoMount, MountFailed, DoUnmount, Tidy, Exit, invoke_unmount_all, world
<1>8. CASE UNCHANGED vars
  BY <1>8 DEF vars, world
<1> QED
  BY <1>1, <1>2, <1>3, <1>4, <1>5, <1>6, <1>7, <1>8 DEF Next, Others, Daemon, Terminated

\* What comes when a disk is plugged in, of which nothing was there.
LEMMA PlugWhole ==
    ASSUME Inv, NEW p \in Paths, Plug(p)
    PROVE  LET new == DOMAIN Attached \cap Subtree(p)
           IN  Whole(new) /\ \A q \in new : q \notin attached
<1> DEFINE new == DOMAIN Attached \cap Subtree(p)
<1>0. Whole(attached) /\ p \notin attached /\ ~IsPartition(p)
  BY DEF Inv, WholeInv, Plug
<1>1. ASSUME NEW q \in DOMAIN Attached
      PROVE  (q \in new <=> DiskOf(q) = p) /\ (q \in new <=> DiskOf(q) \in new)
  <2>1. DiskOf(q) \in DOMAIN Attached /\ DiskOf(DiskOf(q)) = DiskOf(q)
    BY DisksFacts
  <2>2. (q \in Subtree(p) <=> DiskOf(q) = p) /\ (DiskOf(q) \in Subtree(p) <=> DiskOf(q) = p)
    BY <1>0, <2>1, DisksFacts
  <2> QED
    BY <2>1, <2>2
<1>2. \A q \in new : q \in DOMAIN Attached
  OBVIOUS
<1> HIDE DEF new
<1> QED
  BY <1>0, <1>1, <1>2 DEF Whole, new

LEMMA WholeStep ==
    ASSUME Inv, [Next]_vars
    PROVE  WholeInv'
<1>0. Whole(attached)
  BY DEF Inv, WholeInv
<1>1. CASE UNCHANGED attached
  BY <1>0, <1>1 DEF WholeInv
<1>2. ASSUME NEW p \in Paths, Plug(p)
      PROVE  WholeInv'
  <2> DEFINE new == DOMAIN Attached \cap Subtree(p)
  <2>1. Whole(new) /\ attached' = attached \cup new
    BY <1>2, PlugWhole DEF Plug
  <2> HIDE DEF new
  <2>2. Whole(attached \cup new)
    BY <1>0, <2>1 DEF Whole
  <2> QED
    BY <2>1, <2>2 DEF WholeInv
<1>3. ASSUME NEW gone \in SUBSET attached, Whole(gone), Detach(gone)
      PROVE  WholeInv'
  <2>1. attached' = attached \ gone
    BY <1>3 DEF Detach
  <2>2. Whole(attached \ gone)
    BY <1>0, <1>3 DEF Whole
  <2> QED
    BY <2>1, <2>2 DEF WholeInv
<1>4. CASE Round \/ \E p \in Paths, c \in Altered : Alter(p, c)
  BY <1>1, <1>4 DEF Round, Alter
<1> QED
  BY <1>1, <1>2, <1>3, <1>4, AttachedStep

\* A round takes one event from the queue and brings the list on by it.
LEMMA QueuesRound ==
    ASSUME Inv, Round, NEW p \in DOMAIN Attached
    PROVE  Queues(queue', media', attached, p)
<1> DEFINE w == queue
           t == Tail(queue)
           e == Head(queue)
           q == e.path
<1>0. /\ Queues(w, media, attached, p) /\ pc # "exit" /\ Sequence(w) /\ Whole(attached)
      /\ Sequence(media) /\ \A x \in DOMAIN Attached : Queues(w, media, attached, x)
  BY DEF Inv, PluggedInv, ShapeInv, Round, WholeInv, ListInv, ListOK
<1>1. \A x : Listed(media', x) <=> Listed(Updated, x)
  BY RoundFacts
<1>2. CASE w = <<>>
  <2>1. queue' = w /\ Updated = media
    BY <1>2 DEF Round, Updated
  <2> QED
    BY <1>0, <1>1, <2>1 DEF Queues
<1>3. CASE w # <<>>
  <2>1. queue' = t /\ Updated = AfterEvent(e)
    BY <1>3 DEF Round, Updated
  <2>2. /\ e = w[1] /\ 1 \in DOMAIN w
        /\ q \in DOMAIN Attached /\ q \in Paths /\ e.action \in {"add", "remove", "change"}
        /\ \A x : Listed(media', x) <=>
              \/ Listed(media, x) /\ ~(e.action = "remove" /\ (x = q \/ x \in Subtree(q)))
              \/ x = q /\ e.action = "add" /\ Counts(e)
    BY <1>0, <1>1, <1>3, <2>1, EventFacts
  <2>3. /\ Parted(w, p) => Parted(t, p)
        /\ Undone(w, p) => Undone(t, p)
        /\ Follows(w, p) => Follows(t, p)
        /\ Returns(w, p) => Returns(t, p)
        /\ Returns(w, p) /\ Is(w, 1, "remove", ParentOf[p]) => Back(t, p)
        /\ Back(w, p) => Back(t, p) \/ (Final(w, 1, p) /\ ~Queued(t, "remove", p))
        /\ Queued(t, "remove", p) => Queued(w, "remove", p)
        /\ Queued(w, "remove", p) => Queued(t, "remove", p) \/ Is(w, 1, "remove", p)
        /\ Preceded(w, p) => ~Is(w, 1, "add", p)
        /\ Preceded(w, p) /\ ~Is(w, 1, "remove", p) => Preceded(t, p)
        /\ Parted(w, p) /\ Is(w, 1, "add", p) => Preceded(t, p)
    BY <1>0, <1>3, PopOrder
  <2>4. \A a, x : Is(w, 1, a, x) <=> e.action = a /\ q = x
    BY <2>2 DEF Is
  <2>5. p \in Paths /\ ParentOf[p] # p /\ (IsPartition(p) => ParentOf[p] \in DOMAIN Attached)
    <3>1. p \in Paths /\ (IsPartition(p) => ParentOf[p] \in DOMAIN Attached)
      BY MountingAssumption
    <3> QED
      BY <3>1, PathAssumption
  <2> HIDE DEF w, t, e, q
  <2>6. ASSUME Listed(media', p) PROVE Preceded(t, p)
    <3>1. CASE Listed(media, p) /\ ~(e.action = "remove" /\ (p = q \/ p \in Subtree(q)))
      BY <1>0, <2>3, <2>4, <3>1 DEF Queues
    <3>2. CASE p = q /\ e.action = "add"
      BY <1>0, <2>3, <2>4, <3>2 DEF Queues
    <3> QED
      BY <2>2, <2>6, <3>1, <3>2
  <2>7. ASSUME p \in attached PROVE Back(t, p) \/ (Listed(media', p) /\ ~Queued(t, "remove", p))
    <3>1. CASE Back(w, p) /\ ~Back(t, p)
      <4>1. Final(w, 1, p) /\ ~Queued(t, "remove", p) /\ e.action = "add" /\ q = p
        BY <2>3, <2>4, <3>1 DEF Final
      <4>2. Removable(p)
        BY <1>0, <2>7 DEF Removable, Whole
      <4>3. HasParent(media, p)
        <5>1. SUFFICES ASSUME IsPartition(p)
                       PROVE  find_media(media, ParentOf[p]) # 0
          BY DEF HasParent
        <5>2. ParentOf[p] \in attached /\ ParentOf[p] \in DOMAIN Attached
          BY <1>0, <2>5, <2>7, <5>1 DEF Whole, DiskOf
        <5>3. ~Back(w, ParentOf[p])
          <6>1. SUFFICES ASSUME NEW j \in DOMAIN w, Is(w, j, "add", ParentOf[p])
                         PROVE  FALSE
            BY DEF Back, Final
          <6>2. j # 1
            BY <2>4, <2>5, <4>1, <6>1
          <6>3. j \in Nat /\ 1 < j
            BY <1>0, <1>3, <6>1, <6>2, PopFacts DEF w
          <6>4. PICK k \in DOMAIN w : 1 < k /\ Is(w, k, "remove", p)
            BY <1>0, <2>2, <2>4, <4>1, <5>1, <6>1, <6>3 DEF Queues, Follows
          <6>5. k > 1
            BY <1>0, <1>3, <6>4, PopFacts DEF w
          <6> QED
            BY <4>1, <6>4, <6>5 DEF Final
        <5>4. Listed(media, ParentOf[p])
          BY <1>0, <5>2, <5>3 DEF Queues
        <5> QED
          BY <1>0, <5>4, FindFacts DEF Listed
      <4>4. Counts(e)
        BY <4>1, <4>2, <4>3 DEF Counts, q
      <4> QED
        BY <2>2, <4>1, <4>4
    <3>2. CASE Listed(media, p) /\ ~Queued(w, "remove", p)
      <4>1. ~Queued(t, "remove", p)
        BY <2>3, <3>2
      <4>2. ~(e.action = "remove" /\ p = q)
        BY <2>2, <2>4, <3>2 DEF Queued
      <4>3. CASE e.action = "remove" /\ p \in Subtree(q)
        <5>1. ParentOf[p] = q /\ IsPartition(p)
          BY <2>2, <4>2, <4>3, PathAssumption DEF Subtree, IsPartition
        <5> QED
          BY <1>0, <2>3, <2>4, <2>7, <4>3, <5>1 DEF Queues
      <4>4. CASE ~(e.action = "remove" /\ p \in Subtree(q))
        BY <2>2, <3>2, <4>1, <4>2, <4>4
      <4> QED
        BY <4>3, <4>4
    <3> QED
      BY <1>0, <2>7, <3>1, <3>2 DEF Queues
  <2>8. ASSUME p \notin attached PROVE Undone(t, p) /\ (Listed(media', p) => Queued(t, "remove", p))
    <3>1. Undone(t, p)
      BY <1>0, <2>3, <2>8 DEF Queues
    <3>2. ASSUME Listed(media', p) PROVE Queued(t, "remove", p)
      <4>1. ~(p = q /\ e.action = "add" /\ Counts(e))
        BY <1>0, <2>8 DEF Counts, Removable, Whole, q
      <4>2. Listed(media, p) /\ ~(e.action = "remove" /\ p = q)
        BY <2>2, <3>2, <4>1
      <4> QED
        BY <1>0, <2>3, <2>4, <2>8, <4>2 DEF Queues
    <3> QED
      BY <3>1, <3>2
  <2>9. Parted(t, p) /\ (IsPartition(p) => Follows(t, p) /\ (p \in attached => Returns(t, p)))
    BY <1>0, <2>3 DEF Queues
  <2> QED
    BY <2>1, <2>6, <2>7, <2>8, <2>9 DEF Queues
<1> QED
  BY <1>2, <1>3

LEMMA QueuesDetach ==
    ASSUME Inv, pc # "exit", NEW gone \in SUBSET attached, Whole(gone), Detach(gone), NEW p \in DOMAIN Attached
    PROVE  Queues(queue', media, attached', p)
<1> DEFINE w == queue
           u == queue'
<1>0. Queues(w, media, attached, p) /\ Whole(attached)
  BY DEF Inv, PluggedInv, WholeInv
<1>1. /\ attached' = attached \ gone /\ Grows(w, u)
      /\ \A k \in DOMAIN u : k \in DOMAIN w \/ (u[k].action = "remove" /\ u[k].path \in gone)
      /\ \A q \in gone : \E k \in DOMAIN u : k \notin DOMAIN w /\ Is(u, k, "remove", q)
  BY DetachFacts
<1> HIDE DEF w, u
<1>2. /\ \A q : NoNew(w, u, "add", q)
      /\ \A q : q \notin gone => NoNew(w, u, "remove", q)
  BY <1>1 DEF NoNew, Is
<1>3. /\ Parted(w, p) => Parted(u, p)
      /\ Preceded(w, p) => Preceded(u, p)
      /\ Undone(w, p) => Undone(u, p)
      /\ Follows(w, p) => Follows(u, p)
      /\ p \notin gone /\ ParentOf[p] \notin gone /\ Returns(w, p) => Returns(u, p)
      /\ p \notin gone /\ Back(w, p) => Back(u, p)
      /\ Queued(w, "remove", p) => Queued(u, "remove", p)
      /\ p \notin gone /\ ~Queued(w, "remove", p) => ~Queued(u, "remove", p)
  BY <1>1, <1>2, GrowOrder
<1>4. CASE p \in gone
  <2>1. PICK k \in DOMAIN u : k \notin DOMAIN w /\ Is(u, k, "remove", p)
    BY <1>1, <1>4
  <2>2. Undone(u, p)
    <3>1. SUFFICES ASSUME NEW i \in DOMAIN u, Is(u, i, "add", p)
                   PROVE  i < k
      BY <2>1 DEF Undone
    <3>2. i \in DOMAIN w
      BY <1>2, <3>1 DEF NoNew
    <3> QED
      BY <1>1, <2>1, <3>2 DEF Grows
  <2>3. Queued(u, "remove", p) /\ p \notin attached'
    BY <1>1, <1>4, <2>1 DEF Queued
  <2> QED
    BY <1>0, <1>3, <2>2, <2>3 DEF Queues, u
<1>5. CASE p \notin gone
  <2>1. IsPartition(p) => ParentOf[p] \notin gone
    BY <1>5 DEF Whole, DiskOf
  <2> QED
    BY <1>0, <1>1, <1>3, <1>5, <2>1 DEF Queues, u
<1> QED
  BY <1>4, <1>5

LEMMA QueuesPlug ==
    ASSUME Inv, NEW d \in Paths, Plug(d), NEW p \in DOMAIN Attached
    PROVE  Queues(queue', media, attached', p)
<1> DEFINE w == queue
           u == queue'
           new == DOMAIN Attached \cap Subtree(d)
<1>0. Queues(w, media, attached, p)
  BY DEF Inv, PluggedInv, Plug, Other
<1>1. /\ attached' = attached \cup new /\ Grows(w, u)
      /\ \A k \in DOMAIN u : k \in DOMAIN w \/ (u[k].action = "add" /\ u[k].path \in new)
      /\ \A q \in new : \E k \in DOMAIN u : k \notin DOMAIN w /\ Is(u, k, "add", q)
      /\ \A i, j \in DOMAIN u \ DOMAIN w :
            /\ u[i].path = u[j].path => i = j
            /\ IsPartition(u[i].path) /\ u[j].path = ParentOf[u[i].path] => j < i
  BY PlugFacts
<1>2. Whole(new) /\ \A q \in new : q \notin attached
  BY PlugWhole
<1> HIDE DEF w, u, new
<1>3. /\ \A q : NoNew(w, u, "remove", q)
      /\ \A q : q \notin new => NoNew(w, u, "add", q)
  BY <1>1 DEF NoNew, Is
<1>4. /\ \A k \in DOMAIN w : k \in DOMAIN u /\ k \in Nat /\ \A a, q : Is(u, k, a, q) <=> Is(w, k, a, q)
      /\ \A k \in DOMAIN u : k \in Nat /\ (k \in DOMAIN w \/ \A j \in DOMAIN w : j < k)
  BY <1>1 DEF Grows, Is
<1>5. CASE p \notin new
  <2>1. IsPartition(p) => ParentOf[p] \notin new
    BY <1>2, <1>5 DEF Whole, DiskOf
  <2>2. /\ Parted(w, p) => Parted(u, p)
        /\ Preceded(w, p) => Preceded(u, p)
        /\ Undone(w, p) => Undone(u, p)
        /\ IsPartition(p) /\ Follows(w, p) => Follows(u, p)
        /\ Returns(w, p) => Returns(u, p)
        /\ Back(w, p) => Back(u, p)
        /\ Queued(w, "remove", p) => Queued(u, "remove", p)
        /\ ~Queued(w, "remove", p) => ~Queued(u, "remove", p)
    BY <1>1, <1>3, <1>5, <2>1, GrowOrder
  <2> QED
    BY <1>0, <1>1, <1>5, <2>2 DEF Queues, u
<1>6. CASE p \in new
  <2>0. Undone(w, p) /\ (Listed(media, p) => Queued(w, "remove", p)) /\ p \in attached'
    BY <1>0, <1>1, <1>2, <1>6 DEF Queues
  <2>1. PICK n \in DOMAIN u : n \notin DOMAIN w /\ Is(u, n, "add", p)
    BY <1>1, <1>6
  <2>2. Final(u, n, p)
    <3>1. ASSUME NEW j \in DOMAIN u, j > n, Is(u, j, "remove", p) PROVE FALSE
      <4>1. j \in DOMAIN w
        BY <1>3, <3>1 DEF NoNew
      <4>2. j < n /\ j \in Nat /\ n \in Nat
        BY <1>4, <2>1, <4>1
      <4> QED
        BY <3>1, <4>2
    <3> QED
      BY <2>1, <3>1 DEF Final
  <2>3. \A i \in DOMAIN u : Is(u, i, "add", p) => i \in DOMAIN w \/ i = n
    BY <1>1, <2>1 DEF Is
  <2>4. Parted(u, p)
    <3> SUFFICES ASSUME NEW i \in DOMAIN u, NEW j \in DOMAIN u, i < j, Is(u, i, "add", p), Is(u, j, "add", p)
                 PROVE  \E k \in DOMAIN u : i < k /\ k < j /\ Is(u, k, "remove", p)
      BY DEF Parted
    <3>1. i \in Nat /\ j \in Nat
      BY <1>4
    <3>2. i \in DOMAIN w
      <4>1. CASE i = n
        <5>1. j \in DOMAIN w
          BY <2>3, <3>1, <4>1
        <5> QED
          BY <1>4, <2>1, <3>1, <4>1, <5>1
      <4> QED
        BY <2>3, <4>1
    <3>3. CASE j \in DOMAIN w
      <4>1. PICK k \in DOMAIN w : i < k /\ k < j /\ Is(w, k, "remove", p)
        BY <1>0, <1>4, <3>2, <3>3 DEF Queues, Parted
      <4> QED
        BY <1>4, <4>1
    <3>4. CASE j = n
      <4>1. PICK k \in DOMAIN w : i < k /\ Is(w, k, "remove", p)
        BY <1>4, <2>0, <3>2 DEF Undone
      <4> QED
        BY <1>4, <2>1, <3>4, <4>1
    <3> QED
      BY <2>3, <3>3, <3>4
  <2>5. ASSUME Listed(media, p) PROVE Preceded(u, p)
    <3> SUFFICES ASSUME NEW i \in DOMAIN u, Is(u, i, "add", p)
                 PROVE  \E k \in DOMAIN u : k < i /\ Is(u, k, "remove", p)
      BY DEF Preceded
    <3>1. CASE i \in DOMAIN w
      <4>1. PICK k \in DOMAIN w : k < i /\ Is(w, k, "remove", p)
        BY <1>0, <1>4, <2>5, <3>1 DEF Queues, Preceded
      <4> QED
        BY <1>4, <4>1
    <3>2. CASE i = n
      <4>1. PICK k \in DOMAIN w : Is(w, k, "remove", p)
        BY <2>0, <2>5 DEF Queued
      <4> QED
        BY <1>4, <2>1, <3>2, <4>1
    <3> QED
      BY <2>3, <3>1, <3>2
  <2>6. ASSUME IsPartition(p) PROVE Follows(u, p)
    <3> SUFFICES ASSUME NEW i \in DOMAIN u, NEW j \in DOMAIN u, i < j,
                        Is(u, i, "add", p), Is(u, j, "add", ParentOf[p])
                 PROVE  \E k \in DOMAIN u : i < k /\ Is(u, k, "remove", p)
      BY DEF Follows
    <3>1. i \in Nat /\ j \in Nat
      BY <1>4
    <3>2. CASE i \in DOMAIN w
      <4>1. PICK k \in DOMAIN w : i < k /\ Is(w, k, "remove", p)
        BY <1>4, <2>0, <3>2 DEF Undone
      <4> QED
        BY <1>4, <4>1
    <3>3. CASE i = n
      <4>1. j \notin DOMAIN w
        BY <1>4, <2>1, <3>1, <3>3
      <4>2. j < i
        BY <1>1, <2>1, <2>6, <3>3, <4>1 DEF Is
      <4> QED
        BY <3>1, <4>2
    <3> QED
      BY <2>3, <3>2, <3>3
  <2>7. Returns(u, p)
    <3> SUFFICES ASSUME NEW i \in DOMAIN u, Is(u, i, "remove", ParentOf[p])
                 PROVE  i < n
      BY <2>2 DEF Returns
    <3>1. i \in DOMAIN w
      BY <1>3 DEF NoNew
    <3> QED
      BY <1>4, <2>1, <3>1
  <2>8. Back(u, p)
    BY <2>1, <2>2 DEF Back
  <2> QED
    BY <2>0, <2>4, <2>5, <2>6, <2>7, <2>8 DEF Queues, u
<1> QED
  BY <1>5, <1>6

LEMMA PluggedStep ==
    ASSUME Inv, [Next]_vars
    PROVE  PluggedInv'
<1>1. SUFFICES ASSUME pc' # "exit", NEW p \in DOMAIN Attached
               PROVE  Queues(queue', media', attached', p)
  BY DEF PluggedInv
<1>2. CASE UNCHANGED <<attached, queue, media>> /\ (pc' # "exit" => pc # "exit")
  BY <1>1, <1>2 DEF Inv, PluggedInv
<1>3. CASE Round
  <2>1. UNCHANGED attached
    BY <1>3 DEF Round
  <2> QED
    BY <1>3, <2>1, QueuesRound
<1>4. ASSUME NEW d \in Paths, Plug(d)
      PROVE  Queues(queue', media', attached', p)
  <2>1. UNCHANGED media
    BY <1>4 DEF Plug, Other
  <2> QED
    BY <1>4, <2>1, QueuesPlug
<1>5. ASSUME NEW gone \in SUBSET attached, Whole(gone), Detach(gone), UNCHANGED media, pc # "exit"
      PROVE  Queues(queue', media', attached', p)
  BY <1>5, QueuesDetach
<1>6. ASSUME NEW d \in Paths, NEW c \in Altered, Alter(d, c)
      PROVE  Queues(queue', media', attached', p)
  <2> DEFINE e == [action |-> "change", path |-> d, content |-> c]
             w == queue
             u == Append(queue, e)
  <2>1. queue' = u /\ UNCHANGED <<attached, media, pc>>
    BY <1>6 DEF Alter, Other
  <2>2. e.action = "change" /\ Sequence(w)
    BY DEF Inv, ShapeInv
  <2>3. Queues(w, media, attached, p)
    BY <1>1, <2>1 DEF Inv, PluggedInv
  <2> HIDE DEF e
  <2>4. /\ Grows(w, u) /\ \A k \in DOMAIN u : k \in DOMAIN w \/ u[k] = e
    <3>1. /\ DOMAIN u = 1..(Len(w) + 1) /\ DOMAIN w = 1..Len(w) /\ Len(w) \in Nat
          /\ \A i \in DOMAIN w : u[i] = w[i]
          /\ u[Len(w) + 1] = e
          /\ \A i \in DOMAIN u : i \in DOMAIN w \/ i = Len(w) + 1
      BY <2>2, AppendFacts, SequenceFacts
    <3> HIDE DEF u, w
    <3> QED
      BY <3>1 DEF Grows
  <2> HIDE DEF u, w
  <2>5. \A q : NoNew(w, u, "add", q) /\ NoNew(w, u, "remove", q)
    BY <2>2, <2>4 DEF NoNew, Is
  <2>6. /\ Parted(w, p) => Parted(u, p)
        /\ Preceded(w, p) => Preceded(u, p)
        /\ Undone(w, p) => Undone(u, p)
        /\ Follows(w, p) => Follows(u, p)
        /\ Returns(w, p) => Returns(u, p)
        /\ Back(w, p) => Back(u, p)
        /\ Queued(w, "remove", p) => Queued(u, "remove", p)
        /\ ~Queued(w, "remove", p) => ~Queued(u, "remove", p)
    BY <2>4, <2>5, GrowOrder
  <2> QED
    BY <2>1, <2>3, <2>6 DEF Queues
<1> QED
  BY <1>1, <1>2, <1>3, <1>4, <1>5, <1>6, AttachedStep

\* What a list that is right says of the mounts of a device.
LEMMA ShownFacts ==
    ASSUME Inv, ~mount_event, NEW i \in DOMAIN media
    PROVE  /\ media[i].mnt_point = NULL <=> ~InUse(media[i].path) \/ media[i].path \in late
           /\ media[i].mnt_point # NULL =>
                 \E k \in DOMAIN mounts :
                     mounts[k].dev = media[i].path /\ mounts[k].dir = media[i].mnt_point
<1> DEFINE p == media[i].path
           e == FirstEntry(mounts, p)
<1>1. media[i].mnt_point = IF e = 0 \/ p \in late THEN NULL ELSE mounts[e].dir
  BY DEF Inv, ListInv, Shows
<1>2. \/ e = 0 /\ \A k \in DOMAIN mounts : mounts[k].dev # p
      \/ e \in DOMAIN mounts /\ e # 0 /\ mounts[e].dev = p
  BY EntryFacts DEF Inv, ShapeInv
<1>3. \A k \in DOMAIN mounts : mounts[k].dir # NULL
  BY MountingAssumption DEF Inv, TypeOK
<1> HIDE DEF e
<1> QED
  BY <1>1, <1>2, <1>3 DEF InUse

\* umount(2) takes the device of the command, if it finds one mount where the list
\* shows the device.
LEMMA OneMount ==
    ASSUME NEW d, Count(d) = 1, Sequence(mounts), NEW k \in DOMAIN mounts, mounts[k].dir = d
    PROVE  \A j \in DOMAIN mounts : mounts[j].dir = d => j = k
<1> DEFINE T == {j \in DOMAIN mounts : mounts[j].dir = d}
<1>1. IsFiniteSet(T)
  <2>1. T \in SUBSET (1..Len(mounts)) /\ Len(mounts) \in Nat
    BY SequenceFacts
  <2>2. IsFiniteSet(1..Len(mounts))
    BY <2>1, FS_Interval
  <2> HIDE DEF T
  <2> QED
    BY <2>1, <2>2, FS_Subset
<1>2. Cardinality(T) = 1
  BY DEF Count
<1>3. \E x : T = {x}
  <2> HIDE DEF T
  <2> QED
    BY <1>1, <1>2, FS_Singleton
<1> QED
  BY <1>3

LEMMA ManyMounts ==
    ASSUME NEW d, Count(d) # 1, Sequence(mounts), NEW k \in DOMAIN mounts, mounts[k].dir = d
    PROVE  (\E j \in DOMAIN mounts : j # k /\ mounts[j].dir = d) /\ Count(d) > 1
<1> DEFINE T == {j \in DOMAIN mounts : mounts[j].dir = d}
<1>1. IsFiniteSet(T)
  <2>1. T \in SUBSET (1..Len(mounts)) /\ Len(mounts) \in Nat
    BY SequenceFacts
  <2>2. IsFiniteSet(1..Len(mounts))
    BY <2>1, FS_Interval
  <2> HIDE DEF T
  <2> QED
    BY <2>1, <2>2, FS_Subset
<1>2. Cardinality(T) # 1 /\ Count(d) = Cardinality(T)
  BY DEF Count
<1>3. T # {k} /\ k \in T
  BY <1>2, FS_Singleton
<1>4. \E j \in DOMAIN mounts : j # k /\ mounts[j].dir = d
  BY <1>3
<1>5. Cardinality(T) \in Nat /\ Cardinality(T) # 0
  <2> HIDE DEF T
  <2> QED
    BY <1>1, <1>3, FS_CardinalityType, FS_EmptySet
<1> HIDE DEF T
<1> QED
  BY <1>2, <1>4, <1>5

\* One node is unmounted on exit, or not.
LEMMA UnmountNext ==
    ASSUME Inv, invoke_unmount_all
    PROVE  LET h == Head(rest)
           IN  /\ h \in DOMAIN media /\ media[h].mnt_point # NULL
               /\ ToSet(rest) = ToSet(rest') \cup {h}
               /\ pc = "unmount_all"
               /\ UNCHANGED <<world, mounts, mount_event, media, config, continue_working, reply, bounds, history>>
               /\ \/ UnmountError(media[h]) # "none" /\ UNCHANGED <<pc, job>>
                  \/ /\ UnmountError(media[h]) = "none" /\ pc' = "umount"
                     /\ job'.path = media[h].path /\ job'.dir = media[h].mnt_point
<1>1. Sequence(rest) /\ rest # <<>> /\ rest' = Tail(rest) /\ rest \in Seq(DOMAIN media)
  BY SequenceOf DEF Inv, TypeOK, invoke_unmount_all
<1>2. Head(rest) \in DOMAIN media
  BY <1>1
<1>3. ToSet(rest) = ToSet(rest') \cup {Head(rest)}
  BY <1>1, TailFacts
<1>4. media[Head(rest)].mnt_point # NULL
  BY <1>3 DEF Inv, PhaseInv
<1> QED
  BY <1>2, <1>3, <1>4 DEF invoke_unmount_all

LEMMA JobStep ==
    ASSUME Inv, [Next]_vars
    PROVE  JobInv'
<1>0. JobInv /\ TypeOK /\ Sequence(mounts) /\ ListOK(media)
  BY DEF Inv, ShapeInv, ListInv
<1>1. CASE pc' \notin {"mkdir", "mount", "umount", "remove"}
  BY <1>1 DEF JobInv
<1>2. ASSUME UNCHANGED <<pc, job, media, mounts, mount_event, late, meanwhile>>
      PROVE  JobInv'
  BY <1>0, <1>2 DEF JobInv, InUse, Count, External, Subtree
<1>3. ASSUME UNCHANGED <<pc, job, media>>, mount_event' = TRUE, meanwhile \subseteq meanwhile',
             \A k \in DOMAIN mounts' :
                 \/ \E j \in DOMAIN mounts : mounts'[k] = mounts[j]
                 \/ pc = "remove" => mounts'[k].dev \in meanwhile'
      PROVE  JobInv'
  BY <1>0, <1>3 DEF JobInv, Subtree
<1>4. ASSUME NEW p \in Paths, NEW d \in Dirs, OtherMounts(p, d)
      PROVE  JobInv'
  <2> DEFINE e == [dev |-> p, dir |-> d, opts |-> <<>>, by |-> "other"]
  <2>1. /\ MountsBecome(Append(mounts, e)) /\ UNCHANGED <<pc, job, media>>
        /\ meanwhile' = IF pc = "remove" THEN meanwhile \cup {p} ELSE meanwhile
    BY <1>4 DEF OtherMounts, Other
  <2>2. /\ \A k \in DOMAIN mounts' : (k \in DOMAIN mounts /\ mounts'[k] = mounts[k]) \/ mounts'[k] = e
        /\ mount_event' = TRUE
    BY <1>0, <2>1, MountEntries
  <2>3. e.dev = p
    OBVIOUS
  <2> HIDE DEF e
  <2> QED
    BY <1>3, <2>1, <2>2, <2>3
<1>5. ASSUME NEW d \in Dirs, OtherUnmounts(d)
      PROVE  JobInv'
  <2>1. /\ \A k \in DOMAIN mounts' : \E j \in DOMAIN mounts : mounts'[k] = mounts[j]
        /\ mount_event' = TRUE /\ UNCHANGED <<pc, job, media, meanwhile>>
    BY <1>0, <1>5, UmountEntries DEF OtherUnmounts, Other
  <2> QED
    BY <1>3, <2>1
<1>6. ASSUME NEW p \in Paths, Plug(p) \/ Unplug(p) \/ \E c \in Altered : Alter(p, c)
      PROVE  JobInv'
  BY <1>2, <1>6 DEF Plug, Unplug, Alter, Other
<1>7. ASSUME NEW p \in Paths, NEW r \in Requests, invoke_mount(p, r)
      PROVE  JobInv'
  <2>1. CASE pc' = "mkdir"
    <3>1. /\ UNCHANGED <<mounts, mount_event, late>> /\ job'.path = p
          /\ \E i \in DOMAIN media : media[i].path = p /\ media[i].mnt_point = NULL
      BY <1>7, <2>1, InvokeMount DEF history
    <3>2. mount_event \/ ~InUse(p) \/ p \in late
      BY <3>1, ShownFacts
    <3>3. mount_event' \/ ~InUse(job.path)' \/ job'.path \in late'
      BY <3>1, <3>2 DEF InUse
    <3> QED
      BY <2>1, <3>3 DEF JobInv
  <2> QED
    BY <1>1, <1>7, <2>1, InvokeMount
<1>8. ASSUME NEW p \in Paths, invoke_unmount(p)
      PROVE  JobInv'
  <2>1. CASE pc' = "umount"
    <3>1. /\ UNCHANGED <<mounts, mount_event, media>> /\ job'.path = p
          /\ \E i \in DOMAIN media :
                /\ media[i].path = p /\ media[i].mnt_point = job'.dir
                /\ External(p) \/ Count(job'.dir) = 1
      BY <1>8, <2>1, InvokeUnmount
    <3>2. (External(job.path) \/ Count(job.dir) = 1)'
      BY <3>1 DEF External, Count
    <3> QED
      BY <2>1, <3>1, <3>2 DEF JobInv
  <2> QED
    BY <1>1, <1>8, <2>1, InvokeUnmount
<1>9. ASSUME NEW p \in Paths, invoke_poweroff(p)
      PROVE  JobInv'
  <2>1. CASE pc' = "remove"
    <3>1. UNCHANGED mounts /\ job'.path = p /\ \A q \in Subtree(p) : ~InUse(q)
      BY <1>9, <2>1, InvokePoweroff
    <3> QED
      BY <2>1, <3>1 DEF JobInv, InUse, Subtree
  <2> QED
    BY <1>1, <1>9, <2>1, InvokePoweroff
<1>10. CASE invoke_unmount_all
  <2> DEFINE h == Head(rest)
  <2>1. /\ h \in DOMAIN media /\ UNCHANGED <<mounts, mount_event, media>> /\ pc = "unmount_all"
        /\ \/ UNCHANGED pc
           \/ /\ UnmountError(media[h]) = "none" /\ pc' = "umount"
              /\ job'.path = media[h].path /\ job'.dir = media[h].mnt_point
    BY <1>10, UnmountNext
  <2> HIDE DEF h
  <2>2. CASE pc' = "umount"
    <3>1. UnmountError(media[h]) = "none" /\ job'.path = media[h].path /\ job'.dir = media[h].mnt_point
      BY <2>1, <2>2
    <3>2. find_media(media, media[h].path) = h
      BY <1>0, <2>1, FindsIt DEF ListOK
    <3>3. External(media[h].path) \/ Count(media[h].mnt_point) = 1
      BY <3>1, <3>2, UnmountErrors DEF External
    <3>4. (External(job.path) \/ Count(job.dir) = 1)'
      BY <2>1, <3>1, <3>3 DEF External, Count
    <3> QED
      BY <2>1, <2>2, <3>1, <3>4 DEF JobInv
  <2> QED
    BY <1>1, <2>1, <2>2
<1>11. CASE MakeDir
  <2>1. CASE pc' = "mount"
    <3>1. UNCHANGED <<job, mounts, mount_event, late>> /\ pc = "mkdir"
      BY <1>11, <2>1 DEF MakeDir, Answer
    <3> QED
      BY <1>0, <2>1, <3>1 DEF JobInv, InUse
  <2> QED
    BY <1>1, <1>11, <2>1 DEF MakeDir, Answer
<1>12. CASE Round \/ EndRound \/ DoMount \/ MountFailed \/ DoUnmount \/ Tidy \/ PoweroffRemove \/ Exit \/ Finish
  BY <1>1, <1>12 DEF Round, EndRound, DoMount, MountFailed, DoUnmount, Tidy, PoweroffRemove, Exit, Finish,
     Return, Answer
<1>13. CASE UNCHANGED vars
  BY <1>2, <1>13 DEF vars, history
<1> QED
  BY <1>4, <1>5, <1>6, <1>7, <1>8, <1>9, <1>10, <1>11, <1>12, <1>13 DEF Next, Others, Daemon, Terminated

LEMMA ExitStep ==
    ASSUME Inv, [Next]_vars
    PROVE  ExitInv'
<1>0. ExitInv /\ TypeOK /\ PhaseInv /\ PlaceInv /\ JobInv /\ Sequence(mounts) /\ ListOK(media)
  BY DEF Inv, ShapeInv, ListInv
<1>a. \A k \in DOMAIN mounts : mounts[k].dir # NULL
  BY <1>0, MountingAssumption DEF TypeOK
<1> DEFINE Excused(i, k) ==
              \/ media[i].path \in refused \/ mounts[k].dir \in touched
              \/ get_fsopts_for_fs(media[i].content.fstype) = NULL
           Held(i, k) == /\ mounts[k].dev = media[i].path /\ mounts[k].dir = media[i].mnt_point
                         /\ mounts[k].by = "daemon"
<1>1. CASE continue_working' \/ pc' = "exit"
  BY <1>1 DEF ExitInv
<1>2. ASSUME ~continue_working, pc # "exit", config.unmount_on_exit, NEW i \in DOMAIN media, NEW k \in DOMAIN mounts, Held(i, k)
      PROVE  Excused(i, k) \/ i \in ToSet(rest) \/ (pc = "umount" /\ job.path = media[i].path)
  BY <1>0, <1>2 DEF ExitInv
<1>3. ASSUME UNCHANGED <<media, main, pc, job, refused>>, touched \subseteq touched',
             \A k \in DOMAIN mounts' :
                 (\E j \in DOMAIN mounts : mounts'[k] = mounts[j]) \/ mounts'[k].by = "other"
      PROVE  ExitInv'
  BY <1>0, <1>3 DEF ExitInv, main
<1>4. ASSUME NEW p \in Paths, NEW d \in Dirs, OtherMounts(p, d)
      PROVE  ExitInv'
  <2> DEFINE e == [dev |-> p, dir |-> d, opts |-> <<>>, by |-> "other"]
  <2>1. MountsBecome(Append(mounts, e)) /\ UNCHANGED <<media, main, pc, job, refused>> /\ touched \subseteq touched'
    BY <1>4 DEF OtherMounts, Other
  <2>2. \A k \in DOMAIN mounts' : (k \in DOMAIN mounts /\ mounts'[k] = mounts[k]) \/ mounts'[k] = e
    BY <1>0, <2>1, MountEntries
  <2>3. e.by = "other"
    OBVIOUS
  <2> HIDE DEF e
  <2> QED
    BY <1>3, <2>1, <2>2, <2>3
<1>5. ASSUME NEW d \in Dirs, OtherUnmounts(d)
      PROVE  ExitInv'
  <2>1. /\ \A k \in DOMAIN mounts' : \E j \in DOMAIN mounts : mounts'[k] = mounts[j]
        /\ UNCHANGED <<media, main, pc, job, refused>> /\ touched \subseteq touched'
    BY <1>0, <1>5, UmountEntries DEF OtherUnmounts, Other
  <2> QED
    BY <1>3, <2>1
<1>6. ASSUME NEW p \in Paths, Plug(p) \/ Unplug(p) \/ \E c \in Altered : Alter(p, c)
      PROVE  ExitInv'
  BY <1>3, <1>6 DEF Plug, Unplug, Alter, Other
<1>7. CASE DoUnmount /\ ~continue_working
  <2>1. UNCHANGED <<media, main, touched>> /\ pc = "umount"
    BY <1>7 DEF DoUnmount
  <2>2. CASE /\ Busy(job.dir) /\ MountsBecome(RemoveAt(mounts, Topmost(job.dir)))
             /\ pc' = "tidy" /\ UNCHANGED <<job, reply, refused>>
    <3>1. /\ \A k \in DOMAIN mounts' : \E j \in DOMAIN mounts : mounts'[k] = mounts[j]
          /\ \A k \in DOMAIN mounts' : mounts'[k].dir = job.dir =>
                \E j, h \in DOMAIN mounts : j # h /\ mounts'[k] = mounts[j] /\ mounts[h].dir = job.dir
      BY <1>0, <2>2, UmountEntries
    <3>2. ASSUME config.unmount_on_exit, NEW i \in DOMAIN media, NEW k \in DOMAIN mounts',
                 mounts'[k].dev = media[i].path, mounts'[k].dir = media[i].mnt_point, mounts'[k].by = "daemon"
          PROVE  \/ media[i].path \in refused \/ mounts'[k].dir \in touched
                 \/ get_fsopts_for_fs(media[i].content.fstype) = NULL \/ i \in ToSet(rest)
      <4>1. CASE job.path # media[i].path
        <5>1. PICK j \in DOMAIN mounts : mounts'[k] = mounts[j]
          BY <3>1
        <5> QED
          BY <1>2, <1>7, <2>1, <3>2, <4>1, <5>1
      <4>2. CASE job.path = media[i].path
        <5>1. media[i].mnt_point = job.dir
          BY <1>0, <2>1, <4>2 DEF JobInv, ListOK, Distinct
        <5>2. PICK j \in DOMAIN mounts, h \in DOMAIN mounts :
                  j # h /\ mounts'[k] = mounts[j] /\ mounts[h].dir = job.dir
          BY <3>1, <3>2, <5>1
        <5>3. mounts[h].by # "daemon"
          BY <1>0, <3>2, <5>1, <5>2 DEF PlaceInv, MountsApart
        <5>4. mounts[h].by = "other"
          BY <1>0, <5>3 DEF TypeOK
        <5> QED
          BY <1>0, <3>2, <5>1, <5>2, <5>4 DEF PlaceInv
      <4> QED
        BY <4>1, <4>2
    <3> QED
      BY <1>7, <2>1, <2>2, <3>2 DEF ExitInv, main
  <2>3. CASE /\ Return("generic_error") \/ Return("mount_point_busy")
             /\ refused' = refused \cup {job.path}
             /\ UNCHANGED <<mounts, mount_event>>
    BY <1>0, <2>1, <2>3 DEF ExitInv, main
  <2> QED
    BY <1>7, <2>2, <2>3 DEF DoUnmount
<1>8. CASE Tidy /\ ~continue_working
  <2>1. /\ UNCHANGED <<media, main, mounts, refused>> /\ pc = "tidy" /\ pc' = "unmount_all"
        /\ touched' = touched \/ (~Busy(job.dir) /\ touched' = touched \ {job.dir})
    BY <1>8 DEF Tidy, RemoveDir, Return
  <2>2. \A k \in DOMAIN mounts : mounts[k].dir \in touched => mounts[k].dir \in touched'
    BY <2>1 DEF Busy
  <2> QED
    BY <1>0, <2>1, <2>2 DEF ExitInv, main
<1>9. CASE Exit
  <2>1. /\ UNCHANGED <<media, mounts, config>>
        /\ config.unmount_on_exit => \A i \in DOMAIN media : media[i].mnt_point # NULL => i \in ToSet(rest')
    BY <1>9, ExitFacts DEF Exit
  <2> QED
    BY <1>a, <2>1 DEF ExitInv
<1>10. CASE invoke_unmount_all
  <2> DEFINE h == Head(rest)
  <2>1. /\ h \in DOMAIN media /\ UNCHANGED <<mounts, media, config, continue_working, refused, touched>>
        /\ pc = "unmount_all" /\ ToSet(rest) = ToSet(rest') \cup {h}
        /\ \/ UnmountError(media[h]) # "none" /\ UNCHANGED <<pc, job>>
           \/ pc' = "umount" /\ job'.path = media[h].path
    BY <1>10, UnmountNext DEF history
  <2> HIDE DEF h
  <2>2. ASSUME UnmountError(media[h]) # "none", NEW k \in DOMAIN mounts, Held(h, k)
        PROVE  Excused(h, k)
    <3>1. CASE UnmountError(media[h]) = "unsupported_fstype"
      BY <3>1, UnmountErrors
    <3>2. CASE UnmountError(media[h]) = "device_not_mounted"
      <4>1. Count(media[h].mnt_point) # 1
        BY <3>2, UnmountErrors
      <4>2. PICK j \in DOMAIN mounts : j # k /\ mounts[j].dir = media[h].mnt_point
        BY <1>0, <2>2, <4>1, ManyMounts
      <4>3. mounts[j].by = "other"
        BY <1>0, <2>2, <4>2 DEF PlaceInv, MountsApart, TypeOK
      <4> QED
        BY <1>0, <2>2, <4>2, <4>3 DEF PlaceInv
    <3> QED
      BY <2>2, <3>1, <3>2, UnmountErrors
  <2>3. ASSUME ~continue_working, config.unmount_on_exit, NEW i \in DOMAIN media, NEW k \in DOMAIN mounts, Held(i, k)
        PROVE  Excused(i, k) \/ i \in ToSet(rest') \/ (pc' = "umount" /\ job'.path = media[i].path)
    <3>1. Excused(i, k) \/ i \in ToSet(rest') \/ i = h
      BY <1>2, <2>1, <2>3
    <3> HIDE DEF Excused, Held
    <3> QED
      BY <2>1, <2>2, <2>3, <3>1
  <2> QED
    BY <2>1, <2>3 DEF ExitInv
<1>11. ASSUME NEW p \in Paths, invoke_unmount(p) \/ invoke_poweroff(p) \/ \E r \in Requests : invoke_mount(p, r)
       PROVE  continue_working'
  BY <1>0, <1>11 DEF invoke_unmount, invoke_poweroff, invoke_mount, Command, main, PhaseInv
<1>12. CASE Round \/ EndRound \/ MakeDir \/ DoMount \/ MountFailed \/ PoweroffRemove
  <2>1. continue_working'
    BY <1>0, <1>12 DEF Round, EndRound, MakeDir, DoMount, MountFailed, PoweroffRemove, main, PhaseInv
  <2> QED
    BY <1>1, <2>1
<1>13. CASE (DoUnmount \/ Tidy) /\ continue_working
  BY <1>1, <1>13 DEF DoUnmount, Tidy, main
<1>14. CASE Finish
  BY <1>1, <1>14 DEF Finish
<1>15. CASE UNCHANGED vars
  BY <1>3, <1>15 DEF vars, history
<1> QED
  BY <1>1, <1>4, <1>5, <1>6, <1>7, <1>8, <1>9, <1>10, <1>11, <1>12, <1>13, <1>14, <1>15
     DEF Next, Others, Daemon, Terminated

LEMMA InvStep == Inv /\ [Next]_vars => Inv'
  BY TypeStep, ShapeStep, PhaseStep, PlaceStep, ListStep, WholeStep, PluggedStep, JobStep, ExitStep DEF Inv

LEMMA Invariance == Spec => []Inv
  BY InvInit, InvStep, PTL DEF Spec

\* The mounts, the list of media and the command at work keep their shape: above
\* all, every mount is on a directory that exists, and what is left to unmount on
\* exit are nodes of the list.
THEOREM TypeCorrect == Spec => []TypeOK
<1>1. Inv => TypeOK
  BY DEF Inv
<1> QED
  BY <1>1, Invariance, PTL

\* The daemon makes a directory for every mount and removes it after use: no two
\* of its mounts share one, and none that it made stays behind unused, unless
\* others mounted or unmounted there (calculate_path, invoke_mount and
\* invoke_unmount_common).
THEOREM OneDirectoryEachCorrect == Spec => []OneDirectoryEach
<1>1. Inv => OneDirectoryEach
  BY DEF Inv, PlaceInv, OneDirectoryEach, DirsTidied
<1> QED
  BY <1>1, Invariance, PTL

\* On exit, invoke_unmount_all leaves mounted nothing that the list shows and the
\* daemon mounted, unless umount failed or was not tried.
THEOREM ExitUnmountsCorrect == Spec => []ExitUnmounts
<1>1. ASSUME Inv PROVE ExitUnmounts
  <2>1. SUFFICES ASSUME pc = "unmount_all", rest = <<>>, config.unmount_on_exit,
                        NEW i \in DOMAIN media, NEW k \in DOMAIN mounts,
                        mounts[k].dev = media[i].path, mounts[k].dir = media[i].mnt_point,
                        mounts[k].by = "daemon"
                 PROVE  \/ media[i].path \in refused \/ mounts[k].dir \in touched
                        \/ get_fsopts_for_fs(media[i].content.fstype) = NULL
    BY DEF ExitUnmounts
  <2>2. ~continue_working /\ ToSet(rest) = {}
    BY <1>1, <2>1 DEF Inv, PhaseInv, ToSet
  <2> QED
    BY <1>1, <2>1, <2>2 DEF Inv, ExitInv
<1> QED
  BY <1>1, Invariance, PTL

\* invoke_poweroff takes away no disk of which something is mounted, by whomever,
\* though the list it looks at may be older than the mount: the disk was opened
\* exclusively.  Only what is mounted after it was closed again, or is on another
\* disk of the USB device, goes with it.
THEOREM PoweroffSparesMountedCorrect == Spec => PoweroffSparesMounted
<1> DEFINE A == pc = "remove" /\ pc' = "clients" =>
                   \A k \in DOMAIN mounts :
                       mounts[k].dev \in attached \ attached' =>
                           mounts[k].dev \in meanwhile \/ mounts[k].dev \notin Subtree(job.path)
<1>1. Inv => A
  BY DEF Inv, JobInv
<1>2. Inv => [A]_vars
  BY <1>1
<1> QED
  BY <1>2, Invariance, PTL DEF PoweroffSparesMounted

\* A command mounts a device once and unmounts the device it names, unless the
\* mounts changed since they were checked, or the device was added to the list only
\* after its mount had been seen, or something is mounted on top and the command
\* umount is used (invoke_mount, invoke_unmount_common).
THEOREM ActsAsAskedCorrect == Spec => ActsAsAsked
<1>1. ASSUME Inv PROVE MountsOnce
  BY <1>1 DEF Inv, JobInv, MountsOnce
<1>2. ASSUME Inv PROVE UnmountsNamed
  <2>1. SUFFICES ASSUME pc = "umount", ~mount_event
                 PROVE  \/ mounts[Topmost(job.dir)].dev = job.path
                        \/ Count(job.dir) > 1 /\ External(job.path)
    BY DEF UnmountsNamed
  <2>2. /\ Sequence(mounts) /\ job.dir # NULL
        /\ External(job.path) \/ Count(job.dir) = 1
    BY <1>2, <2>1, MountingAssumption DEF Inv, ShapeInv, PhaseInv, JobInv
  <2>3. PICK i \in DOMAIN media : media[i].path = job.path /\ media[i].mnt_point = job.dir
    BY <1>2, <2>1 DEF Inv, JobInv
  <2>4. PICK k \in DOMAIN mounts : mounts[k].dev = job.path /\ mounts[k].dir = job.dir
    BY <1>2, <2>1, <2>2, <2>3, ShownFacts
  <2>5. Topmost(job.dir) \in DOMAIN mounts /\ mounts[Topmost(job.dir)].dir = job.dir
    BY <2>2, <2>4, TopmostFacts DEF Busy
  <2>6. CASE Count(job.dir) = 1
    BY <2>2, <2>4, <2>5, <2>6, OneMount
  <2>7. CASE Count(job.dir) # 1
    BY <2>2, <2>4, <2>7, ManyMounts
  <2> QED
    BY <2>6, <2>7
<1>3. Inv => [MountsOnce /\ UnmountsNamed]_vars
  BY <1>1, <1>2
<1> QED
  BY <1>3, Invariance, PTL DEF ActsAsAsked

\* What a client is told is so: a device that is said to be mounted is, one that is
\* said not to be is not, and one that is said not to exist is not plugged in or
\* its addition still waits; unless the mounts changed since they were checked, or
\* were checked before the device was added, or two share a directory.  However
\* often a disk was plugged in and out, no device is lost from the list for good.
THEOREM AnswersTrueCorrect == Spec => AnswersTrue
<1> DEFINE MountAnswer(p) ==
              /\ reply' = "device_already_mounted" => InUse(p) \/ mount_event
              /\ reply' = "no_such_removable_device" =>
                    \/ p \notin attached
                    \/ \E i \in DOMAIN queue : queue[i].action = "add" /\ queue[i].path = p
           UnmountAnswer(p) == ~InUse(p) \/ mount_event \/ p \in late \/ \E d \in Dirs : Count(d) > 1
           A == \A p \in Paths :
                   /\ (\E r \in Requests : invoke_mount(p, r)) => MountAnswer(p)
                   /\ invoke_unmount(p) /\ reply' = "device_not_mounted" => UnmountAnswer(p)
<1>1. ASSUME Inv, NEW p \in Paths, NEW r \in Requests, invoke_mount(p, r)
      PROVE  MountAnswer(p)
  <2>1. /\ pc = "clients"
        /\ reply' = "device_already_mounted" =>
              \E i \in DOMAIN media : media[i].path = p /\ media[i].mnt_point # NULL
        /\ reply' = "no_such_removable_device" => ~Listed(media, p)
    BY <1>1, InvokeMount
  <2>2. reply' = "device_already_mounted" => InUse(p) \/ mount_event
    BY <1>1, <2>1, ShownFacts
  <2>3. p \in attached =>
            Listed(media, p) \/ \E i \in DOMAIN queue : queue[i].action = "add" /\ queue[i].path = p
    BY <1>1, <2>1 DEF Inv, WholeInv, Whole, PluggedInv, Queues, Back, Final, Is
  <2> QED
    BY <2>1, <2>2, <2>3
<1>2. ASSUME Inv, NEW p \in Paths, invoke_unmount(p), reply' = "device_not_mounted"
      PROVE  UnmountAnswer(p)
  <2>1. SUFFICES ASSUME ~mount_event, InUse(p), p \notin late
                 PROVE  \E d \in Dirs : Count(d) > 1
    OBVIOUS
  <2>2. PICK i \in DOMAIN media :
           media[i].path = p /\ (media[i].mnt_point = NULL \/ Count(media[i].mnt_point) # 1)
    BY <1>2, InvokeUnmount
  <2>3. Sequence(mounts) /\ media[i].mnt_point \in Dirs \cup {NULL}
    BY <1>2 DEF Inv, ShapeInv, TypeOK
  <2>4. media[i].mnt_point # NULL /\ \E k \in DOMAIN mounts : mounts[k].dir = media[i].mnt_point
    BY <1>2, <2>1, <2>2, ShownFacts
  <2> QED
    BY <2>2, <2>3, <2>4, ManyMounts
<1>3. Inv => A
  <2> HIDE DEF MountAnswer, UnmountAnswer
  <2> QED
    BY <1>1, <1>2
<1>4. Inv => [A]_vars
  <2> HIDE DEF A
  <2> QED
    BY <1>3
<1> QED
  BY <1>4, Invariance, PTL DEF AnswersTrue

(***************************************************************************)
(* The options of a mount.                                                 *)
(***************************************************************************)
KeysApart(list) == \A i, j \in DOMAIN list : list[i].key = list[j].key => i = j

\* An option takes the place of the one for its key, at the end.
LEMMA AddOptionFacts ==
    ASSUME NEW list, Sequence(list), KeysApart(list), NEW option
    PROVE  LET r == add_option(list, option)
           IN  /\ Sequence(r) /\ KeysApart(r) /\ option \in ToSet(r)
               /\ ToSet(r) \subseteq ToSet(list) \cup {option}
               /\ \A o \in ToSet(list) : o.key # option.key => o \in ToSet(r)
<1> DEFINE I == {i \in 1..Len(list) : list[i].key = option.key}
           i == SelectInSeq(list, LAMBDA o : o.key = option.key)
           base == IF i = 0 THEN list ELSE RemoveAt(list, i)
           r == add_option(list, option)
<1>0. Len(list) \in Nat /\ DOMAIN list = 1..Len(list)
  BY SequenceFacts
<1>1. i = IF I # {} THEN Min(I) ELSE 0
  BY DEF SelectInSeq
<1>2. r = Append(base, option)
  BY DEF add_option
<1>3. CASE I = {}
  <2>1. base = list
    BY <1>1, <1>3
  <2>2. \A k \in DOMAIN list : list[k].key # option.key
    BY <1>0, <1>3
  <2>3. r = Append(list, option)
    BY <1>2, <2>1
  <2> HIDE DEF r, base, i, I
  <2>4. /\ Sequence(r) /\ DOMAIN r = 1..(Len(list) + 1) /\ r[Len(list) + 1] = option
        /\ \A k \in DOMAIN list : r[k] = list[k]
        /\ \A k \in DOMAIN r : k \in DOMAIN list \/ k = Len(list) + 1
    BY <2>3, AppendFacts
  <2>5. ToSet(r) = ToSet(list) \cup {option}
    <3>1. Len(list) + 1 \in DOMAIN r /\ \A k \in DOMAIN list : k \in DOMAIN r
      BY <1>0, <2>4
    <3> QED
      BY <2>4, <3>1 DEF ToSet
  <2>6. KeysApart(r)
    BY <2>2, <2>4 DEF KeysApart
  <2> QED
    BY <2>4, <2>5, <2>6 DEF r
<1>4. CASE I # {}
  <2>1. i \in DOMAIN list /\ i # 0 /\ list[i].key = option.key
    <3>1. I \in SUBSET Nat
      BY <1>0
    <3>2. Min(I) \in I
      <4> HIDE DEF I
      <4> QED
        BY <1>4, <3>1, MinFacts
    <3> QED
      BY <1>0, <1>1, <1>4, <3>2
  <2> HIDE DEF i, I
  <2>2. base = RemoveAt(list, i)
    BY <2>1
  <2> HIDE DEF base
  <2>3. /\ Sequence(base)
        /\ \A k \in DOMAIN base : \E j \in DOMAIN list \ {i} : base[k] = list[j]
        /\ \A j \in DOMAIN list \ {i} : \E k \in DOMAIN base : base[k] = list[j]
        /\ \A k, l \in DOMAIN base : k # l =>
              \E j, h \in DOMAIN list \ {i} : j # h /\ base[k] = list[j] /\ base[l] = list[h]
    BY <2>1, <2>2, RemoveAtFacts
  <2>4. \A k \in DOMAIN base : base[k].key # option.key
    BY <2>1, <2>3 DEF KeysApart
  <2>5. \A k, l \in DOMAIN base : k # l => base[k].key # base[l].key
    <3>1. SUFFICES ASSUME NEW k \in DOMAIN base, NEW l \in DOMAIN base, k # l
                   PROVE  base[k].key # base[l].key
      OBVIOUS
    <3>2. PICK j, h \in DOMAIN list \ {i} : j # h /\ base[k] = list[j] /\ base[l] = list[h]
      BY <2>3, <3>1
    <3> QED
      BY <3>2 DEF KeysApart
  <2>6. ToSet(base) \subseteq ToSet(list)
    BY <2>3 DEF ToSet
  <2>7. \A o \in ToSet(list) : o.key # option.key => o \in ToSet(base)
    <3>1. SUFFICES ASSUME NEW j \in DOMAIN list, list[j].key # option.key
                   PROVE  list[j] \in ToSet(base)
      BY DEF ToSet
    <3>2. j \in DOMAIN list \ {i}
      BY <2>1, <3>1
    <3>3. PICK k \in DOMAIN base : base[k] = list[j]
      BY <2>3, <3>2
    <3> QED
      BY <3>3 DEF ToSet
  <2>8. /\ Sequence(r) /\ r[Len(base) + 1] = option /\ DOMAIN r = 1..(Len(base) + 1)
        /\ Len(base) \in Nat /\ DOMAIN base = 1..Len(base)
        /\ \A k \in DOMAIN base : r[k] = base[k]
        /\ \A k \in DOMAIN r : k \in DOMAIN base \/ k = Len(base) + 1
    BY <1>2, <2>3, AppendFacts, SequenceFacts
  <2>9. ToSet(r) = ToSet(base) \cup {option}
    <3>1. Len(base) + 1 \in DOMAIN r /\ \A k \in DOMAIN base : k \in DOMAIN r
      BY <2>8
    <3> QED
      BY <2>8, <3>1 DEF ToSet
  <2> HIDE DEF r
  <2>10. KeysApart(r)
    BY <2>4, <2>5, <2>8 DEF KeysApart
  <2> QED
    BY <2>6, <2>7, <2>8, <2>9, <2>10 DEF r
<1> QED
  BY <1>3, <1>4

\* f[k] is the list after k of the options.
Fills(f, list, options) ==
    f = [k \in 0..Len(options) |-> IF k = 0 THEN list ELSE add_option(f[k - 1], options[k])]

\* There is such an f: otherwise there would be a least number of options without.
LEMMA FillsExists ==
    ASSUME NEW list, NEW options, Sequence(options)
    PROVE  \E f : Fills(f, list, options)
<1> DEFINE C(f, n) == f = [k \in 0..n |-> IF k = 0 THEN list ELSE add_option(f[k - 1], options[k])]
           B == {n \in Nat : ~\E f : C(f, n)}
<1>1. Len(options) \in Nat
  BY SequenceFacts
<1>2. ASSUME B # {}
      PROVE  FALSE
  <2>1. PICK n \in B : \A y \in B : n <= y
    BY <1>2, MinFacts
  <2>2. n \in Nat /\ ~\E f : C(f, n)
    OBVIOUS
  <2>3. CASE n = 0
    <3>1. C([k \in 0..0 |-> list], 0)
      OBVIOUS
    <3> QED
      BY <2>2, <2>3, <3>1
  <2>4. CASE n # 0
    <3>0. n - 1 \in Nat /\ ~(n <= n - 1)
      BY <2>2, <2>4
    <3>1. n - 1 \in Nat /\ n - 1 \notin B
      <4> HIDE DEF B
      <4> QED
        BY <2>1, <3>0
    <3>2. PICK f : C(f, n - 1)
      BY <3>1
    <3> DEFINE g == [k \in 0..n |-> IF k = n THEN add_option(f[n - 1], options[n]) ELSE f[k]]
    <3>3. ASSUME NEW k \in 0..n
          PROVE  g[k] = IF k = 0 THEN list ELSE add_option(g[k - 1], options[k])
      <4>1. CASE k = n
        <5>1. n - 1 \in 0..n /\ n - 1 # n
          BY <2>2, <2>4
        <5> QED
          BY <2>4, <4>1, <5>1
      <4>2. CASE k # n
        <5>1. k \in 0..(n - 1) /\ (k # 0 => k - 1 \in 0..n /\ k - 1 # n)
          BY <2>2, <4>2
        <5>2. f[k] = IF k = 0 THEN list ELSE add_option(f[k - 1], options[k])
          BY <3>2, <5>1
        <5> QED
          BY <4>2, <5>1, <5>2
      <4> QED
        BY <4>1, <4>2
    <3>4. C(g, n)
      BY <3>3
    <3> QED
      BY <2>2, <3>4
  <2> QED
    BY <2>3, <2>4
<1>3. \E f : C(f, Len(options))
  BY <1>1, <1>2
<1> QED
  BY <1>3 DEF Fills

LEMMA AddOptionsFills ==
    ASSUME NEW list, NEW options, Sequence(options)
    PROVE  \E f : Fills(f, list, options) /\ add_options(list, options) = f[Len(options)]
<1>1. PICK f : f = CHOOSE g : g = [k \in 0..Len(options) |->
                                     IF k = 0 THEN list ELSE add_option(g[k - 1], options[k])]
  OBVIOUS
<1>2. Fills(f, list, options)
  <2>1. \E g : g = [k \in 0..Len(options) |->
                      IF k = 0 THEN list ELSE add_option(g[k - 1], options[k])]
    <3>1. PICK g : Fills(g, list, options)
      BY FillsExists
    <3>2. g = [k \in 0..Len(options) |->
                 IF k = 0 THEN list ELSE add_option(g[k - 1], options[k])]
      BY ONLY <3>1 DEF Fills
    <3> QED
      BY <3>2
  <2>2. f = [k \in 0..Len(options) |->
               IF k = 0 THEN list ELSE add_option(f[k - 1], options[k])]
    BY ONLY <1>1, <2>1
  <2> QED
    BY <2>2 DEF Fills
<1>3. add_options(list, options) = f[Len(options)]
  BY <1>1 DEF add_options
<1> QED
  BY <1>2, <1>3

\* The options of a list that no later one of the first k is for the same key.
Stays(options, i, k) == \A j \in (i + 1)..k : options[j].key # options[i].key

LEMMA AddOptionsFacts ==
    ASSUME NEW list, Sequence(list), KeysApart(list), NEW options, Sequence(options)
    PROVE  LET r == add_options(list, options)
           IN  /\ Sequence(r) /\ KeysApart(r)
               /\ ToSet(r) \subseteq ToSet(list) \cup ToSet(options)
               /\ \A i \in DOMAIN options : Stays(options, i, Len(options)) => options[i] \in ToSet(r)
<1> DEFINE n == Len(options)
<1>1. n \in Nat /\ DOMAIN options = 1..n
  BY SequenceFacts
<1>2. PICK f : Fills(f, list, options) /\ add_options(list, options) = f[n]
  BY AddOptionsFills
<1>3. f[0] = list /\ \A k \in 1..n : f[k] = add_option(f[k - 1], options[k])
  <2>1. f = [k \in 0..n |-> IF k = 0 THEN list ELSE add_option(f[k - 1], options[k])]
    BY <1>2 DEF Fills
  <2>2. 0 \in 0..n /\ \A k \in 1..n : k \in 0..n /\ k # 0
    BY <1>1
  <2> HIDE DEF n
  <2> QED
    BY <2>1, <2>2
<1> DEFINE Good(k) == /\ Sequence(f[k]) /\ KeysApart(f[k])
                      /\ ToSet(f[k]) \subseteq ToSet(list) \cup ToSet(options)
                      /\ \A i \in 1..k : Stays(options, i, k) => options[i] \in ToSet(f[k])
           B == {k \in 0..n : ~Good(k)}
<1> HIDE DEF n
<1>4. ASSUME B # {}
      PROVE  FALSE
  <2>0. B \in SUBSET Nat
    BY <1>1
  <2>1. PICK k \in B : \A y \in B : k <= y
    BY <1>4, <2>0, MinFacts
  <2>2. k \in 0..n /\ ~Good(k)
    OBVIOUS
  <2>3. k # 0
    <3>1. Good(0)
      BY <1>3
    <3> QED
      BY <2>2, <3>1
  <2>4. k - 1 \in 0..n /\ k \in 1..n /\ ~(k <= k - 1)
    BY <1>1, <2>2, <2>3
  <2>5. Good(k - 1)
    <3>1. k - 1 \notin B
      <4> HIDE DEF B
      <4> QED
        BY <2>1, <2>4
    <3> QED
      BY <2>4, <3>1
  <2>6. /\ Sequence(f[k]) /\ KeysApart(f[k]) /\ options[k] \in ToSet(f[k])
        /\ ToSet(f[k]) \subseteq ToSet(f[k - 1]) \cup {options[k]}
        /\ \A o \in ToSet(f[k - 1]) : o.key # options[k].key => o \in ToSet(f[k])
    BY <1>3, <2>4, <2>5, AddOptionFacts
  <2>7. options[k] \in ToSet(options)
    BY <1>1, <2>4 DEF ToSet
  <2>8. ASSUME NEW i \in 1..k, Stays(options, i, k)
        PROVE  options[i] \in ToSet(f[k])
    <3>1. CASE i = k
      BY <2>6, <3>1
    <3>2. CASE i # k
      <4>1. i \in 1..(k - 1) /\ k \in (i + 1)..k /\ \A j \in (i + 1)..(k - 1) : j \in (i + 1)..k
        BY <2>4, <3>2
      <4>2. Stays(options, i, k - 1) /\ options[i].key # options[k].key
        BY <2>8, <4>1 DEF Stays
      <4>3. options[i] \in ToSet(f[k - 1])
        BY <2>5, <4>1, <4>2
      <4> QED
        BY <2>6, <4>2, <4>3
    <3> QED
      BY <3>1, <3>2
  <2>9. ToSet(f[k]) \subseteq ToSet(list) \cup ToSet(options)
    BY <2>5, <2>6, <2>7
  <2> QED
    BY <2>2, <2>6, <2>8, <2>9
<1>5. n \in 0..n
  BY <1>1
<1>6. Good(n)
  BY <1>4, <1>5
<1> QED
  BY <1>1, <1>2, <1>6 DEF n

LEMMA ReverseFacts ==
    ASSUME NEW S, NEW s \in Seq(S)
    PROVE  /\ Reverse(s) \in Seq(S) /\ Len(Reverse(s)) = Len(s)
           /\ \A i \in 1..Len(s) : Reverse(s)[i] = s[(Len(s) - i) + 1]
<1> DEFINE n == Len(s)
           r == [i \in 1..n |-> s[(n - i) + 1]]
<1>1. n \in Nat /\ \A i \in 1..n : s[i] \in S
  OBVIOUS
<1>2. \A i \in 1..n : (n - i) + 1 \in 1..n
  BY <1>1
<1> HIDE DEF n
<1>3. r \in [1..n -> S]
  BY <1>1, <1>2
<1>4. Reverse(s) = r
  BY DEF Reverse, n
<1>5. r \in Seq(S) /\ Len(r) = n
  BY <1>1, <1>3, FunctionIsSeq
<1> QED
  BY <1>4, <1>5 DEF n

\* A sequence that is put at the end of another is a suffix.
LEMMA SuffixFacts ==
    ASSUME NEW S, NEW s \in Seq(S), NEW t \in Seq(S)
    PROVE  IsSuffix(t, s \o t)
<1> DEFINE a == Reverse(t)
           b == Reverse(s \o t)
           n == Len(t)
           m == Len(s)
<1>1. n \in Nat /\ m \in Nat /\ s \o t \in Seq(S) /\ Len(s \o t) = m + n
  OBVIOUS
<1>2. \A k \in 1..n : (s \o t)[m + k] = t[k]
  BY ConcatFacts, SequenceOf
<1>3. a \in Seq(S) /\ Len(a) = n /\ \A i \in 1..n : a[i] = t[(n - i) + 1]
  BY ReverseFacts
<1>4. b \in Seq(S) /\ Len(b) = m + n /\ \A i \in 1..(m + n) : b[i] = (s \o t)[((m + n) - i) + 1]
  <2> DEFINE u == s \o t
  <2>1. u \in Seq(S) /\ Len(u) = m + n
    BY <1>1
  <2> HIDE DEF u
  <2>2. Reverse(u) \in Seq(S) /\ Len(Reverse(u)) = Len(u) /\ \A i \in 1..Len(u) : Reverse(u)[i] = u[(Len(u) - i) + 1]
    BY <2>1, ReverseFacts
  <2> HIDE DEF m, n
  <2>3. Reverse(u) \in Seq(S) /\ Len(Reverse(u)) = m + n /\ \A i \in 1..(m + n) : Reverse(u)[i] = u[((m + n) - i) + 1]
    BY <2>1, <2>2
  <2> QED
    BY <2>3 DEF u
<1> HIDE DEF a, b, n, m
<1>5. ASSUME NEW i \in 1..n
      PROVE  a[i] = b[i]
  <2>1. i \in 1..(m + n) /\ (n - i) + 1 \in 1..n /\ ((m + n) - i) + 1 = m + ((n - i) + 1)
    BY <1>1
  <2> QED
    BY <1>2, <1>3, <1>4, <2>1
<1>6. SubSeq(a, 1, n) = SubSeq(b, 1, n)
  <2>1. /\ SubSeq(a, 1, n) = [i \in 1..n |-> a[i]]
        /\ SubSeq(b, 1, n) = [i \in 1..n |-> b[i]]
    <3>1. ASSUME NEW c \in Seq(S), n <= Len(c)
          PROVE  SubSeq(c, 1, n) = [i \in 1..n |-> c[i]]
      <4>1. SubSeq(c, 1, n) = [i \in 1..((1 + n) - 1) |-> c[(i + 1) - 1]]
        BY <1>1, <3>1
      <4>2. (1 + n) - 1 = n /\ \A i \in 1..n : (i + 1) - 1 = i
        BY <1>1
      <4> QED
        BY <4>1, <4>2
    <3> QED
      BY <1>1, <1>3, <1>4, <3>1
  <2> QED
    BY <1>5, <2>1
<1>7. IsPrefix(a, b)
  <2>1. n <= m + n
    BY <1>1
  <2> QED
    BY <1>3, <1>4, <1>6, <2>1 DEF IsPrefix
<1> QED
  BY <1>7 DEF IsSuffix, a, b

\* What invoke_mount makes of the options that are asked for.
LEMMA MountOptionsFacts ==
    ASSUME NEW fs \in DOMAIN Filesystems, NEW requested \in Requests, NEW f, f = Filesystems[fs],
           OptionalList(requested, f) # NULL, MountOptions(requested, f) # NULL
    PROVE  LET m    == FirstOf(f.config_mandatory, f.mandatory)
               opts == MountOptions(requested, f)
           IN  /\ \A k \in DOMAIN m :
                     (\A j \in (k + 1)..Len(m) : m[j].key # m[k].key) => m[k] \in ToSet(opts)
               /\ \A i, j \in DOMAIN opts : opts[i].key = opts[j].key => i = j
               /\ ToSet(opts) \subseteq f.allowed \cup ToSet(f.ids)
               /\ IsSuffix(f.ids, opts)
<1> DEFINE m == FirstOf(f.config_mandatory, f.mandatory)
           d == FirstOf(requested, FirstOf(f.config_defaults, f.defaults))
           l0 == OptionalList(requested, f)
           l1 == convert_options_to_list(m, f, l0)
           opts == MountOptions(requested, f)
<1>1. /\ m \in Seq(Options) /\ d \in Seq(Options) /\ f.ids \in Seq(Options)
      /\ f.allowed \subseteq Options
      /\ KeysApart(f.ids) /\ \A i \in DOMAIN f.ids, o \in f.allowed : o.key # f.ids[i].key
  BY OptionsAssumption DEF FirstOf, KeysApart
<1>2. l0 = convert_options_to_list(d, f, <<>>)
  BY DEF OptionalList
<1>3. opts = IF l1 = NULL THEN NULL ELSE l1 \o f.ids
  BY DEF MountOptions, fsopts_generate_string
<1> HIDE DEF m, d, l0, l1, opts
<1>4. Sequence(m) /\ Sequence(d) /\ Sequence(f.ids)
  BY <1>1, SequenceOf
<1>5. l0 = add_options(<<>>, d) /\ ToSet(d) \subseteq f.allowed
  BY <1>2 DEF convert_options_to_list, l0, ToSet
<1>6. Sequence(l0) /\ KeysApart(l0) /\ ToSet(l0) \subseteq f.allowed
  <2>1. Sequence(<<>>) /\ KeysApart(<<>>) /\ ToSet(<<>>) = {}
    BY DEF Sequence, KeysApart, ToSet
  <2> QED
    BY <1>4, <1>5, <2>1, AddOptionsFacts
<1>7. l1 # NULL /\ opts = l1 \o f.ids
  BY <1>3 DEF opts
<1>8. l1 = add_options(l0, m) /\ ToSet(m) \subseteq f.allowed
  <2>1. ~\E k \in DOMAIN m : m[k] \notin f.allowed
    BY <1>7 DEF l1, convert_options_to_list
  <2>2. l1 = add_options(l0, m)
    BY <2>1 DEF l1, convert_options_to_list
  <2> QED
    BY <2>1, <2>2 DEF ToSet
<1>9. /\ Sequence(l1) /\ KeysApart(l1) /\ ToSet(l1) \subseteq f.allowed
      /\ \A k \in DOMAIN m : Stays(m, k, Len(m)) => m[k] \in ToSet(l1)
  <2>1. /\ Sequence(l1) /\ KeysApart(l1) /\ ToSet(l1) \subseteq ToSet(l0) \cup ToSet(m)
        /\ \A k \in DOMAIN m : Stays(m, k, Len(m)) => m[k] \in ToSet(l1)
    BY <1>4, <1>6, <1>8, AddOptionsFacts
  <2> QED
    BY <1>6, <1>8, <2>1
<1> DEFINE a == Len(l1)
           b == Len(f.ids)
<1>10. /\ a \in Nat /\ b \in Nat /\ DOMAIN l1 = 1..a /\ DOMAIN f.ids = 1..b
       /\ Sequence(opts) /\ DOMAIN opts = 1..(a + b)
       /\ \A k \in 1..a : opts[k] = l1[k]
       /\ \A k \in 1..b : opts[a + k] = f.ids[k]
  <2>1. /\ Sequence(opts) /\ Len(opts) = a + b
        /\ \A k \in 1..a : opts[k] = l1[k]
        /\ \A k \in 1..b : opts[a + k] = f.ids[k]
    BY <1>4, <1>7, <1>9, ConcatFacts
  <2>2. a \in Nat /\ b \in Nat /\ DOMAIN l1 = 1..a /\ DOMAIN f.ids = 1..b
    BY <1>4, <1>9, SequenceFacts
  <2>3. DOMAIN opts = 1..Len(opts)
    BY <2>1, SequenceFacts
  <2> QED
    BY <2>1, <2>2, <2>3
<1> HIDE DEF a, b
<1>11. \A k \in 1..(a + b) : k \in 1..a \/ (k - a \in 1..b /\ a + (k - a) = k)
  BY <1>10
<1>12. \A k \in 1..(a + b) :
          \/ k \in 1..a /\ opts[k] = l1[k] /\ l1[k] \in f.allowed
          \/ k - a \in 1..b /\ opts[k] = f.ids[k - a] /\ a + (k - a) = k
  <2>1. \A k \in 1..a : l1[k] \in ToSet(l1)
    BY <1>10 DEF ToSet
  <2> QED
    BY <1>9, <1>10, <1>11, <2>1
<1>13. ToSet(opts) \subseteq f.allowed \cup ToSet(f.ids)
  <2>1. \A k \in 1..b : f.ids[k] \in ToSet(f.ids)
    BY <1>10 DEF ToSet
  <2>2. \A k \in DOMAIN opts : opts[k] \in f.allowed \cup ToSet(f.ids)
    BY <1>10, <1>12, <2>1
  <2> QED
    BY <2>2 DEF ToSet
<1>14. ASSUME NEW i \in DOMAIN opts, NEW j \in DOMAIN opts, opts[i].key = opts[j].key
       PROVE  i = j
  <2>1. CASE i \in 1..a /\ opts[i] = l1[i] /\ j \in 1..a /\ opts[j] = l1[j]
    BY <1>9, <1>10, <1>14, <2>1 DEF KeysApart
  <2>2. CASE /\ i - a \in 1..b /\ opts[i] = f.ids[i - a] /\ a + (i - a) = i
             /\ j - a \in 1..b /\ opts[j] = f.ids[j - a] /\ a + (j - a) = j
    <3>0. \A x, y \in 1..b : f.ids[x].key = f.ids[y].key => x = y
      BY <1>1, <1>10 DEF KeysApart
    <3>1. i - a = j - a
      BY <1>14, <2>2, <3>0
    <3> QED
      BY <2>2, <3>1
  <2>3. CASE opts[i] \in f.allowed /\ j - a \in 1..b /\ opts[j] = f.ids[j - a]
    BY <1>1, <1>10, <1>14, <2>3
  <2>4. CASE opts[j] \in f.allowed /\ i - a \in 1..b /\ opts[i] = f.ids[i - a]
    BY <1>1, <1>10, <1>14, <2>4
  <2> QED
    BY <1>10, <1>12, <2>1, <2>2, <2>3, <2>4
<1>15. ASSUME NEW k \in DOMAIN m, \A j \in (k + 1)..Len(m) : m[j].key # m[k].key
       PROVE  m[k] \in ToSet(opts)
  <2>1. m[k] \in ToSet(l1)
    BY <1>9, <1>15 DEF Stays
  <2>2. PICK i \in 1..a : l1[i] = m[k]
    BY <1>10, <2>1 DEF ToSet
  <2>3. i \in DOMAIN opts /\ opts[i] = m[k]
    BY <1>10, <2>2
  <2> QED
    BY <2>3 DEF ToSet
<1>16. IsSuffix(f.ids, opts)
  <2> DEFINE S == ToSet(l1) \cup ToSet(f.ids)
  <2>1. l1 \in Seq(S) /\ f.ids \in Seq(S)
    BY <1>4, <1>9 DEF Sequence
  <2> HIDE DEF S
  <2> QED
    BY <1>7, <2>1, SuffixFacts
<1> QED
  BY <1>13, <1>14, <1>15, <1>16 DEF m, opts

\* Until it mounts, invoke_mount has the options of the device that the list shows.
OptionsInv ==
    pc \in {"mkdir", "mount"} =>
        \E requested \in Requests, fs \in DOMAIN Filesystems :
            LET f == get_fsopts_for_fs(media[find_media(media, job.path)].content.fstype)
            IN  /\ f = Filesystems[fs]
                /\ OptionalList(requested, f) # NULL /\ MountOptions(requested, f) # NULL
                /\ job.opts = MountOptions(requested, f)

LEMMA OptionsStep ==
    ASSUME OptionsInv, [Next]_vars
    PROVE  OptionsInv'
<1>1. ASSUME NEW p \in Paths, NEW requested \in Requests, invoke_mount(p, requested)
      PROVE  OptionsInv'
  <2> DEFINE i == find_media(media, p)
             f == get_fsopts_for_fs(media[i].content.fstype)
  <2>1. media' = media
    BY <1>1 DEF invoke_mount
  <2>2. CASE MountError(i, requested) # "none"
    BY <1>1, <2>2 DEF invoke_mount, Answer, OptionsInv
  <2>3. CASE MountError(i, requested) = "none"
    <3>1. /\ pc' = "mkdir" /\ job'.path = p /\ job'.opts = MountOptions(requested, f)
      BY <1>1, <2>3 DEF invoke_mount, GoOn
    <3>2. f # NULL /\ OptionalList(requested, f) # NULL /\ MountOptions(requested, f) # NULL
      BY <2>3 DEF MountError
    <3>3. PICK fs \in DOMAIN Filesystems : f = Filesystems[fs]
      BY <3>2 DEF get_fsopts_for_fs
    <3> QED
      BY <2>1, <3>1, <3>2, <3>3 DEF OptionsInv
  <2> QED
    BY <2>2, <2>3
<1>2. CASE Others \/ UNCHANGED vars
  <2>1. UNCHANGED <<media, pc, job>>
    BY <1>2, OthersFrame DEF vars
  <2> QED
    BY <2>1 DEF OptionsInv
<1>3. CASE MakeDir
  <2>1. UNCHANGED media /\ pc = "mkdir" /\ (pc' = "clients" \/ (pc' = "mount" /\ job' = job))
    BY <1>3 DEF MakeDir, Answer
  <2> QED
    BY <2>1 DEF OptionsInv
<1>4. ASSUME pc' \notin {"mkdir", "mount"}
      PROVE  OptionsInv'
  BY <1>4 DEF OptionsInv
<1>5. ASSUME NEW p \in Paths, invoke_unmount(p) \/ invoke_poweroff(p)
      PROVE  pc' \notin {"mkdir", "mount"}
  BY <1>5 DEF invoke_unmount, invoke_poweroff, Answer, GoOn
<1>6. CASE \/ Round \/ EndRound \/ DoMount \/ MountFailed \/ DoUnmount \/ Tidy \/ PoweroffRemove
           \/ Exit \/ invoke_unmount_all \/ Finish
  <2>1. pc' \notin {"mkdir", "mount"}
    BY <1>6 DEF Round, EndRound, DoMount, MountFailed, DoUnmount, Tidy, PoweroffRemove, Exit,
       invoke_unmount_all, Finish, Answer, Return
  <2> QED
    BY <1>4, <2>1
<1> QED
  BY <1>1, <1>2, <1>3, <1>4, <1>5, <1>6 DEF Next, Daemon, Terminated

\* Whatever a client asks for, a mount gets the mandatory options of its
\* filesystem, no option twice and nothing that is not allowed, and the ids of the
\* client at the end (convert_options_to_list and fsopts_generate_string), for any
\* lists of options in the tables, in the config file and in the request.
THEOREM MandatoryHoldsCorrect == Spec => []MandatoryHolds
<1>1. Init => OptionsInv
  BY DEF Init, OptionsInv
<1>2. Spec => []OptionsInv
  BY <1>1, OptionsStep, PTL DEF Spec
<1>3. ASSUME OptionsInv
      PROVE  MandatoryHolds
  <2>1. SUFFICES ASSUME pc = "mount"
                 PROVE  MandatoryHolds
    BY DEF MandatoryHolds
  <2> DEFINE f == get_fsopts_for_fs(media[find_media(media, job.path)].content.fstype)
  <2>2. PICK requested \in Requests, fs \in DOMAIN Filesystems :
           /\ f = Filesystems[fs]
           /\ OptionalList(requested, f) # NULL /\ MountOptions(requested, f) # NULL
           /\ job.opts = MountOptions(requested, f)
    BY <1>3, <2>1 DEF OptionsInv
  <2> HIDE DEF f
  <2> DEFINE m == FirstOf(f.config_mandatory, f.mandatory)
             opts == MountOptions(requested, f)
  <2>3. /\ \A k \in DOMAIN m :
              (\A j \in (k + 1)..Len(m) : m[j].key # m[k].key) => m[k] \in ToSet(opts)
        /\ \A i, j \in DOMAIN opts : opts[i].key = opts[j].key => i = j
        /\ ToSet(opts) \subseteq f.allowed \cup ToSet(f.ids)
        /\ IsSuffix(f.ids, opts)
    BY <2>2, MountOptionsFacts
  <2> HIDE DEF m, opts
  <2>4. job.opts = opts
    BY <2>2 DEF opts
  <2> QED
    BY <2>3, <2>4 DEF MandatoryHolds, m, f
<1> QED
  BY <1>2, <1>3, PTL
=============================================================================
