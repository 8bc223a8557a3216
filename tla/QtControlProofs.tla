-------------------------- MODULE QtControlProofs --------------------------
(***************************************************************************)
(* Proofs about the Qt client: for any devices and any number of changes,  *)
(* crashes and timeouts.  The core is that notifications which were saved  *)
(* before the list came can be replayed on the list although it has some   *)
(* of them already.                                                        *)
(***************************************************************************)
EXTENDS QtControl, MediaListProofs

(***************************************************************************)
(* What a notification does to a view.                                     *)
(***************************************************************************)
\* The two parts of a device that notifications set: what is in it, and where it
\* is mounted.
Content(d) == <<d.kind, d.content>>
Mount(d)   == <<d.mnt_point, d.mnt_opts>>

\* A partition is there together with its disk.
Rooted(v) == \A p \in Paths : v[p] # NULL /\ IsPartition(p) => v[ParentOf[p]] # NULL

LEMMA SameDevice ==
    ASSUME NEW a \in Devices, NEW b \in Devices, Content(a) = Content(b), Mount(a) = Mount(b)
    PROVE  a = b
  BY DEF Devices, Content, Mount

LEMMA NewDevice ==
    ASSUME NEW k \in Kinds, NEW c \in ContentsOf
    PROVE  /\ Device(k, c) \in Devices /\ Device(k, c) # NULL
           /\ Content(Device(k, c)) = <<k, c>> /\ Mount(Device(k, c)) = <<NULL, NULL>>
<1>1. Device(k, c) \in Devices
  BY DEF Device, Devices
<1>2. NULL \notin Devices
  BY ControlAssumption
<1>3. Content(Device(k, c)) = <<k, c>> /\ Mount(Device(k, c)) = <<NULL, NULL>>
  BY DEF Device, Content, Mount
<1> QED
  BY <1>1, <1>2, <1>3

LEMMA AddedView ==
    ASSUME NEW v \in Views, NEW p \in Paths, NEW k \in Kinds, NEW c \in ContentsOf
    PROVE  LET w == processCommand(v, Added(p, k, c))
           IN  /\ w \in Views
               /\ IF v[p] = NULL /\ (IsPartition(p) => v[ParentOf[p]] # NULL)
                  THEN /\ w[p] # NULL /\ Content(w[p]) = <<k, c>> /\ Mount(w[p]) = <<NULL, NULL>>
                       /\ \A q \in Paths \ {p} : w[q] = v[q]
                  ELSE w = v
<1> DEFINE d == Device(k, c)
           fit == v[p] = NULL /\ (IsPartition(p) => v[ParentOf[p]] # NULL)
           w == processCommand(v, Added(p, k, c))
<1>1. w = IF fit THEN [v EXCEPT ![p] = d] ELSE v
  BY DEF processCommand, Added
<1>2. d \in Devices /\ d # NULL /\ Content(d) = <<k, c>> /\ Mount(d) = <<NULL, NULL>>
  BY NewDevice
<1> HIDE DEF d, fit
<1>3. w \in Views
  BY <1>1, <1>2 DEF Views
<1>4. fit => w[p] = d /\ \A q \in Paths \ {p} : w[q] = v[q]
  BY <1>1 DEF Views
<1>5. fit => w[p] # NULL /\ Content(w[p]) = <<k, c>> /\ Mount(w[p]) = <<NULL, NULL>>
  BY <1>2, <1>4
<1> HIDE DEF w
<1>6. IF fit THEN /\ w[p] # NULL /\ Content(w[p]) = <<k, c>> /\ Mount(w[p]) = <<NULL, NULL>>
                  /\ \A q \in Paths \ {p} : w[q] = v[q]
      ELSE w = v
  BY <1>1, <1>4, <1>5
<1> QED
  BY <1>3, <1>6 DEF w, fit

LEMMA ChangedView ==
    ASSUME NEW v \in Views, NEW p \in Paths, NEW k \in Kinds, NEW c \in ContentsOf
    PROVE  LET w == processCommand(v, Changed(p, k, c))
           IN  /\ w \in Views
               /\ IF v[p] # NULL
                  THEN /\ w[p] # NULL /\ Content(w[p]) = <<k, c>> /\ Mount(w[p]) = <<NULL, NULL>>
                       /\ \A q \in Paths \ {p} : w[q] = v[q]
                  ELSE w = v
<1> DEFINE d == Device(k, c)
           w == processCommand(v, Changed(p, k, c))
<1>1. w = IF v[p] # NULL THEN [v EXCEPT ![p] = d] ELSE v
  BY DEF processCommand, Changed
<1>2. d \in Devices /\ d # NULL /\ Content(d) = <<k, c>> /\ Mount(d) = <<NULL, NULL>>
  BY NewDevice
<1> HIDE DEF d
<1>3. w \in Views
  BY <1>1, <1>2 DEF Views
<1>4. v[p] # NULL => w[p] = d /\ \A q \in Paths \ {p} : w[q] = v[q]
  BY <1>1 DEF Views
<1>5. v[p] # NULL => w[p] # NULL /\ Content(w[p]) = <<k, c>> /\ Mount(w[p]) = <<NULL, NULL>>
  BY <1>2, <1>4
<1> QED
  BY <1>1, <1>3, <1>4, <1>5

LEMMA RemovedView ==
    ASSUME NEW v \in Views, NEW p \in Paths
    PROVE  LET w == processCommand(v, Removed(p))
           IN  /\ w \in Views
               /\ IF v[p] # NULL
                  THEN \A q \in Paths : w[q] = IF q = p \/ ParentOf[q] = p THEN NULL ELSE v[q]
                  ELSE w = v
<1> DEFINE w == processCommand(v, Removed(p))
<1>1. w = IF v[p] # NULL THEN Erase(v, p) ELSE v
  BY DEF processCommand, Removed
<1>2. Erase(v, p) \in Views
  BY DEF Erase, Views
<1>3. \A q \in Paths : Erase(v, p)[q] = IF q = p \/ ParentOf[q] = p THEN NULL ELSE v[q]
  BY DEF Erase
<1> QED
  BY <1>1, <1>2, <1>3

\* The mount point of a device.
Put(v, p, dir, opts) == [v EXCEPT ![p].mnt_point = dir, ![p].mnt_opts = opts]

LEMMA PutFacts ==
    ASSUME NEW v \in Views, NEW p \in Paths, v[p] # NULL,
           NEW dir \in Dirs \cup {NULL}, NEW opts \in Opts \cup {NULL}
    PROVE  LET w == Put(v, p, dir, opts)
           IN  /\ w \in Views /\ w[p] # NULL
               /\ Content(w[p]) = Content(v[p]) /\ Mount(w[p]) = <<dir, opts>>
               /\ \A q \in Paths \ {p} : w[q] = v[q]
<1> DEFINE w == Put(v, p, dir, opts)
           d == [kind |-> v[p].kind, content |-> v[p].content, mnt_point |-> dir, mnt_opts |-> opts]
<1>1. v[p] \in Devices
  BY DEF Views
<1>2. /\ d \in Devices /\ d # NULL /\ d.kind = v[p].kind /\ d.content = v[p].content
      /\ d.mnt_point = dir /\ d.mnt_opts = opts
  <2>1. d \in Devices
    BY <1>1 DEF Devices
  <2>2. NULL \notin Devices
    BY ControlAssumption
  <2> QED
    BY <2>1, <2>2
<1>3. w = [v EXCEPT ![p] = d]
  <2>1. [v[p] EXCEPT !.mnt_point = dir, !.mnt_opts = opts] = d
    <3>1. ASSUME NEW x \in Devices
          PROVE  [x EXCEPT !.mnt_point = dir, !.mnt_opts = opts]
                     = [kind |-> x.kind, content |-> x.content, mnt_point |-> dir, mnt_opts |-> opts]
      <4>1. x = [kind |-> x.kind, content |-> x.content, mnt_point |-> x.mnt_point, mnt_opts |-> x.mnt_opts]
        BY DEF Devices
      <4>2. PICK y : y = [x EXCEPT !.mnt_point = dir, !.mnt_opts = opts]
        OBVIOUS
      <4>3. /\ y = [f \in {"kind", "content", "mnt_point", "mnt_opts"} |-> y[f]]
            /\ y.kind = x.kind /\ y.content = x.content /\ y.mnt_point = dir /\ y.mnt_opts = opts
        BY <4>1, <4>2
      <4> QED
        BY <4>2, <4>3
    <3> QED
      BY <1>1, <3>1
  <2>2. w = [v EXCEPT ![p] = [v[p] EXCEPT !.mnt_point = dir, !.mnt_opts = opts]]
    BY DEF Put, Views
  <2> QED
    BY <2>1, <2>2
<1> HIDE DEF d, w
<1>4. w \in Views /\ w[p] = d /\ \A q \in Paths \ {p} : w[q] = v[q]
  BY <1>2, <1>3 DEF Views
<1>5. Content(w[p]) = Content(v[p]) /\ Mount(w[p]) = <<dir, opts>>
  BY <1>2, <1>4 DEF Content, Mount
<1> QED
  BY <1>2, <1>4, <1>5 DEF w

LEMMA MountedView ==
    ASSUME NEW v \in Views, NEW p \in Paths, NEW d \in Dirs, NEW o \in Opts
    PROVE  LET w == processCommand(v, Mounted(p, d, o))
           IN  /\ w \in Views
               /\ IF v[p] # NULL
                  THEN /\ w[p] # NULL /\ Content(w[p]) = Content(v[p]) /\ Mount(w[p]) = <<d, o>>
                       /\ \A q \in Paths \ {p} : w[q] = v[q]
                  ELSE w = v
<1>1. processCommand(v, Mounted(p, d, o)) = IF v[p] # NULL THEN Put(v, p, d, o) ELSE v
  BY DEF processCommand, Mounted, Put
<1> QED
  BY <1>1, PutFacts

LEMMA UnmountedView ==
    ASSUME NEW v \in Views, NEW p \in Paths, NEW d
    PROVE  LET w == processCommand(v, Unmounted(p, d))
           IN  /\ w \in Views
               /\ IF v[p] # NULL
                  THEN /\ w[p] # NULL /\ Content(w[p]) = Content(v[p]) /\ Mount(w[p]) = <<NULL, NULL>>
                       /\ \A q \in Paths \ {p} : w[q] = v[q]
                  ELSE w = v
<1>1. processCommand(v, Unmounted(p, d)) = IF v[p] # NULL THEN Put(v, p, NULL, NULL) ELSE v
  BY DEF processCommand, Unmounted, Put
<1> QED
  BY <1>1, PutFacts

LEMMA NoteCases ==
    ASSUME NEW note \in Notes
    PROVE  \/ \E p \in Paths, k \in Kinds, c \in ContentsOf : note = Added(p, k, c)
           \/ \E p \in Paths, k \in Kinds, c \in ContentsOf : note = Changed(p, k, c)
           \/ \E p \in Paths : note = Removed(p)
           \/ \E p \in Paths, d \in Dirs, o \in Opts : note = Mounted(p, d, o)
           \/ \E p \in Paths, d \in Dirs : note = Unmounted(p, d)
  BY DEF Notes

LEMMA NoteFacts ==
    ASSUME NEW note \in Notes
    PROVE  note.path \in Paths /\ note.op # "list"
  BY NoteCases DEF Added, Changed, Removed, Mounted, Unmounted

\* A view stays one, whatever it is told.
LEMMA ViewStep ==
    ASSUME NEW v \in Views, NEW note \in Notes
    PROVE  processCommand(v, note) \in Views
<1>1. CASE \E p \in Paths, k \in Kinds, c \in ContentsOf : note = Added(p, k, c)
  BY <1>1, AddedView
<1>2. CASE \E p \in Paths, k \in Kinds, c \in ContentsOf : note = Changed(p, k, c)
  BY <1>2, ChangedView
<1>3. CASE \E p \in Paths : note = Removed(p)
  BY <1>3, RemovedView
<1>4. CASE \E p \in Paths, d \in Dirs, o \in Opts : note = Mounted(p, d, o)
  BY <1>4, MountedView
<1>5. CASE \E p \in Paths, d \in Dirs : note = Unmounted(p, d)
  BY <1>5, UnmountedView
<1> QED
  BY <1>1, <1>2, <1>3, <1>4, <1>5, NoteCases

\* A disk is removed after its partitions, and they are added after it.
LEMMA RootedStep ==
    ASSUME NEW v \in Views, NEW note \in Notes, Fits(v, note), Rooted(v)
    PROVE  Rooted(processCommand(v, note))
<1> DEFINE w == processCommand(v, note)
<1>0. \A q \in Paths : IsPartition(q) => ParentOf[q] \in Paths
  BY PathAssumption DEF IsPartition
<1>1. ASSUME NEW p \in Paths, NEW k \in Kinds, NEW c \in ContentsOf, note = Added(p, k, c)
      PROVE  Rooted(w)
  <2>1. v[p] = NULL /\ (IsPartition(p) => v[ParentOf[p]] # NULL)
    BY <1>1 DEF Fits, Added
  <2>2. w[p] # NULL /\ \A q \in Paths \ {p} : w[q] = v[q]
    BY <1>1, <2>1, AddedView
  <2> HIDE DEF w
  <2> QED
    BY <1>0, <2>1, <2>2 DEF Rooted
<1>2. ASSUME NEW p \in Paths, v[p] # NULL, w[p] # NULL, \A q \in Paths \ {p} : w[q] = v[q]
      PROVE  Rooted(w)
  <2> HIDE DEF w
  <2> QED
    BY <1>0, <1>2 DEF Rooted
<1>3. ASSUME NEW p \in Paths, NEW k \in Kinds, NEW c \in ContentsOf, note = Changed(p, k, c)
      PROVE  Rooted(w)
  <2>1. v[p] # NULL
    BY <1>3 DEF Fits, Changed
  <2> QED
    BY <1>2, <1>3, <2>1, ChangedView
<1>4. ASSUME NEW p \in Paths, note = Removed(p)
      PROVE  Rooted(w)
  <2>1. v[p] # NULL
    BY <1>4 DEF Fits, Removed
  <2>2. \A q \in Paths : w[q] = IF q = p \/ ParentOf[q] = p THEN NULL ELSE v[q]
    BY <1>4, <2>1, RemovedView
  <2> HIDE DEF w
  <2>3. ASSUME NEW q \in Paths, w[q] # NULL, IsPartition(q)
        PROVE  w[ParentOf[q]] # NULL
    <3>1. ParentOf[q] \in Paths /\ v[ParentOf[q]] # NULL /\ ParentOf[q] # p
      BY <1>0, <2>2, <2>3 DEF Rooted
    <3>2. ParentOf[ParentOf[q]] # p
      BY <2>3, PathAssumption DEF IsPartition
    <3> QED
      BY <2>2, <3>1, <3>2
  <2> QED
    BY <2>3 DEF Rooted
<1>5. ASSUME NEW p \in Paths, NEW d \in Dirs, NEW o \in Opts, note = Mounted(p, d, o)
      PROVE  Rooted(w)
  <2>1. v[p] # NULL
    BY <1>5 DEF Fits, Mounted
  <2> QED
    BY <1>2, <1>5, <2>1, MountedView
<1>6. ASSUME NEW p \in Paths, NEW d \in Dirs, note = Unmounted(p, d)
      PROVE  Rooted(w)
  <2>1. v[p] # NULL
    BY <1>6 DEF Fits, Unmounted
  <2> QED
    BY <1>2, <1>6, <2>1, UnmountedView
<1> QED
  BY <1>1, <1>3, <1>4, <1>5, <1>6, NoteCases

(***************************************************************************)
(* A device may be mounted again where it is with other options, of which  *)
(* clients are not told: then the views of the daemon and of the client    *)
(* are the same but for the options of such devices, S.  What they are     *)
(* told keeps them so.                                                     *)
(***************************************************************************)
Like(S, v, w) ==
    \A p \in Paths :
        /\ v[p] = NULL <=> w[p] = NULL
        /\ v[p] # NULL => /\ Content(v[p]) = Content(w[p]) /\ v[p].mnt_point = w[p].mnt_point
                          /\ p \notin S => v[p].mnt_opts = w[p].mnt_opts

LEMMA LikeSelf ==
    ASSUME NEW S, NEW v
    PROVE  Like(S, v, v)
  BY DEF Like

LEMMA LikeBack ==
    ASSUME NEW S, NEW v, NEW w, Like(S, v, w)
    PROVE  Like(S, w, v)
  BY DEF Like

LEMMA LikeThrough ==
    ASSUME NEW S, NEW u, NEW v, NEW w, Like(S, u, v), Like(S, v, w)
    PROVE  Like(S, u, w)
  BY DEF Like

LEMMA LikeMore ==
    ASSUME NEW S, NEW T, S \subseteq T, NEW v, NEW w, Like(S, v, w)
    PROVE  Like(T, v, w)
  BY DEF Like

\* Whether a notification fits does not depend on the options.
LEMMA LikeFits ==
    ASSUME NEW S, NEW v, NEW w, Like(S, v, w), NEW note \in Notes, Fits(v, note)
    PROVE  Fits(w, note)
<1>1. note.path \in Paths
  BY NoteFacts
<1>2. IsPartition(note.path) => ParentOf[note.path] \in Paths
  BY <1>1, PathAssumption DEF IsPartition
<1> QED
  BY <1>1, <1>2 DEF Like, Fits

LEMMA LikeStep ==
    ASSUME NEW S, NEW v \in Views, NEW w \in Views, Like(S, v, w), NEW note \in Notes
    PROVE  Like(S, processCommand(v, note), processCommand(w, note))
<1> DEFINE v1 == processCommand(v, note)
           w1 == processCommand(w, note)
<1>0. \A q \in Paths : IsPartition(q) => ParentOf[q] \in Paths
  BY PathAssumption DEF IsPartition
<1>a. ASSUME NEW p \in Paths, NEW c, NEW d, v1[p] # NULL, w1[p] # NULL,
             Content(v1[p]) = c, Content(w1[p]) = c, Mount(v1[p]) = d, Mount(w1[p]) = d,
             \A q \in Paths \ {p} : v1[q] = v[q] /\ w1[q] = w[q]
      PROVE  Like(S, v1, w1)
  <2>1. v1[p].mnt_point = w1[p].mnt_point /\ v1[p].mnt_opts = w1[p].mnt_opts
    BY <1>a DEF Mount
  <2> HIDE DEF v1, w1
  <2> QED
    BY <1>a, <2>1 DEF Like
<1>1. ASSUME NEW p \in Paths, NEW k \in Kinds, NEW c \in ContentsOf, note = Added(p, k, c)
      PROVE  Like(S, v1, w1)
  <2> DEFINE fit(x) == x[p] = NULL /\ (IsPartition(p) => x[ParentOf[p]] # NULL)
  <2>1. fit(v) <=> fit(w)
    BY <1>0 DEF Like
  <2>2. CASE fit(v)
    <3>1. /\ v1[p] # NULL /\ Content(v1[p]) = <<k, c>> /\ Mount(v1[p]) = <<NULL, NULL>>
          /\ \A q \in Paths \ {p} : v1[q] = v[q]
      BY <1>1, <2>2, AddedView
    <3>2. /\ w1[p] # NULL /\ Content(w1[p]) = <<k, c>> /\ Mount(w1[p]) = <<NULL, NULL>>
          /\ \A q \in Paths \ {p} : w1[q] = w[q]
      BY <1>1, <2>1, <2>2, AddedView
    <3> HIDE DEF v1, w1
    <3> QED
      BY <1>a, <3>1, <3>2
  <2>3. CASE ~fit(v)
    <3>1. v1 = v /\ w1 = w
      BY <1>1, <2>1, <2>3, AddedView
    <3> QED
      BY <3>1
  <2> QED
    BY <2>2, <2>3
<1>b. ASSUME NEW p \in Paths, v[p] = NULL, w[p] = NULL, note.path = p, note.op # "added"
      PROVE  Like(S, v1, w1)
  <2>1. v1 = v /\ w1 = w
    BY <1>b DEF processCommand
  <2> QED
    BY <2>1
<1>2. ASSUME NEW p \in Paths, NEW k \in Kinds, NEW c \in ContentsOf, note = Changed(p, k, c)
      PROVE  Like(S, v1, w1)
  <2>1. CASE v[p] # NULL
    <3>1. w[p] # NULL
      BY <2>1 DEF Like
    <3>2. /\ v1[p] # NULL /\ Content(v1[p]) = <<k, c>> /\ Mount(v1[p]) = <<NULL, NULL>>
          /\ \A q \in Paths \ {p} : v1[q] = v[q]
      BY <1>2, <2>1, ChangedView
    <3>3. /\ w1[p] # NULL /\ Content(w1[p]) = <<k, c>> /\ Mount(w1[p]) = <<NULL, NULL>>
          /\ \A q \in Paths \ {p} : w1[q] = w[q]
      BY <1>2, <3>1, ChangedView
    <3> HIDE DEF v1, w1
    <3> QED
      BY <1>a, <3>2, <3>3
  <2>2. CASE v[p] = NULL
    BY <1>2, <1>b, <2>2 DEF Like, Changed
  <2> QED
    BY <2>1, <2>2
<1>3. ASSUME NEW p \in Paths, note = Removed(p)
      PROVE  Like(S, v1, w1)
  <2>1. CASE v[p] # NULL
    <3>1. w[p] # NULL
      BY <2>1 DEF Like
    <3>2. \A q \in Paths : v1[q] = IF q = p \/ ParentOf[q] = p THEN NULL ELSE v[q]
      BY <1>3, <2>1, RemovedView
    <3>3. \A q \in Paths : w1[q] = IF q = p \/ ParentOf[q] = p THEN NULL ELSE w[q]
      BY <1>3, <3>1, RemovedView
    <3> HIDE DEF v1, w1
    <3> QED
      BY <3>2, <3>3 DEF Like
  <2>2. CASE v[p] = NULL
    BY <1>3, <1>b, <2>2 DEF Like, Removed
  <2> QED
    BY <2>1, <2>2
<1>c. ASSUME NEW p \in Paths, v[p] # NULL, w[p] # NULL, NEW d,
             v1[p] # NULL /\ Content(v1[p]) = Content(v[p]) /\ Mount(v1[p]) = d,
             w1[p] # NULL /\ Content(w1[p]) = Content(w[p]) /\ Mount(w1[p]) = d,
             \A q \in Paths \ {p} : v1[q] = v[q] /\ w1[q] = w[q]
      PROVE  Like(S, v1, w1)
  <2>1. Content(v[p]) = Content(w[p])
    BY <1>c DEF Like
  <2> HIDE DEF v1, w1
  <2> QED
    BY <1>a, <1>c, <2>1
<1>4. ASSUME NEW p \in Paths, NEW d \in Dirs, NEW o \in Opts, note = Mounted(p, d, o)
      PROVE  Like(S, v1, w1)
  <2>1. CASE v[p] # NULL
    <3>1. w[p] # NULL
      BY <2>1 DEF Like
    <3>2. /\ v1[p] # NULL /\ Content(v1[p]) = Content(v[p]) /\ Mount(v1[p]) = <<d, o>>
          /\ \A q \in Paths \ {p} : v1[q] = v[q]
      BY <1>4, <2>1, MountedView
    <3>3. /\ w1[p] # NULL /\ Content(w1[p]) = Content(w[p]) /\ Mount(w1[p]) = <<d, o>>
          /\ \A q \in Paths \ {p} : w1[q] = w[q]
      BY <1>4, <3>1, MountedView
    <3> HIDE DEF v1, w1
    <3> QED
      BY <1>c, <2>1, <3>1, <3>2, <3>3
  <2>2. CASE v[p] = NULL
    BY <1>4, <1>b, <2>2 DEF Like, Mounted
  <2> QED
    BY <2>1, <2>2
<1>5. ASSUME NEW p \in Paths, NEW d \in Dirs, note = Unmounted(p, d)
      PROVE  Like(S, v1, w1)
  <2>1. CASE v[p] # NULL
    <3>1. w[p] # NULL
      BY <2>1 DEF Like
    <3>2. /\ v1[p] # NULL /\ Content(v1[p]) = Content(v[p]) /\ Mount(v1[p]) = <<NULL, NULL>>
          /\ \A q \in Paths \ {p} : v1[q] = v[q]
      BY <1>5, <2>1, UnmountedView
    <3>3. /\ w1[p] # NULL /\ Content(w1[p]) = Content(w[p]) /\ Mount(w1[p]) = <<NULL, NULL>>
          /\ \A q \in Paths \ {p} : w1[q] = w[q]
      BY <1>5, <3>1, UnmountedView
    <3> HIDE DEF v1, w1
    <3> QED
      BY <1>c, <2>1, <3>1, <3>2, <3>3
  <2>2. CASE v[p] = NULL
    BY <1>5, <1>b, <2>2 DEF Like, Unmounted
  <2> QED
    BY <2>1, <2>2
<1> QED
  BY <1>1, <1>2, <1>3, <1>4, <1>5, NoteCases

\* The same notifications lead from views that are alike to views that are.
LEMMA LikeFollow ==
    ASSUME NEW S, NEW v \in Views, NEW w \in Views, Like(S, v, w), NEW notes \in Seq(Notes)
    PROVE  Like(S, Follow(v, notes), Follow(w, notes))
<1> DEFINE n == Len(notes)
<1>1. Sequence(notes) /\ n \in Nat /\ \A k \in 1..n : notes[k] \in Notes
  BY SequenceOf
<1>2. PICK f : Course(f, v, notes) /\ Follow(v, notes) = f[n]
  BY <1>1, FollowIsCourse
<1>3. PICK g : Course(g, w, notes) /\ Follow(w, notes) = g[n]
  BY <1>1, FollowIsCourse
<1>4. ASSUME NEW r, NEW x, Course(r, x, notes)
      PROVE  r[0] = x /\ \A k \in 1..n : r[k] = processCommand(r[k - 1], notes[k])
  <2>1. r = [k \in 0..n |-> IF k = 0 THEN x ELSE processCommand(r[k - 1], notes[k])]
    BY <1>4 DEF Course
  <2>2. 0 \in 0..n /\ \A k \in 1..n : k \in 0..n /\ k # 0
    BY <1>1
  <2> HIDE DEF n
  <2> QED
    BY <2>1, <2>2
<1>5. /\ f[0] = v /\ \A k \in 1..n : f[k] = processCommand(f[k - 1], notes[k])
      /\ g[0] = w /\ \A k \in 1..n : g[k] = processCommand(g[k - 1], notes[k])
  BY <1>2, <1>3, <1>4
<1> HIDE DEF n
<1> DEFINE Good(k) == f[k] \in Views /\ g[k] \in Views /\ Like(S, f[k], g[k])
           B == {k \in 0..n : ~Good(k)}
<1>6. ASSUME B # {}
      PROVE  FALSE
  <2>0. B \in SUBSET Nat
    BY <1>1
  <2>1. PICK k \in B : \A y \in B : k <= y
    BY <1>6, <2>0, MinFacts
  <2>2. k \in 0..n /\ ~Good(k)
    OBVIOUS
  <2>3. k # 0
    BY <1>5, <2>2
  <2>4. k - 1 \in 0..n /\ k \in 1..n /\ ~(k <= k - 1)
    BY <1>1, <2>2, <2>3
  <2>5. Good(k - 1)
    <3>1. k - 1 \notin B
      <4> HIDE DEF B
      <4> QED
        BY <2>1, <2>4
    <3> QED
      BY <2>4, <3>1
  <2>6. /\ f[k] = processCommand(f[k - 1], notes[k]) /\ g[k] = processCommand(g[k - 1], notes[k])
        /\ notes[k] \in Notes
    BY <1>1, <1>5, <2>4
  <2> QED
    BY <2>2, <2>5, <2>6, ViewStep, LikeStep
<1>7. n \in 0..n
  BY <1>1
<1>8. Like(S, f[n], g[n])
  BY <1>6, <1>7
<1> QED
  BY <1>2, <1>3, <1>8 DEF n

\* A device that is mounted again with other options.
LEMMA RemountFacts ==
    ASSUME NEW v \in Views, NEW p \in Paths, v[p] # NULL, NEW opts \in Opts
    PROVE  LET w == [v EXCEPT ![p].mnt_opts = opts]
           IN  w \in Views /\ (Rooted(v) => Rooted(w)) /\ Like({p}, v, w)
<1> DEFINE w == Put(v, p, v[p].mnt_point, opts)
<1>0. v[p] \in Devices /\ v[p].mnt_point \in Dirs \cup {NULL}
  BY DEF Views, Devices
<1>1. [v EXCEPT ![p].mnt_opts = opts] = w
  <2>1. ASSUME NEW x \in Devices
        PROVE  [x EXCEPT !.mnt_opts = opts] = [x EXCEPT !.mnt_point = x.mnt_point, !.mnt_opts = opts]
    BY DEF Devices
  <2>2. [v EXCEPT ![p].mnt_opts = opts] = [v EXCEPT ![p] = [v[p] EXCEPT !.mnt_opts = opts]]
    BY DEF Views
  <2>3. w = [v EXCEPT ![p] = [v[p] EXCEPT !.mnt_point = v[p].mnt_point, !.mnt_opts = opts]]
    BY DEF Put, Views
  <2> QED
    BY <1>0, <2>1, <2>2, <2>3
<1>2. /\ w \in Views /\ w[p] # NULL
      /\ Content(w[p]) = Content(v[p]) /\ Mount(w[p]) = <<v[p].mnt_point, opts>>
      /\ \A q \in Paths \ {p} : w[q] = v[q]
  BY <1>0, PutFacts
<1> HIDE DEF w
<1>3. w[p].mnt_point = v[p].mnt_point
  BY <1>2 DEF Mount
<1>4. \A q \in Paths : IsPartition(q) => ParentOf[q] \in Paths
  BY PathAssumption DEF IsPartition
<1>5. Rooted(v) => Rooted(w)
  BY <1>2, <1>4 DEF Rooted
<1>6. Like({p}, v, w)
  BY <1>2, <1>3 DEF Like
<1> QED
  BY <1>1, <1>2, <1>5, <1>6

\* Devices that are alike are the same, or the same but for their options.
LEMMA LikeShown ==
    ASSUME NEW S, NEW v \in Views, NEW w \in Views, Like(S, v, w), NEW p \in Paths
    PROVE  IF p \in S THEN SameButOptions(v[p], w[p]) ELSE v[p] = w[p]
<1>1. CASE v[p] = NULL
  BY <1>1 DEF Like, SameButOptions
<1>2. CASE v[p] # NULL
  <2>1. v[p] \in Devices /\ w[p] \in Devices /\ w[p] # NULL
    BY <1>2 DEF Like, Views
  <2>2. Content(v[p]) = Content(w[p]) /\ v[p].mnt_point = w[p].mnt_point
    BY <1>2 DEF Like
  <2>3. CASE p \notin S
    <3>1. Mount(v[p]) = Mount(w[p])
      BY <1>2, <2>2, <2>3 DEF Like, Mount
    <3> QED
      BY <2>1, <2>2, <2>3, <3>1, SameDevice
  <2>4. CASE p \in S
    <3>1. ASSUME NEW a \in Devices, NEW b \in Devices, Content(a) = Content(b), a.mnt_point = b.mnt_point
          PROVE  [a EXCEPT !.mnt_opts = b.mnt_opts] = b
      BY <3>1 DEF Devices, Content
    <3> QED
      BY <1>2, <2>1, <2>2, <2>4, <3>1 DEF SameButOptions
  <2> QED
    BY <2>3, <2>4
<1> QED
  BY <1>1, <1>2

(***************************************************************************)
(* Replaying notifications on a list that has some of them already.  While *)
(* the replay goes from the list l to the list l through what the daemon   *)
(* had, w, what it makes of a device is between the two.                   *)
(***************************************************************************)
Between(w, l, r) ==
    /\ w = NULL /\ l = NULL => r = NULL
    /\ w # NULL /\ l # NULL => r # NULL
    /\ r # NULL => (w # NULL /\ Content(r) = Content(w)) \/ (l # NULL /\ Content(r) = Content(l))
    /\ r # NULL => (w # NULL /\ Mount(r) = Mount(w)) \/ (l # NULL /\ Mount(r) = Mount(l))

LEMMA ReplayStep ==
    ASSUME NEW w \in Views, NEW l \in Views, NEW r \in Views, Rooted(l),
           NEW note \in Notes, Fits(w, note), \A q \in Paths : Between(w[q], l[q], r[q])
    PROVE  \A q \in Paths :
              Between(processCommand(w, note)[q], l[q], processCommand(r, note)[q])
<1> DEFINE w1 == processCommand(w, note)
           r1 == processCommand(r, note)
<1>0. \A q \in Paths : IsPartition(q) => ParentOf[q] \in Paths
  BY PathAssumption DEF IsPartition
<1>1. ASSUME NEW p \in Paths, NEW k \in Kinds, NEW c \in ContentsOf, note = Added(p, k, c)
      PROVE  \A q \in Paths : Between(w1[q], l[q], r1[q])
  <2>1. w[p] = NULL /\ (IsPartition(p) => w[ParentOf[p]] # NULL)
    BY <1>1 DEF Fits, Added
  <2>2. /\ w1[p] # NULL /\ Content(w1[p]) = <<k, c>> /\ Mount(w1[p]) = <<NULL, NULL>>
        /\ \A q \in Paths \ {p} : w1[q] = w[q]
    BY <1>1, <2>1, AddedView
  <2>3. IF r[p] = NULL /\ (IsPartition(p) => r[ParentOf[p]] # NULL)
        THEN /\ r1[p] # NULL /\ Content(r1[p]) = <<k, c>> /\ Mount(r1[p]) = <<NULL, NULL>>
             /\ \A q \in Paths \ {p} : r1[q] = r[q]
        ELSE r1 = r
    BY <1>1, AddedView
  <2>4. r[p] = NULL /\ l[p] # NULL => (IsPartition(p) => r[ParentOf[p]] # NULL)
    BY <1>0, <2>1 DEF Rooted, Between
  <2> HIDE DEF w1, r1
  <2>5. Between(w1[p], l[p], r1[p])
    BY <2>1, <2>2, <2>3, <2>4 DEF Between
  <2> QED
    BY <2>2, <2>3, <2>5
<1>2. ASSUME NEW p \in Paths, NEW k \in Kinds, NEW c \in ContentsOf, note = Changed(p, k, c)
      PROVE  \A q \in Paths : Between(w1[q], l[q], r1[q])
  <2>1. w[p] # NULL
    BY <1>2 DEF Fits, Changed
  <2>2. /\ w1[p] # NULL /\ Content(w1[p]) = <<k, c>> /\ Mount(w1[p]) = <<NULL, NULL>>
        /\ \A q \in Paths \ {p} : w1[q] = w[q]
    BY <1>2, <2>1, ChangedView
  <2>3. IF r[p] # NULL
        THEN /\ r1[p] # NULL /\ Content(r1[p]) = <<k, c>> /\ Mount(r1[p]) = <<NULL, NULL>>
             /\ \A q \in Paths \ {p} : r1[q] = r[q]
        ELSE r1 = r
    BY <1>2, ChangedView
  <2> HIDE DEF w1, r1
  <2>5. Between(w1[p], l[p], r1[p])
    BY <2>1, <2>2, <2>3 DEF Between
  <2> QED
    BY <2>2, <2>3, <2>5
<1>3. ASSUME NEW p \in Paths, note = Removed(p)
      PROVE  \A q \in Paths : Between(w1[q], l[q], r1[q])
  <2>1. w[p] # NULL /\ \A q \in Paths : ParentOf[q] = p => w[q] = NULL
    BY <1>3 DEF Fits, Removed
  <2>2. \A q \in Paths : w1[q] = IF q = p \/ ParentOf[q] = p THEN NULL ELSE w[q]
    BY <1>3, <2>1, RemovedView
  <2>3. IF r[p] # NULL
        THEN \A q \in Paths : r1[q] = IF q = p \/ ParentOf[q] = p THEN NULL ELSE r[q]
        ELSE r1 = r
    BY <1>3, RemovedView
  <2> HIDE DEF w1, r1
  <2>4. ASSUME NEW q \in Paths
        PROVE  Between(w1[q], l[q], r1[q])
    <3>1. CASE q = p
      BY <2>1, <2>2, <2>3, <3>1 DEF Between
    <3>2. CASE q # p /\ ParentOf[q] = p
      <4>1. w1[q] = NULL /\ w[q] = NULL /\ (r1[q] = NULL \/ r1[q] = r[q])
        BY <2>1, <2>2, <2>3, <3>2
      <4> QED
        BY <4>1 DEF Between
    <3>3. CASE q # p /\ ParentOf[q] # p
      BY <2>2, <2>3, <3>3
    <3> QED
      BY <3>1, <3>2, <3>3
  <2> QED
    BY <2>4
<1>4. ASSUME NEW p \in Paths, w[p] # NULL, NEW mnt,
             w1[p] # NULL, Content(w1[p]) = Content(w[p]), Mount(w1[p]) = mnt,
             \A q \in Paths \ {p} : w1[q] = w[q],
             IF r[p] # NULL
             THEN /\ r1[p] # NULL /\ Content(r1[p]) = Content(r[p]) /\ Mount(r1[p]) = mnt
                  /\ \A q \in Paths \ {p} : r1[q] = r[q]
             ELSE r1 = r
      PROVE  \A q \in Paths : Between(w1[q], l[q], r1[q])
  <2> HIDE DEF w1, r1
  <2>1. Between(w1[p], l[p], r1[p])
    BY <1>4 DEF Between
  <2> QED
    BY <1>4, <2>1
<1>5. ASSUME NEW p \in Paths, NEW d \in Dirs, NEW o \in Opts, note = Mounted(p, d, o)
      PROVE  \A q \in Paths : Between(w1[q], l[q], r1[q])
  <2>1. w[p] # NULL
    BY <1>5 DEF Fits, Mounted
  <2>2. /\ w1[p] # NULL /\ Content(w1[p]) = Content(w[p]) /\ Mount(w1[p]) = <<d, o>>
        /\ \A q \in Paths \ {p} : w1[q] = w[q]
    BY <1>5, <2>1, MountedView
  <2>3. IF r[p] # NULL
        THEN /\ r1[p] # NULL /\ Content(r1[p]) = Content(r[p]) /\ Mount(r1[p]) = <<d, o>>
             /\ \A q \in Paths \ {p} : r1[q] = r[q]
        ELSE r1 = r
    BY <1>5, MountedView
  <2> HIDE DEF w1, r1
  <2> QED
    BY <1>4, <2>1, <2>2, <2>3
<1>6. ASSUME NEW p \in Paths, NEW d \in Dirs, note = Unmounted(p, d)
      PROVE  \A q \in Paths : Between(w1[q], l[q], r1[q])
  <2>1. w[p] # NULL
    BY <1>6 DEF Fits, Unmounted
  <2>2. /\ w1[p] # NULL /\ Content(w1[p]) = Content(w[p]) /\ Mount(w1[p]) = <<NULL, NULL>>
        /\ \A q \in Paths \ {p} : w1[q] = w[q]
    BY <1>6, <2>1, UnmountedView
  <2>3. IF r[p] # NULL
        THEN /\ r1[p] # NULL /\ Content(r1[p]) = Content(r[p]) /\ Mount(r1[p]) = <<NULL, NULL>>
             /\ \A q \in Paths \ {p} : r1[q] = r[q]
        ELSE r1 = r
    BY <1>6, UnmountedView
  <2> HIDE DEF w1, r1
  <2> QED
    BY <1>4, <2>1, <2>2, <2>3
<1> QED
  BY <1>1, <1>2, <1>3, <1>5, <1>6, NoteCases

\* A message of the daemon that the devices v make it send, and the devices after
\* it, but for the options of the devices in S.
Tells(S, v, msg, w) ==
    IF msg.op = "list" THEN (\E u \in Views : msg = List(u) /\ Like(S, u, v)) /\ w = v
    ELSE msg \in Notes /\ Fits(v, msg) /\ w = processCommand(v, msg)

\* h[k] is what the daemon knew after k of the messages.
Told(S, h, msgs) ==
    /\ Sequence(msgs)
    /\ h \in [0..Len(msgs) -> Views]
    /\ \A k \in 0..Len(msgs) : Rooted(h[k])
    /\ \A k \in 1..Len(msgs) : Tells(S, h[k - 1], msgs[k], h[k])

\* What differs in the options of some devices differs in those of more.
LEMMA ToldMore ==
    ASSUME NEW S, NEW T, S \subseteq T, NEW h, NEW msgs, Told(S, h, msgs)
    PROVE  Told(T, h, msgs)
<1>1. \A k \in 1..Len(msgs) : Tells(T, h[k - 1], msgs[k], h[k])
  BY LikeMore DEF Told, Tells
<1> QED
  BY <1>1 DEF Told

LEMMA TellsFacts ==
    ASSUME NEW S, NEW v \in Views, Rooted(v), NEW msg, NEW w, Tells(S, v, msg, w)
    PROVE  w \in Views /\ Rooted(w)
  BY ViewStep, RootedStep DEF Tells

LEMMA ToldNone ==
    ASSUME NEW S, NEW v \in Views, Rooted(v)
    PROVE  \E h : Told(S, h, <<>>) /\ h[0] = v
<1> DEFINE h == [k \in 0..0 |-> v]
<1>1. Sequence(<<>>) /\ Len(<<>>) = 0
  BY DEF Sequence
<1>2. Told(S, h, <<>>) /\ h[0] = v
  BY <1>1 DEF Told
<1> QED
  BY <1>2

\* msg is sent after msgs, which makes t.
Sends(S, h, msgs, msg, v, t) ==
    Told(S, h, msgs) /\ Tells(S, h[Len(msgs)], msg, v) /\ t = Append(msgs, msg)

LEMMA ToldAppend ==
    ASSUME NEW S, NEW h, NEW msgs, NEW msg, NEW v, NEW t, Sends(S, h, msgs, msg, v, t)
    PROVE  \E g : /\ Told(S, g, t) /\ g[Len(t)] = v /\ Len(t) = Len(msgs) + 1
                  /\ \A k \in 0..Len(msgs) : g[k] = h[k]
<1> DEFINE n == Len(msgs)
           g == [k \in 0..(n + 1) |-> IF k = n + 1 THEN v ELSE h[k]]
<1>0. Told(S, h, msgs) /\ Tells(S, h[n], msg, v) /\ t = Append(msgs, msg)
  BY DEF Sends
<1>1. Sequence(msgs) /\ n \in Nat /\ DOMAIN msgs = 1..n
  BY <1>0, SequenceFacts DEF Told
<1>2. /\ Sequence(t) /\ DOMAIN t = 1..(n + 1) /\ Len(t) \in Nat /\ DOMAIN t = 1..Len(t)
      /\ \A i \in 1..n : t[i] = msgs[i]
      /\ t[n + 1] = msg
  BY <1>0, <1>1, AppendFacts, SequenceFacts
<1>3. Len(t) = n + 1
  BY <1>1, <1>2
<1>4. v \in Views /\ Rooted(v)
  <2>1. n \in 0..n
    BY <1>1
  <2>2. h[n] \in Views /\ Rooted(h[n])
    BY <1>0, <2>1 DEF Told
  <2> QED
    BY <1>0, <2>2, TellsFacts
<1>5. \A k \in 0..n : k # n + 1 /\ k \in 0..(n + 1)
  BY <1>1
<1>6. n + 1 \in 0..(n + 1) /\ \A k \in 0..(n + 1) : k = n + 1 \/ k \in 0..n
  BY <1>1
<1>7. g[n + 1] = v /\ \A k \in 0..n : g[k] = h[k]
  BY <1>5, <1>6
<1>8. g \in [0..(n + 1) -> Views] /\ \A k \in 0..(n + 1) : Rooted(g[k])
  <2>1. \A k \in 0..n : h[k] \in Views /\ Rooted(h[k])
    BY <1>0 DEF Told
  <2>2. \A k \in 0..(n + 1) : g[k] \in Views /\ Rooted(g[k])
    <3> HIDE DEF g, n
    <3> QED
      BY <1>4, <1>6, <1>7, <2>1
  <2> QED
    BY <2>2
<1>9. ASSUME NEW k \in 1..(n + 1)
      PROVE  Tells(S, g[k - 1], t[k], g[k])
  <2>1. CASE k = n + 1
    <3>1. k - 1 = n /\ n \in 0..n
      BY <1>1, <2>1
    <3>2. g[k - 1] = h[n] /\ t[k] = msg /\ g[k] = v
      <4> HIDE DEF g
      <4> QED
        BY <1>2, <1>7, <2>1, <3>1
    <3> HIDE DEF g
    <3> QED
      BY <1>0, <3>2
  <2>2. CASE k # n + 1
    <3>1. k \in 1..n /\ k \in 0..n /\ k - 1 \in 0..n
      BY <1>1, <2>2
    <3> HIDE DEF g
    <3>2. g[k - 1] = h[k - 1] /\ t[k] = msgs[k] /\ g[k] = h[k]
      BY <1>2, <1>7, <3>1
    <3>3. Tells(S, h[k - 1], msgs[k], h[k])
      BY <1>0, <3>1 DEF Told
    <3> QED
      BY <3>2, <3>3
  <2> QED
    BY <2>1, <2>2
<1> HIDE DEF g
<1>10. Told(S, g, t)
  BY <1>2, <1>3, <1>8, <1>9 DEF Told
<1> QED
  BY <1>3, <1>7, <1>10

LEMMA ToldTail ==
    ASSUME NEW S, NEW h, NEW msgs, Told(S, h, msgs), msgs # <<>>
    PROVE  /\ Tells(S, h[0], Head(msgs), h[1])
           /\ \E g : /\ Told(S, g, Tail(msgs)) /\ g[0] = h[1]
                     /\ g[Len(Tail(msgs))] = h[Len(msgs)]
<1> DEFINE n == Len(msgs)
           t == Tail(msgs)
           g == [k \in 0..(n - 1) |-> h[k + 1]]
<1>1. /\ Sequence(msgs) /\ n \in Nat /\ n > 0 /\ Head(msgs) = msgs[1]
      /\ Sequence(t) /\ Len(t) = n - 1 /\ \A i \in 1..(n - 1) : t[i] = msgs[i + 1]
  <2>1. Sequence(msgs) /\ Sequence(t) /\ n \in Nat /\ DOMAIN msgs = 1..n
    BY TailFacts, SequenceFacts DEF Told
  <2>2. msgs \in Seq(ToSet(msgs))
    BY <2>1 DEF Sequence
  <2>3. Head(msgs) = msgs[1] /\ n > 0 /\ Len(t) = n - 1 /\ \A i \in 1..(n - 1) : t[i] = msgs[i + 1]
    <3> DEFINE E == ToSet(msgs)
    <3>1. msgs \in Seq(E)
      BY <2>2
    <3> HIDE DEF E
    <3> QED
      BY <3>1
  <2> QED
    BY <2>1, <2>3
<1> HIDE DEF t
<1>2. Tells(S, h[0], Head(msgs), h[1])
  <2>1. 1 \in 1..n /\ 1 - 1 = 0
    BY <1>1
  <2>2. Tells(S, h[1 - 1], msgs[1], h[1])
    BY <2>1 DEF Told
  <2> QED
    BY <1>1, <2>1, <2>2
<1>3. \A k \in 0..(n - 1) : k + 1 \in 0..n /\ g[k] = h[k + 1]
  BY <1>1
<1>4. g \in [0..(n - 1) -> Views] /\ \A k \in 0..(n - 1) : Rooted(g[k])
  BY <1>3 DEF Told
<1>5. ASSUME NEW k \in 1..(n - 1)
      PROVE  Tells(S, g[k - 1], t[k], g[k])
  <2>1. k - 1 \in 0..(n - 1) /\ k \in 0..(n - 1) /\ k - 1 + 1 = k /\ k + 1 \in 1..n /\ (k + 1) - 1 = k
    BY <1>1
  <2>2. Tells(S, h[(k + 1) - 1], msgs[k + 1], h[k + 1])
    BY <2>1 DEF Told
  <2>3. g[k - 1] = h[k] /\ g[k] = h[k + 1]
    BY <1>3, <2>1
  <2> HIDE DEF g
  <2> QED
    BY <1>1, <2>1, <2>2, <2>3
<1>6. g[0] = h[1] /\ g[Len(t)] = h[n]
  <2>1. 0 \in 0..(n - 1) /\ n - 1 \in 0..(n - 1) /\ (n - 1) + 1 = n /\ 0 + 1 = 1
    BY <1>1
  <2> HIDE DEF g
  <2> QED
    BY <1>1, <1>3, <2>1
<1> HIDE DEF g
<1>7. Told(S, g, t)
  BY <1>1, <1>4, <1>5 DEF Told
<1> QED
  BY <1>2, <1>6, <1>7 DEF t

\* The notifications that led from h[0] to the last of h, replayed on any of the
\* lists in between, end at the last as well.
LEMMA Replay ==
    ASSUME NEW S, NEW notes \in Seq(Notes), NEW h, Told(S, h, notes), NEW j \in 0..Len(notes)
    PROVE  Follow(h[j], notes) = h[Len(notes)]
<1> DEFINE n == Len(notes)
           l == h[j]
<1>1. Sequence(notes) /\ n \in Nat /\ \A k \in 1..n : notes[k] \in Notes
  BY SequenceOf
<1>2. PICK r : Course(r, l, notes) /\ Follow(l, notes) = r[n]
  BY <1>1, FollowIsCourse
<1>3. r[0] = l /\ \A k \in 1..n : r[k] = processCommand(r[k - 1], notes[k])
  <2>1. r = [k \in 0..n |-> IF k = 0 THEN l ELSE processCommand(r[k - 1], notes[k])]
    BY <1>2 DEF Course
  <2>2. 0 \in 0..n /\ \A k \in 1..n : k \in 0..n /\ k # 0
    BY <1>1
  <2> HIDE DEF l, n
  <2> QED
    BY <2>1, <2>2
<1>4. l \in Views /\ Rooted(l) /\ \A k \in 0..n : h[k] \in Views
  BY DEF Told
<1>5. \A k \in 1..n : Fits(h[k - 1], notes[k]) /\ h[k] = processCommand(h[k - 1], notes[k])
  BY <1>1, NoteFacts DEF Told, Tells
<1> HIDE DEF l, n
<1> DEFINE Good(k) == r[k] \in Views /\ \A q \in Paths : Between(h[k][q], l[q], r[k][q])
           B == {k \in 0..j : ~Good(k)}
<1>6. ASSUME B # {}
      PROVE  FALSE
  <2>0. B \in SUBSET Nat
    OBVIOUS
  <2>1. PICK k \in B : \A y \in B : k <= y
    BY <1>6, <2>0, MinFacts
  <2>2. k \in 0..j /\ ~Good(k)
    OBVIOUS
  <2>3. k # 0
    <3>1. Good(0)
      BY <1>3, <1>4 DEF Between
    <3> QED
      BY <2>2, <3>1
  <2>4. k - 1 \in 0..j /\ k \in 1..n /\ k - 1 \in 0..n /\ ~(k <= k - 1)
    BY <1>1, <2>2, <2>3 DEF n
  <2>5. Good(k - 1)
    <3>1. k - 1 \notin B
      <4> HIDE DEF B
      <4> QED
        BY <2>1, <2>4
    <3> QED
      BY <2>4, <3>1
  <2>6. /\ r[k] = processCommand(r[k - 1], notes[k]) /\ h[k] = processCommand(h[k - 1], notes[k])
        /\ Fits(h[k - 1], notes[k]) /\ notes[k] \in Notes /\ h[k - 1] \in Views
    BY <1>1, <1>3, <1>4, <1>5, <2>4
  <2>7. r[k] \in Views
    BY <2>5, <2>6, ViewStep
  <2>8. \A q \in Paths : Between(h[k][q], l[q], r[k][q])
    BY <1>4, <2>5, <2>6, ReplayStep
  <2> QED
    BY <2>2, <2>7, <2>8
<1>7. r[j] = l
  <2>1. Good(j)
    BY <1>6
  <2>2. ASSUME NEW q \in Paths
        PROVE  r[j][q] = l[q]
    <3>1. /\ l[q] \in Devices \cup {NULL} /\ r[j][q] \in Devices \cup {NULL}
          /\ Between(l[q], l[q], r[j][q])
      BY <1>4, <2>1 DEF Views, l
    <3>2. CASE l[q] = NULL
      BY <3>1, <3>2 DEF Between
    <3>3. CASE l[q] # NULL
      <4>1. r[j][q] # NULL /\ Content(r[j][q]) = Content(l[q]) /\ Mount(r[j][q]) = Mount(l[q])
        BY <3>1, <3>3 DEF Between
      <4> QED
        BY <3>1, <3>3, <4>1, SameDevice
    <3> QED
      BY <3>2, <3>3
  <2> QED
    BY <1>4, <2>1, <2>2 DEF Views
<1> DEFINE C == {k \in j..n : r[k] # h[k]}
<1>8. ASSUME C # {}
      PROVE  FALSE
  <2>0. C \in SUBSET Nat
    BY <1>1
  <2>1. PICK k \in C : \A y \in C : k <= y
    BY <1>8, <2>0, MinFacts
  <2>2. k \in j..n /\ r[k] # h[k]
    OBVIOUS
  <2>3. k # j
    BY <1>7, <2>2 DEF l
  <2>4. k - 1 \in j..n /\ k \in 1..n /\ ~(k <= k - 1)
    BY <1>1, <2>2, <2>3
  <2>5. r[k - 1] = h[k - 1]
    <3>1. k - 1 \notin C
      <4> HIDE DEF C
      <4> QED
        BY <2>1, <2>4
    <3> QED
      BY <2>4, <3>1
  <2> QED
    BY <1>3, <1>5, <2>2, <2>4, <2>5
<1>9. n \in j..n
  BY <1>1 DEF n
<1> QED
  BY <1>2, <1>8, <1>9 DEF l, n

(***************************************************************************)
(* Types.                                                                  *)
(***************************************************************************)
Commands == [note : Notes, connection : Nat]

TypeInv ==
    /\ TypeOK
    /\ Sequence(stream)
    /\ \A i \in DOMAIN stream : stream[i] \in Notes \/ \E v \in Views : stream[i] = List(v)
    /\ m_saved_commands \in Seq(Commands)
    /\ connection \in Nat

Slots == {"connected", "disconnected", "menu"}

LEMMA AppendSet ==
    ASSUME NEW s, Sequence(s), NEW e
    PROVE  ToSet(Append(s, e)) = ToSet(s) \cup {e} /\ Append(s, e) # <<>>
<1>1. /\ DOMAIN Append(s, e) = 1..(Len(s) + 1) /\ Append(s, e)[Len(s) + 1] = e
      /\ \A i \in DOMAIN s : Append(s, e)[i] = s[i]
      /\ \A i \in DOMAIN Append(s, e) : i \in DOMAIN s \/ i = Len(s) + 1
      /\ Len(s) \in Nat /\ DOMAIN s = 1..Len(s)
  BY AppendFacts, SequenceFacts
<1>2. Len(s) + 1 \in DOMAIN Append(s, e) /\ \A i \in DOMAIN s : i \in DOMAIN Append(s, e)
  BY <1>1
<1>3. Append(s, e) # <<>>
  BY <1>2
<1>4. ToSet(s) \cup {e} \subseteq ToSet(Append(s, e))
  BY <1>1, <1>2 DEF ToSet
<1>5. ToSet(Append(s, e)) \subseteq ToSet(s) \cup {e}
  BY <1>1, <1>2 DEF ToSet
<1> QED
  BY <1>3, <1>4, <1>5

LEMMA MessageFacts ==
    ASSUME TypeInv, stream # <<>>
    PROVE  /\ Head(stream) \in Notes \/ \E v \in Views : Head(stream) = List(v)
           /\ Head(stream).op = "list" => Head(stream).view \in Views
           /\ Head(stream).op # "list" => Head(stream) \in Notes
           /\ Sequence(Tail(stream))
           /\ \A i \in DOMAIN Tail(stream) :
                 Tail(stream)[i] \in Notes \/ \E v \in Views : Tail(stream)[i] = List(v)
<1>1. /\ Sequence(Tail(stream)) /\ 1 \in DOMAIN stream /\ Head(stream) = stream[1]
      /\ \A i \in DOMAIN Tail(stream) : i + 1 \in DOMAIN stream /\ Tail(stream)[i] = stream[i + 1]
  BY TailFacts DEF TypeInv
<1>2. Head(stream) \in Notes \/ \E v \in Views : Head(stream) = List(v)
  BY <1>1 DEF TypeInv
<1>3. ASSUME NEW v
      PROVE  List(v).op = "list" /\ List(v).view = v
  BY DEF List
<1>4. \A i \in DOMAIN Tail(stream) :
         Tail(stream)[i] \in Notes \/ \E v \in Views : Tail(stream)[i] = List(v)
  BY <1>1 DEF TypeInv
<1> QED
  BY <1>1, <1>2, <1>3, <1>4, NoteFacts

\* The notification that comes changes the devices, or is saved.
LEMMA CallbackFacts ==
    ASSUME TypeInv, NEW note \in Notes, dtmd_callback(note)
    PROVE  /\ m_devices' \in Views /\ m_devices_initialized' = m_devices_initialized
           /\ posted' \in Seq(Slots) /\ m_saved_commands' \in Seq(Commands)
           /\ m_devices_initialized =>
                 m_devices' = processCommand(m_devices, note) /\ m_saved_commands' = m_saved_commands
           /\ ~m_devices_initialized =>
                 /\ m_devices' = m_devices
                 /\ m_saved_commands' =
                        Append(m_saved_commands, [note |-> note, connection |-> connection])
           /\ (posted' = posted /\ m_devices' = m_devices) \/ posted' = Append(posted, "menu")
<1>0. posted \in Seq(Slots) /\ m_devices \in Views
  BY DEF TypeInv, TypeOK, Slots
<1>1. processCommand(m_devices, note) \in Views
  BY <1>0, ViewStep
<1>2. ~Modified(m_devices, note) => processCommand(m_devices, note) = m_devices
  BY DEF Modified, processCommand
<1>3. [note |-> note, connection |-> connection] \in Commands
  BY DEF TypeInv, Commands
<1>4. Append(posted, "menu") \in Seq(Slots)
  BY <1>0 DEF Slots
<1>5. Append(m_saved_commands, [note |-> note, connection |-> connection]) \in Seq(Commands)
  BY <1>3 DEF TypeInv
<1>6. CASE m_devices_initialized
  BY <1>0, <1>1, <1>2, <1>4, <1>6 DEF dtmd_callback, TypeInv
<1>7. CASE ~m_devices_initialized
  BY <1>0, <1>5, <1>7 DEF dtmd_callback
<1> QED
  BY <1>6, <1>7

LEMMA SavedFacts ==
    ASSUME TypeInv
    PROVE  /\ SavedNotes \in Seq(Notes) /\ Len(SavedNotes) = Len(m_saved_commands)
           /\ \A i \in DOMAIN m_saved_commands : SavedNotes[i] = m_saved_commands[i].note
           /\ Sequence(SavedNotes) /\ Sequence(m_saved_commands)
<1>1. /\ m_saved_commands \in Seq(Commands) /\ Len(m_saved_commands) \in Nat
      /\ DOMAIN m_saved_commands = 1..Len(m_saved_commands)
      /\ \A i \in DOMAIN m_saved_commands : m_saved_commands[i] \in Commands
  BY DEF TypeInv
<1>2. \A i \in DOMAIN m_saved_commands : m_saved_commands[i].note \in Notes
  BY <1>1 DEF Commands
<1>3. SavedNotes \in [1..Len(m_saved_commands) -> Notes]
  BY <1>1, <1>2 DEF SavedNotes
<1>4. \A i \in DOMAIN m_saved_commands : SavedNotes[i] = m_saved_commands[i].note
  BY DEF SavedNotes
<1> QED
  BY <1>1, <1>3, <1>4, FunctionIsSeq, SequenceOf

LEMMA StoredList ==
    ASSUME TypeInv
    PROVE  Follow(temp_devices, SavedNotes) \in Views /\ EmptyView \in Views
<1>1. temp_devices \in Views /\ SavedNotes \in Seq(Notes)
  BY SavedFacts DEF TypeInv, TypeOK
<1>2. EmptyView \in Views
  BY DEF EmptyView, Views
<1> QED
  BY <1>1, <1>2, FollowIn, ViewStep

LEMMA TypeInit ==
    ASSUME Init
    PROVE  TypeInv
<1>1. EmptyView \in Views
  BY DEF EmptyView, Views
<1>2. truth \in Views /\ link \in {"none", "open", "closed"}
  BY ControlAssumption DEF Init
<1>3. Sequence(<<>>) /\ DOMAIN <<>> = {}
  BY DEF Sequence
<1>4. /\ \A i \in DOMAIN stream : stream[i].op = "list" \/ stream[i] \in Notes
      /\ \A i \in DOMAIN m_saved_commands : m_saved_commands[i].note \in Notes
      /\ posted \in Seq({"connected", "disconnected", "menu"})
  BY <1>3 DEF Init
<1>5. daemon \in BOOLEAN /\ m_devices_initialized \in BOOLEAN
  BY DEF Init
<1>6. TypeOK
  BY <1>1, <1>2, <1>4, <1>5 DEF Init, TypeOK
<1> QED
  BY <1>3, <1>6 DEF Init, TypeInv

\* Every step keeps the types.
LEMMA TypeStep ==
    ASSUME TypeInv, [Next]_vars
    PROVE  TypeInv'
<1> USE DEF vars, server, socket, control, history, bounds
<1>a. ASSUME TypeOK', stream' = stream, m_saved_commands' = m_saved_commands, connection' = connection
      PROVE  TypeInv'
  BY <1>a DEF TypeInv
<1>b. ASSUME TypeOK', stream' = Tail(stream), stream # <<>>, m_saved_commands' \in Seq(Commands),
             connection' = connection
      PROVE  TypeInv'
  BY <1>b, MessageFacts DEF TypeInv
<1>c. ASSUME NEW msg, msg \in Notes \/ \E v \in Views : msg = List(v), stream' = Append(stream, msg)
      PROVE  /\ Sequence(stream')
             /\ \A i \in DOMAIN stream' : stream'[i] \in Notes \/ \E v \in Views : stream'[i] = List(v)
             /\ \A i \in DOMAIN stream' : stream'[i].op = "list" \/ stream'[i] \in Notes
  <2>1. /\ Sequence(stream')
        /\ \A i \in DOMAIN stream : stream'[i] = stream[i]
        /\ stream'[Len(stream) + 1] = msg
        /\ \A i \in DOMAIN stream' : i \in DOMAIN stream \/ i = Len(stream) + 1
    BY <1>c, AppendFacts DEF TypeInv
  <2>2. \A v \in Views : List(v).op = "list"
    BY DEF List
  <2> QED
    BY <1>c, <2>1, <2>2 DEF TypeInv
<1>d. ASSUME stream # <<>>
      PROVE  \A i \in DOMAIN Tail(stream) : Tail(stream)[i].op = "list" \/ Tail(stream)[i] \in Notes
  <2>1. \A v \in Views : List(v).op = "list"
    BY DEF List
  <2> QED
    BY <1>d, <2>1, MessageFacts
<1>e. \A s \in Seq(Commands) : \A i \in DOMAIN s : s[i].note \in Notes
  <2>1. \A s \in Seq(Commands) : \A i \in DOMAIN s : s[i] \in Commands
    OBVIOUS
  <2> QED
    BY <2>1 DEF Commands
<1>f. posted # <<>> => Tail(posted) \in Seq({"connected", "disconnected", "menu"})
  BY DEF TypeInv, TypeOK
<1>1. ASSUME NEW note \in Notes, DeviceChanges(note)
      PROVE  TypeInv'
  <2>1. truth' \in Views
    BY <1>1, ViewStep DEF DeviceChanges, TypeInv, TypeOK
  <2>2. CASE link = "open"
    <3>1. stream' = Append(stream, note)
      BY <1>1, <2>2 DEF DeviceChanges
    <3>2. /\ Sequence(stream')
          /\ \A i \in DOMAIN stream' : stream'[i] \in Notes \/ \E v \in Views : stream'[i] = List(v)
          /\ \A i \in DOMAIN stream' : stream'[i].op = "list" \/ stream'[i] \in Notes
      BY <1>c, <3>1
    <3> QED
      BY <1>1, <2>1, <3>2 DEF DeviceChanges, TypeInv, TypeOK
  <2>3. CASE link # "open"
    BY <1>1, <2>1, <2>3 DEF DeviceChanges, TypeInv, TypeOK
  <2> QED
    BY <2>2, <2>3
<1>O. ASSUME NEW p \in Paths, NEW opts \in Opts, OptionsChange(p, opts)
      PROVE  TypeInv'
  <2>0. truth \in Views /\ truth[p] # NULL /\ truth' = [truth EXCEPT ![p].mnt_opts = opts]
    BY <1>O DEF OptionsChange, TypeInv, TypeOK
  <2>1. truth' \in Views
    BY <2>0, RemountFacts
  <2>2. remounted' \subseteq Paths
    BY <1>O DEF OptionsChange, TypeInv, TypeOK
  <2>3. TypeOK'
    BY <1>O, <2>1, <2>2 DEF OptionsChange, TypeInv, TypeOK
  <2> QED
    BY <1>O, <1>a, <2>3 DEF OptionsChange
<1>2. ASSUME DaemonAnswers
      PROVE  TypeInv'
  <2>1. stream' = Append(stream, List(truth)) /\ truth \in Views
    BY <1>2 DEF DaemonAnswers, TypeInv, TypeOK
  <2>2. /\ Sequence(stream')
        /\ \A i \in DOMAIN stream' : stream'[i] \in Notes \/ \E v \in Views : stream'[i] = List(v)
        /\ \A i \in DOMAIN stream' : stream'[i].op = "list" \/ stream'[i] \in Notes
    BY <1>c, <2>1
  <2>3. request' \in Nat
    BY <1>2 DEF DaemonAnswers, TypeInv, TypeOK
  <2> QED
    BY <1>2, <2>2, <2>3 DEF DaemonAnswers, TypeInv, TypeOK
<1>3. ASSUME DaemonCrashes \/ DaemonStarts
      PROVE  TypeInv'
  <2>0. daemon' \in BOOLEAN
    BY <1>3 DEF DaemonCrashes, DaemonStarts
  <2>1. request' \in Nat /\ link' \in {"none", "open", "closed"}
    BY <1>3 DEF DaemonCrashes, DaemonStarts, TypeInv, TypeOK
  <2>2. TypeOK'
    BY <1>3, <2>0, <2>1 DEF DaemonCrashes, DaemonStarts, TypeInv, TypeOK
  <2> QED
    BY <1>3, <1>a, <2>2 DEF DaemonCrashes, DaemonStarts
<1>4. ASSUME WorkerReads
      PROVE  TypeInv'
  <2>1. CASE Head(stream).op = "list"
    <3>1. TypeOK'
      BY <1>4, <1>d, <2>1 DEF WorkerReads, TypeInv, TypeOK
    <3> QED
      BY <1>4, <1>b, <2>1, <3>1 DEF WorkerReads, TypeInv
  <2>2. CASE Head(stream).op # "list"
    <3>1. Head(stream) \in Notes /\ dtmd_callback(Head(stream))
      BY <1>4, <2>2, MessageFacts DEF WorkerReads
    <3>2. /\ m_devices' \in Views /\ m_devices_initialized' = m_devices_initialized
          /\ posted' \in Seq({"connected", "disconnected", "menu"}) /\ m_saved_commands' \in Seq(Commands)
      BY <3>1, CallbackFacts DEF Slots
    <3>3. TypeOK'
      BY <1>4, <1>d, <1>e, <3>2 DEF WorkerReads, TypeInv, TypeOK
    <3> QED
      BY <1>4, <1>b, <3>2, <3>3 DEF WorkerReads
  <2> QED
    BY <2>1, <2>2
<1>5. ASSUME WorkerDisconnects
      PROVE  TypeInv'
  <2>1. Sequence(<<>>) /\ DOMAIN <<>> = {}
    BY DEF Sequence
  <2> QED
    BY <1>5, <2>1 DEF WorkerDisconnects, TypeInv, TypeOK
<1>6. ASSUME WorkerConnects
      PROVE  TypeInv'
  BY <1>6 DEF WorkerConnects, TypeInv, TypeOK
<1>7. ASSUME ListBegins
      PROVE  TypeInv'
  <2>1. TypeOK'
    BY <1>7 DEF ListBegins, TypeInv, TypeOK
  <2> QED
    BY <1>7, <1>a, <2>1 DEF ListBegins
<1>8. ASSUME ListReads
      PROVE  TypeInv'
  <2>1. CASE Head(stream).op = "list"
    <3>1. temp_devices' \in Views
      BY <1>8, <2>1, MessageFacts DEF ListReads
    <3>2. TypeOK'
      BY <1>8, <1>d, <2>1, <3>1 DEF ListReads, TypeInv, TypeOK
    <3> QED
      BY <1>8, <1>b, <2>1, <3>2 DEF ListReads, TypeInv
  <2>2. CASE Head(stream).op # "list"
    <3>1. Head(stream) \in Notes /\ dtmd_callback(Head(stream))
      BY <1>8, <2>2, MessageFacts DEF ListReads
    <3>2. /\ m_devices' \in Views /\ m_devices_initialized' = m_devices_initialized
          /\ posted' \in Seq({"connected", "disconnected", "menu"}) /\ m_saved_commands' \in Seq(Commands)
      BY <3>1, CallbackFacts DEF Slots
    <3>3. TypeOK'
      BY <1>8, <1>d, <1>e, <2>2, <3>2 DEF ListReads, TypeInv, TypeOK
    <3> QED
      BY <1>8, <1>b, <3>2, <3>3 DEF ListReads
  <2> QED
    BY <2>1, <2>2
<1>9. ASSUME ListEnds \/ ListTimesOut \/ BuildMenu
      PROVE  TypeInv'
  <2>1. TypeOK'
    BY <1>9 DEF ListEnds, ListTimesOut, BuildMenu, TypeInv, TypeOK
  <2> QED
    BY <1>9, <1>a, <2>1 DEF ListEnds, ListTimesOut, BuildMenu
<1>10. ASSUME StoreList
       PROVE  TypeInv'
  <2>1. m_devices' \in Views /\ temp_devices' \in Views
    BY <1>10, StoredList DEF StoreList
  <2>2. <<>> \in Seq(Commands) /\ DOMAIN <<>> = {}
    OBVIOUS
  <2> QED
    BY <1>10, <2>1, <2>2 DEF StoreList, TypeInv, TypeOK
<1>11. ASSUME slotDtmdConnected \/ slotDtmdDisconnected \/ slotBuildMenu
       PROVE  TypeInv'
  <2>1. TypeOK'
    BY <1>11, <1>f, StoredList
       DEF slotDtmdConnected, slotDtmdDisconnected, slotBuildMenu, TypeInv, TypeOK
  <2> QED
    BY <1>11, <1>a, <2>1 DEF slotDtmdConnected, slotDtmdDisconnected, slotBuildMenu
<1>12. ASSUME UNCHANGED vars
       PROVE  TypeInv'
  <2>1. TypeOK'
    BY <1>12 DEF TypeInv, TypeOK
  <2> QED
    BY <1>12, <1>a, <2>1
<1> QED
  BY <1>1, <1>O, <1>2, <1>3, <1>4, <1>5, <1>6, <1>7, <1>8, <1>9, <1>10, <1>11, <1>12
     DEF Next, Worker, Main, Idle

\* The threads share the connection, and every list, notification and slot is of
\* its type, after any number of changes, crashes and timeouts.
THEOREM TypeCorrect == Spec => []TypeOK
<1>1. Spec => []TypeInv
  BY TypeInit, TypeStep, PTL DEF Spec
<1>2. TypeInv => TypeOK
  BY DEF TypeInv
<1> QED
  BY <1>1, <1>2, PTL

(***************************************************************************)
(* The connection and the slots that tell of it.                           *)
(***************************************************************************)
\* A disconnection that is still to be told is followed by a connection.
Answered(s) ==
    \A i \in DOMAIN s : s[i] = "disconnected" => \E k \in DOMAIN s : k > i /\ s[k] = "connected"

Announced(slot) == slot \in ToSet(posted)

SlotInv ==
    /\ m_devices_initialized => m_saved_commands = <<>>
    /\ ~m_devices_initialized => m_devices = EmptyView
    /\ pc = "list" => link # "none"
    /\ link = "none" => stream = <<>>
    /\ link = "none" /\ ~Announced("disconnected") => ~m_devices_initialized /\ pc # "store"
    /\ pc = "loop" /\ posted = <<>> => m_menu = m_devices
    /\ link = "open" /\ ~m_devices_initialized /\ ~Announced("connected") /\ pc \in {"menu", "loop"} =>
          result = "timeout"
    /\ link = "open" => Answered(posted)
    /\ \A i \in DOMAIN m_saved_commands : m_saved_commands[i].connection <= connection

LEMMA AnsweredAppend ==
    ASSUME NEW s, Sequence(s), NEW e, e = "connected" \/ (e # "disconnected" /\ Answered(s))
    PROVE  Answered(Append(s, e))
<1>1. /\ DOMAIN Append(s, e) = 1..(Len(s) + 1) /\ Append(s, e)[Len(s) + 1] = e
      /\ \A i \in DOMAIN s : Append(s, e)[i] = s[i]
      /\ \A i \in DOMAIN Append(s, e) : i \in DOMAIN s \/ i = Len(s) + 1
      /\ Len(s) \in Nat /\ DOMAIN s = 1..Len(s)
  BY AppendFacts, SequenceFacts
<1>2. Len(s) + 1 \in DOMAIN Append(s, e) /\ \A i \in DOMAIN s : i \in DOMAIN Append(s, e) /\ Len(s) + 1 > i
  BY <1>1
<1>3. ASSUME NEW i \in DOMAIN Append(s, e), Append(s, e)[i] = "disconnected"
      PROVE  \E k \in DOMAIN Append(s, e) : k > i /\ Append(s, e)[k] = "connected"
  <2>1. i \in DOMAIN s /\ s[i] = "disconnected"
    BY <1>1, <1>3
  <2>2. CASE e = "connected"
    BY <1>1, <1>2, <2>1, <2>2
  <2>3. CASE Answered(s)
    <3>1. PICK k \in DOMAIN s : k > i /\ s[k] = "connected"
      BY <2>1, <2>3 DEF Answered
    <3> QED
      BY <1>1, <1>2, <3>1
  <2> QED
    BY <2>2, <2>3
<1> QED
  BY <1>3 DEF Answered

LEMMA AnsweredTail ==
    ASSUME NEW s, Sequence(s), s # <<>>, Answered(s)
    PROVE  /\ Answered(Tail(s))
           /\ Head(s) = "disconnected" => "connected" \in ToSet(Tail(s))
<1> DEFINE n == Len(s)
           t == Tail(s)
<1>1. /\ n \in Nat /\ DOMAIN s = 1..n /\ Head(s) = s[1] /\ 1 \in DOMAIN s
      /\ Sequence(t) /\ DOMAIN t = 1..(n - 1) /\ \A i \in 1..(n - 1) : t[i] = s[i + 1]
  <2>1. s \in Seq(ToSet(s))
    BY DEF Sequence
  <2>2. n \in Nat /\ DOMAIN s = 1..n /\ DOMAIN t = 1..(n - 1) /\ \A i \in 1..(n - 1) : t[i] = s[i + 1]
    <3> DEFINE S == ToSet(s)
    <3>1. s \in Seq(S)
      BY <2>1
    <3> HIDE DEF S
    <3> QED
      BY <3>1
  <2> QED
    BY <2>2, TailFacts
<1> HIDE DEF n, t
<1>2. ASSUME NEW i \in DOMAIN s, s[i] = "disconnected"
      PROVE  \E k \in DOMAIN t : k + 1 > i /\ t[k] = "connected"
  <2>1. PICK k \in DOMAIN s : k > i /\ s[k] = "connected"
    BY <1>2 DEF Answered
  <2>2. k - 1 \in DOMAIN t /\ (k - 1) + 1 = k
    BY <1>1, <2>1
  <2>3. t[k - 1] = s[k]
    BY <1>1, <2>2
  <2> QED
    BY <2>1, <2>2, <2>3
<1>3. ASSUME NEW i \in DOMAIN t, t[i] = "disconnected"
      PROVE  \E k \in DOMAIN t : k > i /\ t[k] = "connected"
  <2>1. i + 1 \in DOMAIN s /\ s[i + 1] = "disconnected"
    BY <1>1, <1>3
  <2>2. PICK k \in DOMAIN t : k + 1 > i + 1 /\ t[k] = "connected"
    BY <1>2, <2>1
  <2>3. k > i
    BY <1>1, <2>2
  <2> QED
    BY <2>2, <2>3
<1>4. Answered(t)
  BY <1>3 DEF Answered
<1>5. ASSUME Head(s) = "disconnected"
      PROVE  "connected" \in ToSet(t)
  <2>1. PICK k \in DOMAIN t : t[k] = "connected"
    BY <1>1, <1>2, <1>5
  <2> QED
    BY <2>1 DEF ToSet
<1> QED
  BY <1>4, <1>5 DEF t

LEMMA PostedFacts ==
    ASSUME TypeInv
    PROVE  /\ Sequence(posted) /\ Sequence(m_saved_commands)
           /\ posted = <<>> => ToSet(posted) = {}
           /\ posted # <<>> => /\ ToSet(posted) = ToSet(Tail(posted)) \cup {Head(posted)}
                               /\ Sequence(Tail(posted))
<1>1. Sequence(posted) /\ Sequence(m_saved_commands)
  BY SequenceOf DEF TypeInv, TypeOK
<1>2. posted = <<>> => ToSet(posted) = {}
  BY DEF ToSet
<1> QED
  BY <1>1, <1>2, TailFacts

LEMMA SlotInit ==
    ASSUME Init
    PROVE  SlotInv
<1>1. DOMAIN <<>> = {}
  OBVIOUS
<1> QED
  BY <1>1 DEF Init, SlotInv, Answered

\* The notification that comes leaves the slots in order.
LEMMA SlotCallback ==
    ASSUME TypeInv, SlotInv, NEW note \in Notes, dtmd_callback(note), link' = link,
           connection' = connection
    PROVE  /\ m_devices_initialized' = m_devices_initialized
           /\ m_devices_initialized' => m_saved_commands' = <<>>
           /\ ~m_devices_initialized' => m_devices' = EmptyView
           /\ posted' = <<>> => posted = <<>> /\ m_devices' = m_devices
           /\ \A slot \in {"connected", "disconnected"} : Announced(slot)' <=> Announced(slot)
           /\ link' = "open" => Answered(posted')
           /\ \A i \in DOMAIN m_saved_commands' : m_saved_commands'[i].connection <= connection'
<1>1. /\ m_devices_initialized' = m_devices_initialized
      /\ m_devices_initialized => m_saved_commands' = m_saved_commands
      /\ ~m_devices_initialized =>
            /\ m_devices' = m_devices
            /\ m_saved_commands' =
                   Append(m_saved_commands, [note |-> note, connection |-> connection])
      /\ (posted' = posted /\ m_devices' = m_devices) \/ posted' = Append(posted, "menu")
  BY CallbackFacts
<1>2. Sequence(posted) /\ Sequence(m_saved_commands)
  BY PostedFacts
<1>3. /\ posted' = posted \/ (ToSet(posted') = ToSet(posted) \cup {"menu"} /\ posted' # <<>>)
      /\ link' = "open" => Answered(posted')
  <2>1. posted' = posted \/ (ToSet(posted') = ToSet(posted) \cup {"menu"} /\ posted' # <<>>)
    BY <1>1, <1>2, AppendSet
  <2>2. link' = "open" => Answered(posted)
    BY DEF SlotInv
  <2>3. Answered(posted) => Answered(Append(posted, "menu"))
    BY <1>2, AnsweredAppend
  <2>4. Answered(posted) => Answered(posted')
    <3>1. CASE posted' = posted
      BY <3>1
    <3>2. CASE posted' = Append(posted, "menu")
      BY <2>3, <3>2
    <3> QED
      BY <1>1, <3>1, <3>2
  <2> QED
    BY <2>1, <2>2, <2>4
<1>4. \A slot \in {"connected", "disconnected"} : Announced(slot)' <=> Announced(slot)
  BY <1>3 DEF Announced
<1>5. posted' = <<>> => posted = <<>> /\ m_devices' = m_devices
  BY <1>1, <1>2, AppendSet
<1>6. ASSUME NEW i \in DOMAIN m_saved_commands'
      PROVE  m_saved_commands'[i].connection <= connection'
  <2>1. CASE m_devices_initialized
    BY <1>1, <1>6, <2>1 DEF SlotInv
  <2>2. CASE ~m_devices_initialized
    <3> DEFINE cmd == [note |-> note, connection |-> connection]
    <3>1. m_saved_commands' = Append(m_saved_commands, cmd) /\ cmd.connection = connection
      BY <1>1, <2>2
    <3> HIDE DEF cmd
    <3>2. \/ i \in DOMAIN m_saved_commands /\ m_saved_commands'[i] = m_saved_commands[i]
          \/ m_saved_commands'[i] = cmd
      BY <1>2, <1>6, <3>1, AppendFacts
    <3>3. connection \in Nat
      BY DEF TypeInv
    <3> QED
      BY <3>1, <3>2, <3>3 DEF SlotInv
  <2> QED
    BY <2>1, <2>2
<1> QED
  BY <1>1, <1>3, <1>4, <1>5, <1>6 DEF SlotInv

LEMMA SlotStep ==
    ASSUME TypeInv, SlotInv, [Next]_vars
    PROVE  SlotInv'
<1> USE DEF vars, server, socket, control, history, bounds
<1>0. /\ Sequence(posted)
      /\ posted = <<>> => ToSet(posted) = {}
      /\ posted # <<>> => /\ ToSet(posted) = ToSet(Tail(posted)) \cup {Head(posted)}
                          /\ Sequence(Tail(posted))
  BY PostedFacts
<1>a. ASSUME posted' = posted
      PROVE  /\ \A slot : Announced(slot)' <=> Announced(slot)
             /\ Answered(posted') <=> Answered(posted)
  BY <1>a DEF Announced
<1>1. ASSUME NEW note \in Notes, DeviceChanges(note)
      PROVE  SlotInv'
  BY <1>1, <1>a DEF DeviceChanges, SlotInv
<1>O. ASSUME NEW p \in Paths, NEW opts \in Opts, OptionsChange(p, opts)
      PROVE  SlotInv'
  BY <1>O, <1>a DEF OptionsChange, SlotInv
<1>2. ASSUME DaemonAnswers
      PROVE  SlotInv'
  BY <1>2, <1>a DEF DaemonAnswers, SlotInv
<1>3. ASSUME DaemonCrashes \/ DaemonStarts
      PROVE  SlotInv'
  BY <1>3, <1>a DEF DaemonCrashes, DaemonStarts, SlotInv
<1>4. ASSUME WorkerReads
      PROVE  SlotInv'
  <2>0. stream # <<>> /\ link # "none"
    BY <1>4 DEF WorkerReads, SlotInv
  <2>1. CASE Head(stream).op = "list"
    BY <1>4, <1>a, <2>0, <2>1 DEF WorkerReads, SlotInv
  <2>2. CASE Head(stream).op # "list"
    <3>1. Head(stream) \in Notes /\ dtmd_callback(Head(stream)) /\ link' = link /\ connection' = connection
      BY <1>4, <2>2, MessageFacts DEF WorkerReads
    <3>2. /\ m_devices_initialized' = m_devices_initialized
          /\ m_devices_initialized' => m_saved_commands' = <<>>
          /\ ~m_devices_initialized' => m_devices' = EmptyView
          /\ posted' = <<>> => posted = <<>> /\ m_devices' = m_devices
          /\ \A slot \in {"connected", "disconnected"} : Announced(slot)' <=> Announced(slot)
          /\ link' = "open" => Answered(posted')
          /\ \A i \in DOMAIN m_saved_commands' : m_saved_commands'[i].connection <= connection'
      BY <3>1, SlotCallback
    <3> QED
      BY <1>4, <2>0, <3>2 DEF WorkerReads, SlotInv
  <2> QED
    BY <2>1, <2>2
<1>5. ASSUME WorkerDisconnects
      PROVE  SlotInv'
  <2>1. posted' = Append(posted, "disconnected") /\ link' = "none" /\ stream' = <<>>
    BY <1>5 DEF WorkerDisconnects
  <2>2. ToSet(posted') = ToSet(posted) \cup {"disconnected"} /\ posted' # <<>>
    BY <1>0, <2>1, AppendSet
  <2>3. Announced("disconnected")'
    BY <2>2 DEF Announced
  <2>4. pc # "list"
    BY <1>5 DEF WorkerDisconnects, TypeInv, TypeOK
  <2> QED
    BY <1>5, <2>1, <2>2, <2>3, <2>4 DEF WorkerDisconnects, SlotInv
<1>6. ASSUME WorkerConnects
      PROVE  SlotInv'
  <2>1. posted' = Append(posted, "connected") /\ link' = "open"
    BY <1>6 DEF WorkerConnects
  <2>2. ToSet(posted') = ToSet(posted) \cup {"connected"} /\ posted' # <<>>
    BY <1>0, <2>1, AppendSet
  <2>3. Announced("connected")' /\ Answered(posted')
    BY <1>0, <2>1, <2>2, AnsweredAppend DEF Announced
  <2>4. \A i \in DOMAIN m_saved_commands' : m_saved_commands'[i].connection <= connection'
    <3>1. /\ m_saved_commands' = m_saved_commands /\ connection' = connection + 1 /\ connection \in Nat
          /\ m_saved_commands \in Seq(Commands)
      BY <1>6 DEF WorkerConnects, TypeInv
    <3>2. \A i \in DOMAIN m_saved_commands : m_saved_commands[i].connection \in Nat
      <4>1. \A i \in DOMAIN m_saved_commands : m_saved_commands[i] \in Commands
        BY <3>1
      <4> QED
        BY <4>1 DEF Commands
    <3>3. \A a, b \in Nat : a <= b => a <= b + 1
      OBVIOUS
    <3>4. \A i \in DOMAIN m_saved_commands : m_saved_commands[i].connection <= connection
      BY DEF SlotInv
    <3> QED
      BY <3>1, <3>2, <3>3, <3>4
  <2> QED
    BY <1>6, <2>1, <2>2, <2>3, <2>4 DEF WorkerConnects, SlotInv
<1>7. ASSUME ListBegins
      PROVE  SlotInv'
  BY <1>7, <1>a DEF ListBegins, SlotInv
<1>8. ASSUME ListReads
      PROVE  SlotInv'
  <2>0. stream # <<>> /\ pc = "list" /\ link # "none"
    BY <1>8 DEF ListReads, SlotInv
  <2>1. CASE Head(stream).op = "list"
    BY <1>8, <1>a, <2>0, <2>1 DEF ListReads, SlotInv
  <2>2. CASE Head(stream).op # "list"
    <3>1. Head(stream) \in Notes /\ dtmd_callback(Head(stream)) /\ link' = link /\ connection' = connection
      BY <1>8, <2>2, MessageFacts DEF ListReads
    <3>2. /\ m_devices_initialized' = m_devices_initialized
          /\ m_devices_initialized' => m_saved_commands' = <<>>
          /\ ~m_devices_initialized' => m_devices' = EmptyView
          /\ posted' = <<>> => posted = <<>> /\ m_devices' = m_devices
          /\ \A slot \in {"connected", "disconnected"} : Announced(slot)' <=> Announced(slot)
          /\ link' = "open" => Answered(posted')
          /\ \A i \in DOMAIN m_saved_commands' : m_saved_commands'[i].connection <= connection'
      BY <3>1, SlotCallback
    <3> QED
      BY <1>8, <2>0, <2>2, <3>2 DEF ListReads, SlotInv
  <2> QED
    BY <2>1, <2>2
<1>9. ASSUME ListEnds
      PROVE  SlotInv'
  BY <1>9, <1>a DEF ListEnds, SlotInv
<1>10. ASSUME ListTimesOut
       PROVE  SlotInv'
  BY <1>10, <1>a DEF ListTimesOut, SlotInv
<1>11. ASSUME StoreList
       PROVE  SlotInv'
  <2>1. DOMAIN <<>> = {}
    OBVIOUS
  <2> QED
    BY <1>11, <1>a, <2>1 DEF StoreList, SlotInv
<1>12. ASSUME BuildMenu
       PROVE  SlotInv'
  BY <1>12, <1>a DEF BuildMenu, SlotInv
<1>13. ASSUME slotDtmdConnected
       PROVE  SlotInv'
  <2>1. /\ posted' = Tail(posted) /\ posted # <<>> /\ Head(posted) = "connected" /\ pc' = "populate"
        /\ UNCHANGED <<link, stream, control, m_menu, result, connection>>
    BY <1>13 DEF slotDtmdConnected
  <2>2. Announced("disconnected")' <=> Announced("disconnected")
    BY <1>0, <2>1 DEF Announced
  <2>3. link' = "open" => Answered(posted')
    BY <1>0, <2>1, AnsweredTail DEF SlotInv
  <2> QED
    BY <2>1, <2>2, <2>3 DEF SlotInv
<1>14. ASSUME slotDtmdDisconnected
       PROVE  SlotInv'
  <2>1. /\ posted' = Tail(posted) /\ posted # <<>> /\ Head(posted) = "disconnected" /\ pc' = "menu"
        /\ m_devices' = EmptyView /\ m_devices_initialized' = FALSE
        /\ UNCHANGED <<link, stream, m_saved_commands, m_menu, result, connection>>
    BY <1>14 DEF slotDtmdDisconnected
  <2>2. link' = "open" => Answered(posted') /\ Announced("connected")'
    BY <1>0, <2>1, AnsweredTail DEF SlotInv, Announced
  <2> QED
    BY <2>1, <2>2 DEF SlotInv
<1>15. ASSUME slotBuildMenu
       PROVE  SlotInv'
  <2>1. /\ posted' = Tail(posted) /\ posted # <<>> /\ Head(posted) = "menu" /\ pc = "loop" /\ pc' = "menu"
        /\ UNCHANGED <<link, stream, control, m_menu, result, connection>>
    BY <1>15 DEF slotBuildMenu
  <2>2. /\ Announced("disconnected")' <=> Announced("disconnected")
        /\ Announced("connected")' <=> Announced("connected")
    BY <1>0, <2>1 DEF Announced
  <2>3. link' = "open" => Answered(posted')
    BY <1>0, <2>1, AnsweredTail DEF SlotInv
  <2> QED
    BY <2>1, <2>2, <2>3 DEF SlotInv
<1>16. ASSUME UNCHANGED vars
       PROVE  SlotInv'
  BY <1>16, <1>a DEF SlotInv
<1> QED
  BY <1>1, <1>O, <1>2, <1>3, <1>4, <1>5, <1>6, <1>7, <1>8, <1>9, <1>10, <1>11, <1>12, <1>13, <1>14, <1>15, <1>16
     DEF Next, Worker, Main, Idle

(***************************************************************************)
(* What the devices are when all that is under way has arrived.            *)
(***************************************************************************)
\* All saved notifications are of this connection.
Clean == \A i \in DOMAIN m_saved_commands : m_saved_commands[i].connection = connection

\* The saved notifications led to v; the list that is about to be stored, if it
\* is one to replay them on, is what the daemon had after some of them.
Saved(v) ==
    \E g : /\ Told(remounted, g, SavedNotes) /\ g[Len(SavedNotes)] = v
           /\ pc = "store" /\ ~Announced("disconnected") /\ ~m_devices_initialized =>
                 \E j \in 0..Len(SavedNotes) : Like(remounted, temp_devices, g[j])

\* h is what the daemon knew before and after each message that is under way, but
\* for the options of devices that were mounted again.
Heard(h) ==
    /\ Told(remounted, h, stream)
    /\ link = "open" => Like(remounted, h[Len(stream)], truth)
    /\ m_devices_initialized /\ ~misled /\ ~Announced("disconnected") =>
          Like(remounted, m_devices, h[0])
    /\ pc = "store" /\ ~Announced("disconnected") /\ m_devices_initialized /\ ~between =>
          Like(remounted, temp_devices, h[0])
    /\ Clean => Saved(h[0])

ShowInv == Rooted(truth) /\ \E h : Heard(h)

\* A step that neither reads nor sends, and does not store a list.
LEMMA HeardFrame ==
    ASSUME NEW h, Heard(h), stream' = stream, m_saved_commands' = m_saved_commands,
           connection' = connection, truth' = truth, link' = "open" => link = "open",
           temp_devices' = temp_devices, between' = between, misled' = misled, remounted' = remounted,
           m_devices_initialized' => m_devices_initialized /\ m_devices' = m_devices,
           Announced("disconnected") => Announced("disconnected")' \/ (~m_devices_initialized' /\ pc' # "store"),
           pc' = "store" => pc = "store" /\ m_devices_initialized' = m_devices_initialized
    PROVE  Heard(h)'
<1>1. SavedNotes' = SavedNotes /\ (Clean' <=> Clean)
  BY DEF SavedNotes, Clean
<1>2. Told(remounted', h, stream') /\ (link' = "open" => Like(remounted', h[Len(stream')], truth'))
  BY DEF Heard
<1>3. m_devices_initialized' /\ ~misled' /\ ~Announced("disconnected")' => Like(remounted', m_devices', h[0])
  BY DEF Heard
<1>4. pc' = "store" /\ ~Announced("disconnected")' /\ m_devices_initialized' /\ ~between' =>
          Like(remounted', temp_devices', h[0])
  BY DEF Heard
<1>5. Saved(h[0]) => Saved(h[0])'
  <2>1. pc' = "store" /\ ~Announced("disconnected")' /\ ~m_devices_initialized' =>
           pc = "store" /\ ~Announced("disconnected") /\ ~m_devices_initialized
    OBVIOUS
  <2> QED
    BY <1>1, <2>1 DEF Saved
<1> QED
  BY <1>1, <1>2, <1>3, <1>4, <1>5 DEF Heard

LEMMA ShowInit ==
    ASSUME Init
    PROVE  ShowInv
<1>1. truth \in Views /\ Rooted(truth)
  BY ControlAssumption DEF Init, Rooted
<1>2. PICK h : Told(remounted, h, <<>>) /\ h[0] = truth
  BY <1>1, ToldNone
<1>3. stream = <<>> /\ SavedNotes = <<>> /\ Len(<<>>) = 0
  BY DEF Init, SavedNotes
<1>4. Saved(h[0])
  BY <1>2, <1>3 DEF Saved, Init
<1>5. Heard(h)
  BY <1>2, <1>3, <1>4, LikeSelf DEF Heard, Init
<1> QED
  BY <1>1, <1>5 DEF ShowInv

\* What is sent is known to the daemon when it is sent.
LEMMA HeardSent ==
    ASSUME TypeInv, NEW h, Heard(h), NEW msg, Tells(remounted, truth, msg, truth'), link = "open",
           stream' = Append(stream, msg), m_saved_commands' = m_saved_commands,
           UNCHANGED <<link, posted, pc, temp_devices, m_devices, m_devices_initialized,
                       connection, between, misled, remounted>>
    PROVE  \E g : Heard(g)'
<1>1. /\ Told(remounted, h, stream) /\ Like(remounted, h[Len(stream)], truth) /\ Len(stream) \in Nat
      /\ truth \in Views /\ h[Len(stream)] \in Views
  <2>1. Told(remounted, h, stream) /\ Like(remounted, h[Len(stream)], truth) /\ Len(stream) \in Nat
    BY SequenceFacts DEF Heard, TypeInv
  <2>2. Len(stream) \in 0..Len(stream)
    BY <2>1
  <2> QED
    BY <2>1, <2>2 DEF Told, TypeInv, TypeOK
<1>t. PICK v : Tells(remounted, h[Len(stream)], msg, v) /\ Like(remounted, v, truth')
  <2>1. CASE msg.op = "list"
    <3>1. truth' = truth /\ \E u \in Views : msg = List(u) /\ Like(remounted, u, truth)
      BY <2>1 DEF Tells
    <3>2. Like(remounted, truth, h[Len(stream)])
      BY <1>1, LikeBack
    <3>3. \E u \in Views : msg = List(u) /\ Like(remounted, u, h[Len(stream)])
      BY <3>1, <3>2, LikeThrough
    <3>4. Tells(remounted, h[Len(stream)], msg, h[Len(stream)])
      BY <2>1, <3>3 DEF Tells
    <3> QED
      BY <1>1, <3>1, <3>4
  <2>2. CASE msg.op # "list"
    <3>1. msg \in Notes /\ Fits(truth, msg) /\ truth' = processCommand(truth, msg)
      BY <2>2 DEF Tells
    <3>2. Fits(h[Len(stream)], msg)
      BY <1>1, <3>1, LikeBack, LikeFits
    <3>3. Like(remounted, processCommand(h[Len(stream)], msg), truth')
      BY <1>1, <3>1, LikeStep
    <3> QED
      BY <2>2, <3>1, <3>2, <3>3 DEF Tells
  <2> QED
    BY <2>1, <2>2
<1>2. PICK g : /\ Told(remounted, g, stream') /\ g[Len(stream')] = v
               /\ \A k \in 0..Len(stream) : g[k] = h[k]
  <2>1. Sends(remounted, h, stream, msg, v, stream')
    BY <1>1, <1>t DEF Sends
  <2> QED
    BY <2>1, ToldAppend
<1>3. g[0] = h[0]
  BY <1>1, <1>2
<1>4. SavedNotes' = SavedNotes /\ (Clean' <=> Clean) /\ (Announced("disconnected")' <=> Announced("disconnected"))
  BY DEF SavedNotes, Clean, Announced
<1>5. Saved(h[0]) => Saved(g[0])'
  BY <1>3, <1>4 DEF Saved
<1>6. Heard(g)'
  BY <1>t, <1>2, <1>3, <1>4, <1>5 DEF Heard
<1> QED
  BY <1>6

\* The first message is a list: nothing but where it is read changes.
LEMMA ListHeard ==
    ASSUME TypeInv, NEW h, Heard(h), stream # <<>>, Head(stream).op = "list"
    PROVE  /\ Like(remounted, Head(stream).view, h[0])
           /\ \E g : Told(remounted, g, Tail(stream)) /\ g[0] = h[0] /\ g[Len(Tail(stream))] = h[Len(stream)]
<1>1. Tells(remounted, h[0], Head(stream), h[1])
  BY ToldTail DEF Heard
<1>2. (\E u \in Views : Head(stream) = List(u) /\ Like(remounted, u, h[0])) /\ h[1] = h[0]
  BY <1>1 DEF Tells
<1>3. Like(remounted, Head(stream).view, h[0])
  BY <1>2 DEF List
<1> QED
  BY <1>2, <1>3, ToldTail DEF Heard

\* The first message is a notification: it changes the devices, or is saved.
LEMMA NoteHeard ==
    ASSUME TypeInv, SlotInv, NEW h, Heard(h), stream # <<>>, Head(stream).op # "list",
           dtmd_callback(Head(stream)), stream' = Tail(stream),
           UNCHANGED <<truth, link, pc, temp_devices, connection, misled, remounted>>,
           pc = "store" => between'
    PROVE  \E g : Heard(g)'
<1> DEFINE note == Head(stream)
           cmd == [note |-> note, connection |-> connection]
<1>1. note \in Notes
  BY MessageFacts
<1>2. Fits(h[0], note) /\ h[1] = processCommand(h[0], note) /\ Tells(remounted, h[0], note, h[1])
  BY ToldTail DEF Heard, Tells
<1>3. PICK g : Told(remounted, g, stream') /\ g[0] = h[1] /\ g[Len(stream')] = h[Len(stream)]
  BY ToldTail DEF Heard
<1>4. /\ m_devices_initialized' = m_devices_initialized
      /\ m_devices_initialized =>
            m_devices' = processCommand(m_devices, note) /\ m_saved_commands' = m_saved_commands
      /\ ~m_devices_initialized => m_saved_commands' = Append(m_saved_commands, cmd)
  BY <1>1, CallbackFacts
<1>5. Announced("disconnected")' <=> Announced("disconnected")
  BY <1>1, SlotCallback
<1>6. cmd.note = note /\ cmd.connection = connection
  OBVIOUS
<1> HIDE DEF note, cmd
<1>7. m_devices_initialized' /\ ~misled' /\ ~Announced("disconnected")' =>
         Like(remounted', m_devices', g[0])
  <2>1. h[0] \in Views /\ m_devices \in Views
    <3>1. 0 \in 0..Len(stream) /\ Told(remounted, h, stream)
      BY SequenceFacts DEF TypeInv, Heard
    <3> QED
      BY <3>1 DEF Told, TypeInv, TypeOK
  <2>2. Like(remounted, m_devices, h[0]) =>
           Like(remounted, processCommand(m_devices, note), processCommand(h[0], note))
    BY <1>1, <2>1, LikeStep
  <2> QED
    BY <1>2, <1>3, <1>4, <1>5, <2>2 DEF Heard
<1>8. Clean' => Saved(g[0])'
  <2>1. CASE m_devices_initialized
    <3>1. m_saved_commands = <<>> /\ m_saved_commands' = <<>>
      BY <1>4, <2>1 DEF SlotInv
    <3>2. SavedNotes' = <<>> /\ Len(<<>>) = 0
      BY <3>1 DEF SavedNotes
    <3>3. g[0] \in Views /\ Rooted(g[0])
      <4>1. Sequence(stream') /\ 0 \in 0..Len(stream')
        BY <1>3, SequenceFacts DEF Told
      <4> QED
        BY <1>3, <4>1 DEF Told
    <3>4. \E f : Told(remounted, f, <<>>) /\ f[0] = g[0]
      BY <3>3, ToldNone
    <3> QED
      BY <1>4, <2>1, <3>2, <3>4 DEF Saved
  <2>2. CASE ~m_devices_initialized
    <3>1. m_saved_commands' = Append(m_saved_commands, cmd)
      BY <1>4, <2>2
    <3>2. /\ Sequence(m_saved_commands) /\ Sequence(SavedNotes) /\ Len(SavedNotes) = Len(m_saved_commands)
          /\ \A i \in DOMAIN m_saved_commands : SavedNotes[i] = m_saved_commands[i].note
      BY SavedFacts
    <3>3. /\ DOMAIN m_saved_commands' = 1..(Len(m_saved_commands) + 1)
          /\ \A i \in DOMAIN m_saved_commands : m_saved_commands'[i] = m_saved_commands[i]
          /\ \A i \in DOMAIN m_saved_commands : i \in DOMAIN m_saved_commands'
          /\ m_saved_commands'[Len(m_saved_commands) + 1] = cmd
          /\ \A i \in DOMAIN m_saved_commands' : i \in DOMAIN m_saved_commands \/ i = Len(m_saved_commands) + 1
      <4>1. Len(m_saved_commands) \in Nat /\ DOMAIN m_saved_commands = 1..Len(m_saved_commands)
        BY <3>2, SequenceFacts
      <4>2. \A i \in 1..Len(m_saved_commands) : i \in 1..(Len(m_saved_commands) + 1)
        BY <4>1
      <4> QED
        BY <3>1, <3>2, <4>1, <4>2, AppendFacts
    <3>4. SavedNotes' = Append(SavedNotes, note)
      <4> DEFINE n == Len(m_saved_commands)
      <4>1. /\ Sequence(Append(SavedNotes, note)) /\ DOMAIN Append(SavedNotes, note) = 1..(n + 1)
            /\ \A i \in DOMAIN SavedNotes : Append(SavedNotes, note)[i] = SavedNotes[i]
            /\ Append(SavedNotes, note)[n + 1] = note
            /\ DOMAIN SavedNotes = DOMAIN m_saved_commands
        BY <3>2, AppendFacts, SequenceFacts
      <4>2. SavedNotes' = [i \in 1..(n + 1) |-> m_saved_commands'[i].note]
        BY <3>3 DEF SavedNotes
      <4>3. PICK t : t = Append(SavedNotes, note)
        OBVIOUS
      <4>4. t = [i \in 1..(n + 1) |-> t[i]]
        <5>1. t \in Seq(ToSet(t)) /\ DOMAIN t = 1..(n + 1)
          BY <4>1, <4>3 DEF Sequence
        <5>2. \A S : \A s \in Seq(S) : s = [i \in DOMAIN s |-> s[i]]
          OBVIOUS
        <5> QED
          BY <5>1, <5>2
      <4>5. ASSUME NEW i \in 1..(n + 1)
            PROVE  t[i] = m_saved_commands'[i].note
        BY <1>6, <3>2, <3>3, <4>1, <4>3
      <4> HIDE DEF n
      <4> QED
        BY <4>2, <4>3, <4>4, <4>5
    <3>5. ASSUME Clean'
          PROVE  Clean
      BY <3>3, <3>5 DEF Clean
    <3>6. ASSUME Clean'
          PROVE  Saved(g[0])'
      <4>1. Saved(h[0])
        BY <3>5, <3>6 DEF Heard
      <4>2. PICK f : /\ Told(remounted, f, SavedNotes) /\ f[Len(SavedNotes)] = h[0]
                     /\ pc = "store" /\ ~Announced("disconnected") /\ ~m_devices_initialized =>
                           \E j \in 0..Len(SavedNotes) : Like(remounted, temp_devices, f[j])
        BY <4>1 DEF Saved
      <4>3. PICK e : /\ Told(remounted, e, SavedNotes') /\ e[Len(SavedNotes')] = h[1]
                     /\ Len(SavedNotes') = Len(SavedNotes) + 1
                     /\ \A k \in 0..Len(SavedNotes) : e[k] = f[k]
        <5>1. Sends(remounted, f, SavedNotes, note, h[1], SavedNotes')
          BY <1>2, <3>4, <4>2 DEF Sends
        <5> QED
          BY <5>1, ToldAppend
      <4>4. \A j \in 0..Len(SavedNotes) : j \in 0..Len(SavedNotes')
        <5>1. Len(SavedNotes) \in Nat
          BY <3>2, SequenceFacts
        <5> QED
          BY <4>3, <5>1
      <4>5. pc' = "store" /\ ~Announced("disconnected")' /\ ~m_devices_initialized' =>
               \E j \in 0..Len(SavedNotes') : Like(remounted', temp_devices', e[j])
        BY <1>4, <1>5, <4>2, <4>3, <4>4
      <4> QED
        BY <1>3, <4>3, <4>5 DEF Saved
    <3> QED
      BY <3>6
  <2> QED
    BY <2>1, <2>2
<1>9. Heard(g)'
  BY <1>3, <1>7, <1>8 DEF Heard
<1> QED
  BY <1>9

\* The list is stored, with the saved notifications replayed on it.
LEMMA StoreHeard ==
    ASSUME TypeInv, SlotInv, NEW h, Heard(h), StoreList
    PROVE  Heard(h)'
<1> USE DEF server, socket, control, history, bounds
<1>1. /\ m_devices' = Follow(temp_devices, SavedNotes) /\ m_devices_initialized'
      /\ m_saved_commands' = <<>> /\ pc = "store" /\ pc' = "menu"
      /\ UNCHANGED <<truth, link, stream, posted, connection, remounted>>
      /\ ~misled' => Clean /\ (m_devices_initialized => ~between)
  BY DEF StoreList, Clean
<1>2. Announced("disconnected")' <=> Announced("disconnected")
  BY <1>1 DEF Announced
<1>3. h[0] \in Views /\ Rooted(h[0])
  <2>1. 0 \in 0..Len(stream) /\ Told(remounted, h, stream)
    BY SequenceFacts DEF TypeInv, Heard
  <2> QED
    BY <2>1 DEF Told
<1>4. ASSUME ~misled', ~Announced("disconnected")
      PROVE  Like(remounted, m_devices', h[0])
  <2>1. Clean /\ (m_devices_initialized => ~between)
    BY <1>1, <1>4
  <2>2. CASE m_devices_initialized
    <3>1. Like(remounted, temp_devices, h[0])
      BY <1>1, <1>4, <2>1, <2>2 DEF Heard
    <3>2. m_saved_commands = <<>> /\ SavedNotes = <<>>
      BY <2>2 DEF SlotInv, SavedNotes
    <3>3. Follow(temp_devices, <<>>) = temp_devices
      BY AppliesNone, AppliesFacts
    <3> QED
      BY <1>1, <3>1, <3>2, <3>3
  <2>3. CASE ~m_devices_initialized
    <3>1. PICK g : /\ Told(remounted, g, SavedNotes) /\ g[Len(SavedNotes)] = h[0]
                   /\ \E j \in 0..Len(SavedNotes) : Like(remounted, temp_devices, g[j])
      BY <1>1, <1>4, <2>1, <2>3 DEF Heard, Saved
    <3>2. SavedNotes \in Seq(Notes) /\ temp_devices \in Views
      BY SavedFacts DEF TypeInv, TypeOK
    <3>3. PICK j \in 0..Len(SavedNotes) : Like(remounted, temp_devices, g[j])
      BY <3>1
    <3>4. g[j] \in Views
      BY <3>1 DEF Told
    <3>5. Like(remounted, Follow(temp_devices, SavedNotes), Follow(g[j], SavedNotes))
      BY <3>2, <3>3, <3>4, LikeFollow
    <3>6. Follow(g[j], SavedNotes) = h[0]
      BY <3>1, <3>2, Replay
    <3> QED
      BY <1>1, <3>5, <3>6
  <2> QED
    BY <2>2, <2>3
<1>5. Saved(h[0])'
  <2>1. SavedNotes' = <<>> /\ Len(<<>>) = 0
    BY <1>1 DEF SavedNotes
  <2>2. \E g : Told(remounted, g, <<>>) /\ g[0] = h[0]
    BY <1>3, ToldNone
  <2> QED
    BY <1>1, <2>1, <2>2 DEF Saved
<1> QED
  BY <1>1, <1>2, <1>4, <1>5 DEF Heard

\* A list is read: by the worker, for a call that has given up, or by the call.
LEMMA ListRead ==
    ASSUME TypeInv, NEW h, Heard(h), stream # <<>>, Head(stream).op = "list", stream' = Tail(stream),
           UNCHANGED <<truth, link, posted, m_devices, m_devices_initialized, m_saved_commands,
                       connection, misled, remounted>>,
           \/ UNCHANGED <<pc, temp_devices, between>>
           \/ pc' = "store" /\ temp_devices' = Head(stream).view
    PROVE  \E g : Heard(g)'
<1>1. Like(remounted, Head(stream).view, h[0])
  BY ListHeard
<1>2. PICK g : Told(remounted, g, stream') /\ g[0] = h[0] /\ g[Len(stream')] = h[Len(stream)]
  BY ListHeard
<1>3. SavedNotes' = SavedNotes /\ (Clean' <=> Clean) /\ (Announced("disconnected")' <=> Announced("disconnected"))
  BY DEF SavedNotes, Clean, Announced
<1>4. Saved(h[0]) => Saved(g[0])'
  <2>1. SUFFICES ASSUME NEW f, Told(remounted, f, SavedNotes), f[Len(SavedNotes)] = h[0],
                        pc = "store" /\ ~Announced("disconnected") /\ ~m_devices_initialized =>
                           \E j \in 0..Len(SavedNotes) : Like(remounted, temp_devices, f[j])
                 PROVE  Saved(g[0])'
    BY DEF Saved
  <2>2. Len(SavedNotes) \in 0..Len(SavedNotes)
    BY SavedFacts, SequenceFacts
  <2>3. CASE UNCHANGED <<pc, temp_devices, between>>
    BY <1>2, <1>3, <2>1, <2>3 DEF Saved
  <2>4. CASE temp_devices' = Head(stream).view
    <3>1. Like(remounted', temp_devices', f[Len(SavedNotes)])
      BY <1>1, <2>1, <2>4
    <3> QED
      BY <1>2, <1>3, <2>1, <2>2, <3>1 DEF Saved
  <2> QED
    BY <2>3, <2>4
<1>5. Heard(g)'
  BY <1>1, <1>2, <1>3, <1>4 DEF Heard
<1> QED
  BY <1>5

\* A new connection begins with what the daemon knows.
LEMMA ConnectHeard ==
    ASSUME TypeInv, SlotInv, ShowInv, WorkerConnects
    PROVE  \E g : Heard(g)'
<1> USE DEF server, socket, control, history, bounds
<1>1. /\ link = "none" /\ link' = "open" /\ connection' = connection + 1 /\ posted' = Append(posted, "connected")
      /\ UNCHANGED <<truth, stream, pc, temp_devices, m_devices, m_devices_initialized,
                     m_saved_commands, between, misled>>
      /\ remounted' = {}
  BY DEF WorkerConnects
<1>2. stream' = <<>> /\ Len(<<>>) = 0
  BY <1>1 DEF SlotInv
<1>3. PICK g : Told({}, g, <<>>) /\ g[0] = truth
  BY ToldNone DEF ShowInv, TypeInv, TypeOK
<1>4. Announced("disconnected")' <=> Announced("disconnected")
  BY <1>1, PostedFacts, AppendSet DEF Announced
<1>5. ~Announced("disconnected") => ~m_devices_initialized /\ pc # "store"
  BY <1>1 DEF SlotInv
<1>6. ASSUME Clean'
      PROVE  m_saved_commands' = <<>>
  <2>1. Sequence(m_saved_commands) /\ connection \in Nat /\ \A i \in DOMAIN m_saved_commands :
           m_saved_commands[i].connection <= connection
    BY PostedFacts DEF TypeInv, SlotInv
  <2>2. \A i \in DOMAIN m_saved_commands : m_saved_commands[i].connection = connection + 1
    BY <1>1, <1>6 DEF Clean
  <2>3. ~(connection + 1 <= connection)
    BY <2>1
  <2>4. DOMAIN m_saved_commands = {}
    BY <2>1, <2>2, <2>3
  <2>5. m_saved_commands = <<>>
    <3>1. m_saved_commands # <<>> => 1 \in DOMAIN m_saved_commands
      BY <2>1, TailFacts
    <3> QED
      BY <2>4, <3>1
  <2> QED
    BY <1>1, <2>5
<1>7. Clean' => Saved(g[0])'
  <2>1. ASSUME m_saved_commands' = <<>>
        PROVE  SavedNotes' = <<>>
    BY <2>1 DEF SavedNotes
  <2> QED
    BY <1>1, <1>2, <1>3, <1>4, <1>5, <1>6, <2>1 DEF Saved
<1>8. Heard(g)'
  BY <1>1, <1>2, <1>3, <1>4, <1>5, <1>7, LikeSelf DEF Heard
<1> QED
  BY <1>8

LEMMA ShowStep ==
    ASSUME TypeInv, SlotInv, ShowInv, [Next]_vars
    PROVE  ShowInv'
<1> USE DEF vars, server, socket, control, history, bounds
<1>0. PICK h : Heard(h)
  BY DEF ShowInv
<1>a. ASSUME truth' = truth, \E g : Heard(g)'
      PROVE  ShowInv'
  <2>1. Rooted(truth')
    BY <1>a DEF ShowInv
  <2> QED
    BY <1>a, <2>1 DEF ShowInv
<1>b. posted' = posted => (Announced("disconnected")' <=> Announced("disconnected"))
  BY DEF Announced
<1>1. ASSUME NEW note \in Notes, DeviceChanges(note)
      PROVE  ShowInv'
  <2>0. truth \in Views /\ Fits(truth, note) /\ truth' = processCommand(truth, note)
    BY <1>1 DEF DeviceChanges, TypeInv, TypeOK
  <2>1. Rooted(truth') /\ Tells(remounted, truth, note, truth')
    BY <2>0, RootedStep, NoteFacts DEF ShowInv, Tells
  <2>2. CASE link = "open"
    <3>1. /\ stream' = Append(stream, note)
          /\ m_saved_commands' = m_saved_commands
          /\ UNCHANGED <<link, posted, pc, temp_devices, m_devices, m_devices_initialized,
                         connection, between, misled, remounted>>
      BY <1>1, <2>2 DEF DeviceChanges
    <3>2. \E g : Heard(g)'
      BY <1>0, <2>1, <2>2, <3>1, HeardSent
    <3> QED
      BY <2>1, <3>2 DEF ShowInv
  <2>3. CASE link # "open"
    <3>1. /\ stream' = stream /\ m_saved_commands' = m_saved_commands
          /\ UNCHANGED <<link, posted, pc, temp_devices, m_devices, m_devices_initialized,
                         connection, between, misled, remounted>>
      BY <1>1, <2>3 DEF DeviceChanges
    <3>2. SavedNotes' = SavedNotes /\ (Clean' <=> Clean) /\ (Announced("disconnected")' <=> Announced("disconnected"))
      BY <3>1 DEF SavedNotes, Clean, Announced
    <3>3. Saved(h[0]) => Saved(h[0])'
      BY <3>1, <3>2 DEF Saved
    <3>4. Heard(h)'
      BY <1>0, <2>3, <3>1, <3>2, <3>3 DEF Heard
    <3> QED
      BY <2>1, <3>4 DEF ShowInv
  <2> QED
    BY <2>2, <2>3
<1>O. ASSUME NEW p \in Paths, NEW opts \in Opts, OptionsChange(p, opts)
      PROVE  ShowInv'
  <2>0. /\ truth \in Views /\ truth[p] # NULL /\ truth' = [truth EXCEPT ![p].mnt_opts = opts]
        /\ UNCHANGED <<link, stream, posted, pc, temp_devices, m_devices, m_devices_initialized,
                       m_saved_commands, connection, between, misled>>
        /\ remounted \subseteq remounted' /\ (link = "open" => p \in remounted')
    BY <1>O DEF OptionsChange, TypeInv, TypeOK
  <2>1. Rooted(truth') /\ Like({p}, truth, truth')
    BY <2>0, RemountFacts DEF ShowInv
  <2>2. SavedNotes' = SavedNotes /\ (Clean' <=> Clean) /\ (Announced("disconnected")' <=> Announced("disconnected"))
    BY <2>0 DEF SavedNotes, Clean, Announced
  <2>3. /\ \A f, msgs : Told(remounted, f, msgs) => Told(remounted', f, msgs)
        /\ \A v, w : Like(remounted, v, w) => Like(remounted', v, w)
    BY <2>0, ToldMore, LikeMore
  <2>4. link' = "open" => Like(remounted', h[Len(stream')], truth')
    <3>1. SUFFICES ASSUME link = "open"
                   PROVE  Like(remounted', h[Len(stream)], truth')
      BY <2>0
    <3>2. Like(remounted', h[Len(stream)], truth)
      BY <1>0, <2>3, <3>1 DEF Heard
    <3>3. Like(remounted', truth, truth')
      <4>1. {p} \subseteq remounted'
        BY <2>0, <3>1
      <4> QED
        BY <2>1, <4>1, LikeMore
    <3> QED
      BY <3>2, <3>3, LikeThrough
  <2>5. Saved(h[0]) => Saved(h[0])'
    BY <2>0, <2>2, <2>3 DEF Saved
  <2>6. Heard(h)'
    BY <1>0, <2>0, <2>2, <2>3, <2>4, <2>5 DEF Heard
  <2> QED
    BY <2>1, <2>6 DEF ShowInv
<1>2. ASSUME DaemonAnswers
      PROVE  ShowInv'
  <2>1. /\ stream' = Append(stream, List(truth)) /\ link = "open"
        /\ m_saved_commands' = m_saved_commands /\ truth' = truth
        /\ UNCHANGED <<link, posted, pc, temp_devices, m_devices, m_devices_initialized,
                       connection, between, misled, remounted>>
    BY <1>2 DEF DaemonAnswers
  <2>2. Tells(remounted, truth, List(truth), truth')
    <3>1. truth \in Views /\ Like(remounted, truth, truth) /\ List(truth).op = "list"
      BY LikeSelf DEF List, TypeInv, TypeOK
    <3> QED
      BY <2>1, <3>1 DEF Tells
  <2>3. \E g : Heard(g)'
    BY <1>0, <2>1, <2>2, HeardSent
  <2> QED
    BY <1>a, <2>1, <2>3
<1>3. ASSUME DaemonCrashes \/ DaemonStarts
      PROVE  ShowInv'
  <2>1. /\ link' = "open" => link = "open"
        /\ UNCHANGED <<truth, stream, posted, pc, temp_devices, m_devices, m_devices_initialized,
                       m_saved_commands, connection, between, misled, remounted>>
    BY <1>3 DEF DaemonCrashes, DaemonStarts
  <2> QED
    BY <1>0, <1>a, <1>b, <2>1, HeardFrame
<1>4. ASSUME WorkerReads
      PROVE  ShowInv'
  <2>1. CASE Head(stream).op = "list"
    <3>1. /\ stream # <<>> /\ stream' = Tail(stream)
          /\ UNCHANGED <<truth, link, posted, m_devices, m_devices_initialized, m_saved_commands,
                         connection, misled, remounted>>
          /\ UNCHANGED <<pc, temp_devices, between>>
      BY <1>4, <2>1 DEF WorkerReads
    <3> QED
      BY <1>0, <1>a, <2>1, <3>1, ListRead
  <2>2. CASE Head(stream).op # "list"
    <3>1. /\ stream # <<>> /\ stream' = Tail(stream) /\ dtmd_callback(Head(stream))
          /\ UNCHANGED <<truth, link, pc, temp_devices, connection, misled, remounted>>
          /\ pc = "store" => between'
      BY <1>4, <2>2 DEF WorkerReads
    <3>2. \E g : Heard(g)'
      BY <1>0, <2>2, <3>1, NoteHeard
    <3> QED
      BY <1>a, <3>1, <3>2
  <2> QED
    BY <2>1, <2>2
<1>5. ASSUME WorkerDisconnects
      PROVE  ShowInv'
  <2>1. /\ link' = "none" /\ stream' = <<>> /\ posted' = Append(posted, "disconnected")
        /\ UNCHANGED <<truth, pc, temp_devices, m_devices, m_devices_initialized,
                       m_saved_commands, connection, between, misled, remounted>>
    BY <1>5 DEF WorkerDisconnects
  <2>2. Announced("disconnected")'
    BY <2>1, PostedFacts, AppendSet DEF Announced
  <2>3. h[0] \in Views /\ Rooted(h[0])
    <3>1. 0 \in 0..Len(stream) /\ Told(remounted, h, stream)
      BY <1>0, SequenceFacts DEF TypeInv, Heard
    <3> QED
      BY <3>1 DEF Told
  <2>4. PICK g : Told(remounted, g, <<>>) /\ g[0] = h[0]
    BY <2>3, ToldNone
  <2>5. SavedNotes' = SavedNotes /\ (Clean' <=> Clean)
    BY <2>1 DEF SavedNotes, Clean
  <2>6. Saved(h[0]) => Saved(g[0])'
    BY <2>1, <2>2, <2>4, <2>5 DEF Saved
  <2>7. Heard(g)'
    BY <1>0, <2>1, <2>2, <2>4, <2>5, <2>6 DEF Heard
  <2> QED
    BY <1>a, <2>1, <2>7
<1>6. ASSUME WorkerConnects
      PROVE  ShowInv'
  BY <1>6, <1>a, ConnectHeard DEF WorkerConnects
<1>7. ASSUME ListBegins \/ ListEnds \/ ListTimesOut \/ BuildMenu
      PROVE  ShowInv'
  <2>1. /\ pc' # "store"
        /\ UNCHANGED <<truth, link, stream, posted, temp_devices, m_devices, m_devices_initialized,
                       m_saved_commands, connection, between, misled, remounted>>
    BY <1>7 DEF ListBegins, ListEnds, ListTimesOut, BuildMenu
  <2>2. Heard(h)'
    BY <1>0, <1>b, <2>1, HeardFrame
  <2> QED
    BY <1>a, <2>1, <2>2
<1>8. ASSUME ListReads
      PROVE  ShowInv'
  <2>1. CASE Head(stream).op = "list"
    <3>1. /\ stream # <<>> /\ stream' = Tail(stream)
          /\ UNCHANGED <<truth, link, posted, m_devices, m_devices_initialized, m_saved_commands,
                         connection, misled, remounted>>
          /\ pc' = "store" /\ temp_devices' = Head(stream).view
      BY <1>8, <2>1 DEF ListReads
    <3> QED
      BY <1>0, <1>a, <2>1, <3>1, ListRead
  <2>2. CASE Head(stream).op # "list"
    <3>1. /\ stream # <<>> /\ stream' = Tail(stream) /\ dtmd_callback(Head(stream))
          /\ UNCHANGED <<truth, link, pc, temp_devices, connection, misled, remounted>>
          /\ pc # "store"
      BY <1>8, <2>2 DEF ListReads
    <3>2. \E g : Heard(g)'
      BY <1>0, <2>2, <3>1, NoteHeard
    <3> QED
      BY <1>a, <3>1, <3>2
  <2> QED
    BY <2>1, <2>2
<1>9. ASSUME StoreList
      PROVE  ShowInv'
  BY <1>0, <1>9, <1>a, StoreHeard DEF StoreList
<1>10. ASSUME slotDtmdConnected \/ slotBuildMenu
       PROVE  ShowInv'
  <2>1. /\ pc' # "store" /\ posted # <<>> /\ posted' = Tail(posted) /\ Head(posted) # "disconnected"
        /\ UNCHANGED <<truth, link, stream, temp_devices, m_devices, m_devices_initialized,
                       m_saved_commands, connection, between, misled, remounted>>
    BY <1>10 DEF slotDtmdConnected, slotBuildMenu
  <2>2. Announced("disconnected")' <=> Announced("disconnected")
    BY <2>1, PostedFacts DEF Announced
  <2>3. Heard(h)'
    BY <1>0, <2>1, <2>2, HeardFrame
  <2> QED
    BY <1>a, <2>1, <2>3
<1>11. ASSUME slotDtmdDisconnected
       PROVE  ShowInv'
  <2>1. /\ pc' # "store" /\ ~m_devices_initialized'
        /\ UNCHANGED <<truth, link, stream, temp_devices, m_saved_commands, connection, between, misled, remounted>>
    BY <1>11 DEF slotDtmdDisconnected
  <2>2. Heard(h)'
    BY <1>0, <2>1, HeardFrame
  <2> QED
    BY <1>a, <2>1, <2>2
<1>12. ASSUME UNCHANGED vars
       PROVE  ShowInv'
  <2>1. UNCHANGED <<truth, link, stream, posted, pc, temp_devices, m_devices, m_devices_initialized,
                    m_saved_commands, connection, between, misled, remounted>>
    BY <1>12
  <2>2. Heard(h)'
    BY <1>0, <1>b, <2>1, HeardFrame
  <2> QED
    BY <1>a, <2>1, <2>2
<1> QED
  BY <1>1, <1>O, <1>2, <1>3, <1>4, <1>5, <1>6, <1>7, <1>8, <1>9, <1>10, <1>11, <1>12
     DEF Next, Worker, Main, Idle

\* When nothing is under way, the menu and the devices of the Qt client are what
\* the daemon knows: whatever was saved before the list came, and however often
\* the daemon died or was too slow, unless a list was stored over later
\* notifications or notifications survived a disconnection; and but for the options
\* of devices that were mounted again where they are, of which nobody is told.
THEOREM ShowsTruthCorrect == Spec => []ShowsTruth
<1>1. Spec => [](TypeInv /\ SlotInv /\ ShowInv)
  BY TypeInit, SlotInit, ShowInit, TypeStep, SlotStep, ShowStep, PTL DEF Spec
<1>2. ASSUME TypeInv, SlotInv, ShowInv
      PROVE  ShowsTruth
  <2>1. SUFFICES ASSUME Quiet
                 PROVE  /\ m_menu = m_devices
                        /\ m_devices_initialized /\ ~misled =>
                              \A p \in Paths :
                                  IF p \in remounted THEN SameButOptions(m_devices[p], truth[p])
                                  ELSE m_devices[p] = truth[p]
                        /\ ~m_devices_initialized => result = "timeout" /\ m_devices = EmptyView
    BY DEF ShowsTruth
  <2>2. ~Announced("disconnected") /\ ~Announced("connected")
    BY <1>2, <2>1, PostedFacts DEF Quiet, Announced
  <2>3. PICK h : Heard(h)
    BY <1>2 DEF ShowInv
  <2>4. Like(remounted, h[0], truth)
    BY <2>1, <2>3 DEF Heard, Quiet
  <2>5. ASSUME m_devices_initialized, ~misled, NEW p \in Paths
        PROVE  IF p \in remounted THEN SameButOptions(m_devices[p], truth[p])
               ELSE m_devices[p] = truth[p]
    <3>1. Like(remounted, m_devices, h[0])
      BY <2>2, <2>3, <2>5 DEF Heard
    <3>2. Like(remounted, m_devices, truth)
      BY <2>4, <3>1, LikeThrough
    <3> QED
      BY <1>2, <3>2, LikeShown DEF TypeInv, TypeOK
  <2> QED
    BY <1>2, <2>1, <2>2, <2>5 DEF SlotInv, Quiet
<1> QED
  BY <1>1, <1>2, PTL
=============================================================================
