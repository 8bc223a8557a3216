----------------------------- MODULE MediaList -----------------------------
(***************************************************************************)
(* The list of removable media of the daemon, daemon/lists.c, and what     *)
(* daemon/mnt_funcs.c does to it when the mounts change.  The tree of      *)
(* nodes is the sequence of its nodes in the order dtmd_find_media visits  *)
(* them, each parent before its children.  Every operation comes with the  *)
(* notifications it sends, in order.                                       *)
(***************************************************************************)
EXTENDS Naturals, SequencesExt

CONSTANTS
    Paths,      \* the device paths
    Root,       \* dtmd_root_device_path
    ParentOf,   \* the parent path of each path
    NULL,       \* a string or node that is not there
    Rank        \* the place of each path in the order of strcmp

\* The device modules report disks, whose parent is the root, and partitions,
\* whose parent is a disk.
ASSUME PathAssumption ==
    /\ IsFiniteSet(Paths) /\ Root \notin Paths
    /\ ParentOf \in [Paths -> Paths \cup {Root}]
    /\ \A p \in Paths : ParentOf[p] # Root => ParentOf[ParentOf[p]] = Root
    /\ Rank \in [Paths -> Nat]
    /\ \A p, q \in Paths : Rank[p] = Rank[q] => p = q

IsPartition(p) == ParentOf[p] # Root
DiskOf(p)      == IF IsPartition(p) THEN ParentOf[p] ELSE p

\* The sequences of all elements of a set in which what comes before something
\* else is before it: one, for an order that is total.
Sortings(S, before(_, _)) ==
    {s \in [1..Cardinality(S) -> S] : \A i, j \in 1..Cardinality(S) : i < j => before(s[i], s[j])}

\* mount_counter, in which only is_mounted_now is set between two checks.
Node(p, kind, content) ==
    [path |-> p, kind |-> kind, content |-> content,
     mnt_point |-> NULL, mnt_opts |-> NULL, mount_counter |-> 0]

\* The notifications of daemon/actions.c.
Added(p, kind, content)   == [op |-> "added", path |-> p, kind |-> kind, content |-> content]
Changed(p, kind, content) == [op |-> "changed", path |-> p, kind |-> kind, content |-> content]
Removed(p)                == [op |-> "removed", path |-> p]
Mounted(p, dir, opts)     == [op |-> "mounted", path |-> p, dir |-> dir, opts |-> opts]
Unmounted(p, dir)         == [op |-> "unmounted", path |-> p, dir |-> dir]

(***************************************************************************)
(* Positions in a list m.  find_media is 0 where the code has NULL.        *)
(***************************************************************************)
find_media(m, p) == SelectInSeq(m, LAMBDA n : n.path = p)

\* The last position of the subtree at position i: of a disk, the partitions
\* that follow it.
SubtreeEnd(m, i) ==
    IF IsPartition(m[i].path) THEN i
    ELSE CHOOSE j \in i..Len(m) :
            /\ \A k \in (i + 1)..j : IsPartition(m[k].path)
            /\ j = Len(m) \/ ~IsPartition(m[j + 1].path)

(***************************************************************************)
(* add_media: a new node goes among its siblings before the first greater  *)
(* path.  Nothing keeps a path from being in the list twice.               *)
(***************************************************************************)
HasParent(m, p) == IsPartition(p) => find_media(m, ParentOf[p]) # 0

\* Mutant: a new node goes before all of its siblings.
InsertionPoint_Front(m, p) ==
    IF IsPartition(p) THEN find_media(m, ParentOf[p]) + 1 ELSE 1

InsertionPoint(m, p) ==
    LET parent  == IF IsPartition(p) THEN find_media(m, ParentOf[p]) ELSE 0
        last    == IF IsPartition(p) THEN SubtreeEnd(m, parent) ELSE Len(m)
        greater == {i \in (parent + 1)..last :
                       /\ IsPartition(m[i].path) <=> IsPartition(p)
                       /\ Rank[m[i].path] > Rank[p]}
    IN  IF greater = {} THEN last + 1 ELSE Min(greater)

add_media(m, p, kind, content) ==
    InsertAt(m, InsertionPoint(m, p), Node(p, kind, content))

(***************************************************************************)
(* remove_media: the first node of the path goes with its subtree, the     *)
(* notifications of the children first.                                    *)
(***************************************************************************)
\* Mutant: a device that goes away is not reported as unmounted first.
RemovalNotes_NoUnmount(n) == <<Removed(n.path)>>

RemovalNotes(n) ==
    (IF n.mnt_point # NULL THEN <<Unmounted(n.path, n.mnt_point)>> ELSE <<>>)
        \o <<Removed(n.path)>>

remove_media(m, p) ==
    LET i == find_media(m, p)
    IN  SubSeq(m, 1, i - 1) \o SubSeq(m, SubtreeEnd(m, i) + 1, Len(m))

remove_media_notes(m, p) ==
    LET i == find_media(m, p)
    IN  FlattenSeq([k \in 1..(SubtreeEnd(m, i) - i) |-> RemovalNotes(m[i + k])])
            \o RemovalNotes(m[i])

(***************************************************************************)
(* change_media, as the daemon calls it: without a mount point.  The kind  *)
(* is compared and sent, not stored.                                       *)
(***************************************************************************)
NothingChanged(n, kind, content) ==
    /\ n.kind = kind /\ n.content = content
    /\ n.mnt_point = NULL /\ n.mnt_opts = NULL

\* Mutant: mount_counter survives the mount point.
ChangedNode_KeepCounter(n, content) ==
    [n EXCEPT !.content = content, !.mnt_point = NULL, !.mnt_opts = NULL]

ChangedNode(n, content) ==
    [n EXCEPT !.content = content, !.mnt_point = NULL, !.mnt_opts = NULL,
              !.mount_counter = IF n.mnt_point # NULL THEN 0 ELSE n.mount_counter]

change_media(m, p, kind, content) ==
    LET i == find_media(m, p)
    IN  IF i = 0 \/ NothingChanged(m[i], kind, content)
        THEN m
        ELSE [m EXCEPT ![i] = ChangedNode(m[i], content)]

\* Mutant: losing the mount point alone is no change to tell of.
change_media_notes_SameContent(m, p, kind, content) ==
    LET i == find_media(m, p)
    IN  IF i = 0 \/ (m[i].kind = kind /\ m[i].content = content) THEN <<>>
        ELSE (IF m[i].mnt_point # NULL THEN <<Unmounted(p, m[i].mnt_point)>> ELSE <<>>)
                \o <<Changed(p, kind, content)>>

change_media_notes(m, p, kind, content) ==
    LET i == find_media(m, p)
    IN  IF i = 0 \/ NothingChanged(m[i], kind, content)
        THEN <<>>
        ELSE (IF m[i].mnt_point # NULL THEN <<Unmounted(p, m[i].mnt_point)>> ELSE <<>>)
                \o <<Changed(p, kind, content)>>

(***************************************************************************)
(* check_mount_changes (Linux).  Of the entries of the mounts file for one *)
(* device the first counts; a device that was mounted and has no entry any *)
(* more is unmounted.                                                      *)
(***************************************************************************)
FirstEntry(mounts, p) == SelectInSeq(mounts, LAMBDA e : e.dev = p)

\* The entry that is applied to node i, 0 if there is none.
EntryOf(m, mounts, i) ==
    IF find_media(m, m[i].path) = i THEN FirstEntry(mounts, m[i].path) ELSE 0

\* Mutant: mount_counter keeps is_mounted_last after the check.
CheckedNode_NoMask(n, e, mounts) ==
    IF e # 0
    THEN [n EXCEPT !.mnt_point = mounts[e].dir, !.mnt_opts = mounts[e].opts,
                   !.mount_counter = 2 * n.mount_counter + 1]
    ELSE IF n.mount_counter = 1
    THEN [n EXCEPT !.mnt_point = NULL, !.mnt_opts = NULL, !.mount_counter = 2]
    ELSE n

CheckedNode(n, e, mounts) ==
    IF e # 0
    THEN [n EXCEPT !.mnt_point = mounts[e].dir, !.mnt_opts = mounts[e].opts, !.mount_counter = 1]
    ELSE IF n.mount_counter = 1
    THEN [n EXCEPT !.mnt_point = NULL, !.mnt_opts = NULL, !.mount_counter = 0]
    ELSE n

check_mount_changes(m, mounts) ==
    [i \in DOMAIN m |-> CheckedNode(m[i], EntryOf(m, mounts, i), mounts)]

\* First what the entries change, in the order of the file, then what has no
\* entry, in the order of the list.
check_mount_changes_notes(m, mounts) ==
    LET entry_notes(k) ==
            LET i == find_media(m, mounts[k].dev)
            IN  IF i = 0 THEN <<>>
                ELSE IF FirstEntry(mounts, mounts[k].dev) # k \/ m[i].mnt_point = mounts[k].dir
                THEN <<>>
                ELSE (IF m[i].mnt_point # NULL
                      THEN <<Unmounted(m[i].path, m[i].mnt_point)>> ELSE <<>>)
                     \o <<Mounted(m[i].path, mounts[k].dir, mounts[k].opts)>>
        node_notes(i) ==
            IF EntryOf(m, mounts, i) = 0 /\ m[i].mount_counter = 1
            THEN <<Unmounted(m[i].path, m[i].mnt_point)>> ELSE <<>>
    IN  FlattenSeq([k \in DOMAIN mounts |-> entry_notes(k)])
            \o FlattenSeq([i \in DOMAIN m |-> node_notes(i)])
=============================================================================
