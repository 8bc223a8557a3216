----------------------------- MODULE MediaView -----------------------------
(***************************************************************************)
(* The devices as a client of the daemon sees them: what                   *)
(* Control::processCommand of the Qt client does to m_devices with the     *)
(* notifications of the daemon.  The client finds devices by path and      *)
(* keeps at most one of a path, so a view is a function on the paths.      *)
(***************************************************************************)
EXTENDS MediaList

EmptyView == [p \in Paths |-> NULL]

Device(kind, content) ==
    [kind |-> kind, content |-> content, mnt_point |-> NULL, mnt_opts |-> NULL]

\* A device goes together with its children.
Erase(v, p) == [q \in Paths |-> IF q = p \/ ParentOf[q] = p THEN NULL ELSE v[q]]

processCommand(v, note) ==
    LET p == note.path IN
    IF note.op = "added"
    THEN IF v[p] = NULL /\ (IsPartition(p) => v[ParentOf[p]] # NULL)
         THEN [v EXCEPT ![p] = Device(note.kind, note.content)] ELSE v
    ELSE IF v[p] = NULL THEN v
    ELSE CASE note.op = "removed"   -> Erase(v, p)
           [] note.op = "changed"   -> [v EXCEPT ![p] = Device(note.kind, note.content)]
           [] note.op = "mounted"   -> [v EXCEPT ![p].mnt_point = note.dir, ![p].mnt_opts = note.opts]
           [] note.op = "unmounted" -> [v EXCEPT ![p].mnt_point = NULL, ![p].mnt_opts = NULL]

\* A notification fits a view if it tells of a change from that view.
Fits(v, note) ==
    LET p == note.path IN
    IF note.op = "added" THEN v[p] = NULL /\ (IsPartition(p) => v[ParentOf[p]] # NULL)
    ELSE /\ v[p] # NULL
         /\ v[p].mnt_point = IF note.op = "unmounted" THEN note.dir ELSE NULL
         /\ note.op = "removed" => \A q \in Paths : ParentOf[q] = p => v[q] = NULL

\* A view after a sequence of notifications, and whether all of them fitted.
Follow(v, notes) ==
    LET after[k \in 0..Len(notes)] ==
            IF k = 0 THEN v ELSE processCommand(after[k - 1], notes[k])
    IN  after[Len(notes)]

AllFit(v, notes) ==
    \A k \in DOMAIN notes : Fits(Follow(v, SubSeq(notes, 1, k - 1)), notes[k])

\* The answer to list_all_removable_devices, as the client stores it.
Snapshot(m) ==
    [p \in Paths |->
        LET i == find_media(m, p)
        IN  IF i = 0 THEN NULL
            ELSE [kind |-> m[i].kind, content |-> m[i].content,
                  mnt_point |-> m[i].mnt_point, mnt_opts |-> m[i].mnt_opts]]
=============================================================================
