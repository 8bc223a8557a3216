-------------------------- MODULE MC_DaemonMedia --------------------------
(***************************************************************************)
(* A disk with two partitions.                                             *)
(***************************************************************************)
EXTENDS DaemonMedia

CONSTANTS sda, sda1, sda2

MCPaths    == {sda, sda1, sda2}
MCParentOf == [p \in MCPaths |-> IF p = sda THEN Root ELSE sda]
MCRank     == [p \in MCPaths |-> CASE p = sda -> 1 [] p = sda1 -> 2 [] p = sda2 -> 3]

At(disk, partition) == [p \in MCPaths |-> CASE p = sda -> disk [] p = sda1 -> NULL [] p = sda2 -> partition]
vfat == [kind |-> "disk", content |-> "vfat"]

\* Nothing, a disk without partitions, and a disk with a mounted partition.
MCStarts ==
    {[world |-> At(NULL, NULL), mounts |-> <<>>],
     [world |-> At(vfat, NULL), mounts |-> <<>>],
     [world |-> At(vfat, vfat), mounts |-> <<[dev |-> sda2, dir |-> "a", opts |-> "rw"]>>]}
=============================================================================
