---------------------------- MODULE MC_QtControl ----------------------------
(***************************************************************************)
(* A disk with a partition.                                                *)
(***************************************************************************)
EXTENDS QtControl

CONSTANTS sda, sda1

MCPaths    == {sda, sda1}
MCParentOf == [p \in MCPaths |-> IF p = sda THEN Root ELSE sda]
MCRank     == [p \in MCPaths |-> IF p = sda THEN 1 ELSE 2]

\* Nothing, and a disk whose partition is mounted.
MCStarts ==
    {EmptyView,
     [p \in MCPaths |-> IF p = sda THEN Device("disk", "vfat")
                        ELSE [Device("disk", "vfat") EXCEPT !.mnt_point = "a", !.mnt_opts = "rw"]]}
=============================================================================
