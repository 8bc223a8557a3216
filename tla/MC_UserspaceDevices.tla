------------------------ MODULE MC_UserspaceDevices ------------------------
(***************************************************************************)
(* A USB disk with a partition that does not call itself removable, an SD  *)
(* card with a partition, and a USB CD-ROM.                                *)
(***************************************************************************)
EXTENDS UserspaceDevices

CONSTANTS sda, sda1, mmcblk0, mmcblk0p1, sr0, port1, port2

MCPaths == {sda, sda1, mmcblk0, mmcblk0p1, sr0}
MCParentOf ==
    [p \in MCPaths |-> CASE p = sda1 -> sda [] p = mmcblk0p1 -> mmcblk0 [] OTHER -> Root]
MCRank == [p \in MCPaths |-> CASE p = mmcblk0 -> 1 [] p = mmcblk0p1 -> 2 [] p = sda -> 3
                               [] p = sda1 -> 4 [] p = sr0 -> 5]

MCDisks       == MCPaths \cap {sda, mmcblk0, sr0}
MCSubtype     == [d \in MCDisks |-> CASE d = sda -> "removable_disk" [] d = mmcblk0 -> "sd_card"
                                      [] d = sr0 -> "cdrom"]
MCBus         == [d \in MCDisks |-> IF d = mmcblk0 THEN "mmc" ELSE "usb"]
MCIsRemovable == [d \in MCDisks |-> d = sr0]
MCNumbered    == MCDisks \cap {sda}

\* The ports are alike.
PortSymmetry == Permutations(Ports)
=============================================================================
