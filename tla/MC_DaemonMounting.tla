------------------------- MODULE MC_DaemonMounting -------------------------
(***************************************************************************)
(* A USB device with two disks, one with a partition and one without.      *)
(* What can be mounted of them has the same label.                         *)
(***************************************************************************)
EXTENDS DaemonMounting

CONSTANTS sda, sda1, sdb, usb

MCPaths    == {sda, sda1, sdb}
MCParentOf == [p \in MCPaths |-> IF p = sda1 THEN sda ELSE Root]
MCRank     == [p \in MCPaths |-> CASE p = sda -> 1 [] p = sda1 -> 2 [] p = sdb -> 3]

MCDirs     == {"label", "sda", "sda1", "sdb", "mnt"}
MCMountDir == MCDirs \ {"mnt"}
MCNameDir  == [p \in MCPaths |-> CASE p = sda -> "sda" [] p = sda1 -> "sda1" [] p = sdb -> "sdb"]
MCLabelDir == [l \in {"stick"} |-> "label"]

nodev == [key |-> "dev", value |-> "no"]
rw    == [key |-> "ro", value |-> "no"]
ro    == [key |-> "ro", value |-> "yes"]
suid  == [key |-> "suid", value |-> "yes"]
uid   == [key |-> "uid", value |-> "of the client"]

\* vfat has the mandatory options of the config file, ntfs those of the table.
MCFilesystems ==
    [fs \in {"vfat", "ntfs"} |->
        [external |-> fs = "ntfs", allowed |-> {nodev, rw, ro},
         defaults |-> <<rw>>, config_defaults |-> NULL,
         mandatory |-> <<nodev>>, config_mandatory |-> IF fs = "vfat" THEN <<rw, ro, nodev>> ELSE NULL,
         ids |-> <<uid>>]]
MCRequests == {NULL, <<nodev, rw>>, <<suid>>}

MCSysfs    == [p \in MCPaths |-> IF p = sda1 THEN NULL ELSE usb]
Nothing    == [fstype |-> NULL, label |-> NULL]
MCAttached ==
    [p \in MCPaths |->
        CASE p = sda  -> [kind |-> "stateless_device", content |-> Nothing]
          [] p = sda1 -> [kind |-> "partition", content |-> [fstype |-> "vfat", label |-> "stick"]]
          [] p = sdb  -> [kind |-> "stateless_device", content |-> [fstype |-> "ntfs", label |-> "stick"]]]
MCStarts   == {MCPaths, {}}
MCAltered  == {Nothing, [fstype |-> "vfat", label |-> "stick"]}
MCConfigs  ==
    {[mount_by |-> "label", unmount_on_exit |-> TRUE, clear_mount_dir |-> TRUE],
     [mount_by |-> "name", unmount_on_exit |-> FALSE, clear_mount_dir |-> FALSE]}
=============================================================================
