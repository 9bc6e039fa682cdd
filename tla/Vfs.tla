-------------------------------- MODULE Vfs ---------------------------------
(***************************************************************************)
(* Devices, file systems and mounts: the driver tables, the ramdisks, the  *)
(* superblocks and the mount list of vfs_file.c, vfs_fs.c and ramdisk.c.   *)
(* A superblock keeps its mount path and the ramdisk it is on; a free one  *)
(* has fs = "none".                                                        *)
(***************************************************************************)
EXTENDS Path

CONSTANTS RAMDISKS_MAX, SB_MAX
ASSUME VfsAssumption == RAMDISKS_MAX \in Nat \ {0} /\ SB_MAX \in Nat \ {0}

VARIABLES
    chrdev_drivers, fs_drivers,     \* registered names
    ramdisks,       \* of each minor number: the name of its archive
    superblocks,
    vfs_mount_list  \* indices of superblocks, oldest first

vfs == <<chrdev_drivers, fs_drivers, ramdisks, superblocks, vfs_mount_list>>

NoData == "none"
NoSb == [fs |-> "none", mpath |-> <<>>, disk |-> 0]

VfsInit ==
    /\ chrdev_drivers = {} /\ fs_drivers = {}
    /\ ramdisks = [d \in 1 .. RAMDISKS_MAX |-> NoData]
    /\ superblocks = [s \in 1 .. SB_MAX |-> NoSb]
    /\ vfs_mount_list = <<>>

chrdev_register(names) == chrdev_drivers' = chrdev_drivers \cup names
fs_register(name) == fs_drivers' = fs_drivers \cup {name}

\* The first free ramdisk, 0 for -EINVAL or -ENOMEM.
ramdisk_create(rd, a) ==
    LET free == {d \in DOMAIN rd : rd[d] = NoData}
    IN  IF a = NoData \/ free = {} THEN 0 ELSE CHOOSE d \in free : \A e \in free : d <= e

sb_alloc(sbs) ==
    LET free == {s \in DOMAIN sbs : sbs[s].fs = "none"}
    IN  IF free = {} THEN 0 ELSE CHOOSE s \in free : \A u \in free : s <= u

\* opens: the file system finds its root on ramdisk d.  A failure, also of the
\* open itself, frees the superblock again.
fs_mountdev(d, fs, mpath, opens) ==
    LET s == sb_alloc(superblocks)
        ok == s # 0 /\ fs \in fs_drivers /\ "ramdisk" \in chrdev_drivers /\ opens
    IN  /\ superblocks' = IF ok THEN [superblocks EXCEPT ![s] =
                                        [fs |-> fs, mpath |-> mpath, disk |-> d]]
                                ELSE superblocks
        /\ vfs_mount_list' = IF ok THEN Append(vfs_mount_list, s) ELSE vfs_mount_list

\* The newest mount whose path the absolute path begins with, 0 for none.
find_mount_for_path(sbs, list, abspath) ==
    LET hits == {k \in 1 .. Len(list) : IsPrefix(sbs[list[k]].mpath, abspath)}
    IN  IF hits = {} THEN 0 ELSE list[CHOOSE k \in hits : \A j \in hits : j <= k]
=============================================================================
