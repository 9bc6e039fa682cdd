------------------------------- MODULE Cpiofs -------------------------------
(***************************************************************************)
(* The cpio file system (fs/cpiofs.c) on ramdisks: header walk, lookup,    *)
(* the table cfdatas[] of open files, reading and listing.                 *)
(*                                                                         *)
(* Archives gives for a name the archive, a sequence of [path, type, size, *)
(* elf]; HeaderOff gives where its headers are, and where it ends, which   *)
(* is how the cpio tool has laid it out.  A byte is its position in the    *)
(* archive.                                                                *)
(***************************************************************************)
EXTENDS Vfs, FiniteSets, Integers

CONSTANTS MAX_CPIO_OPEN, PATH_MAX, Archives, HeaderOff
ASSUME CpioAssumption ==
    MAX_CPIO_OPEN \in Nat \ {0} /\ PATH_MAX \in Nat \ {0} /\ NoData \notin DOMAIN Archives

VARIABLES
    busy,       \* entries of cfdatas[] in use
    af,         \* of each entry: position in the archive file
    hdr         \* of each entry: number of the header it was opened on

cpio == <<busy, af, hdr>>

CSlots == 1 .. MAX_CPIO_OPEN
CpioInit ==
    busy = {} /\ af = [s \in CSlots |-> 0] /\ hdr = [s \in CSlots |-> 0]

NEWC_SIZE == 110                \* sizeof(struct cpio_newc_header)
ROOT == <<".">>
TRAILER == <<"T">>              \* stands for "TRAILER!!!"
ALIGN_UP(x, a) == ((x + a - 1) \div a) * a

psize(e) == Len(e.path) + 1
ppad(e) == ALIGN_UP(NEWC_SIZE + psize(e), 4) - (NEWC_SIZE + psize(e))
\* Bug: the padding after the file data is not skipped.
fpad_none(e) == 0
fpad(e) == ALIGN_UP(e.size, 4) - e.size
is_endmarker(e) == e.size = 0 /\ e.path = TRAILER

\* The format aligns header with name, and data, to four bytes.
UpTo4(n) == 4 * ((n + 3) \div 4)
Segments == [load : BOOLEAN, off : Nat, filesz : Nat]
Entries == [path : Seq(STRING), type : STRING, size : Nat,
            elf : [ident : STRING, phoff : Nat, ph : Seq(Segments)]]
\* Directories have no data.
ASSUME LayoutAssumption ==
    \A name \in DOMAIN Archives :
        LET a == Archives[name]
            off == HeaderOff[name]
        IN  /\ a \in Seq(Entries)
            /\ off \in [1 .. Len(a) + 1 -> Nat] /\ off[1] = 0
            /\ \A k \in 1 .. Len(a) :
                  /\ off[k + 1] = off[k] + UpTo4(NEWC_SIZE + psize(a[k])) + UpTo4(a[k].size)
                  /\ a[k].type = "DIR" => a[k].size = 0
ArchiveSize(name) == HeaderOff[name][Len(Archives[name]) + 1]

\* The header whose magic number is read at position p, in a set; none past the end.
cpio_read_header_raw(name, p) == {k \in 1 .. Len(Archives[name]) : HeaderOff[name][k] = p}

\* cpio_read_header at position p: the header, the position after its path,
\* or an error (no magic there, past the end, or the path too long).
cpio_read_header(name, p) ==
    LET a  == Archives[name]
        ks == cpio_read_header_raw(name, p)
        k  == CHOOSE j \in ks : TRUE
    IN  IF ks = {} THEN [k |-> 0, pos |-> p, err |-> "EINVAL"]
        ELSE IF psize(a[k]) > PATH_MAX THEN [k |-> 0, pos |-> p, err |-> "EOVERFLOW"]
        ELSE [k |-> k, pos |-> p + NEWC_SIZE + psize(a[k]) + ppad(a[k]), err |-> "ok"]

cpio_skip_fdata(p, e) == p + e.size + fpad(e)

\* Where the file data of header k ends and the next header should be.
FdataEnd(name, k) ==
    LET e == Archives[name][k]
    IN  cpio_skip_fdata(HeaderOff[name][k] + NEWC_SIZE + psize(e) + ppad(e), e)

\* Headers are read one after the other from position p until one is in hits
\* or cannot be read: where the last one is.
WalkEnd(name, p, hits) ==
    LET ends == {k \in 1 .. Len(Archives[name]) :
                    /\ HeaderOff[name][k] >= p
                    /\ k \in hits \/ psize(Archives[name][k]) > PATH_MAX
                                 \/ k = Len(Archives[name])
                                 \/ HeaderOff[name][k + 1] # FdataEnd(name, k)}
        k == CHOOSE j \in ends : \A m \in ends : j <= m
    IN  IF cpio_read_header_raw(name, p) = {} THEN p
        ELSE IF k \in hits \/ psize(Archives[name][k]) > PATH_MAX THEN HeaderOff[name][k]
        ELSE FdataEnd(name, k)

\* The path is compared before the end marker is looked at.
cpio_find_path(name, p, path) ==
    LET a == Archives[name]
        hits == {k \in 1 .. Len(a) : a[k].path = path \/ is_endmarker(a[k])}
        found(h) == IF h.err # "ok" \/ a[h.k].path = path THEN h
                    ELSE [h EXCEPT !.k = 0, !.err = "ENOENT"]
    IN  found(cpio_read_header(name, WalkEnd(name, p, hits)))

\* The mounted file system finds its root.
cpio_sb_open(name) == cpio_find_path(name, 0, ROOT).err = "ok"

-----------------------------------------------------------------------------
(* Open files.  file_open_path finds the mount, strips its path and opens  *)
(* the rest in the file system; the shell's directory is always "/".       *)

RelPath(sb, abspath) ==
    LET rel == path_strip_prefix(abspath, superblocks[sb].mpath)
    IN  IF rel = <<>> THEN ROOT ELSE rel

\* What an open of path in directory cwd finds: the header or an error.
Lookup(cwd, path) ==
    LET abspath == path_join(PATH_MAX, cwd, path)
        sb == find_mount_for_path(superblocks, vfs_mount_list, abspath)
    IN  IF sb = 0 THEN [k |-> 0, pos |-> 0, err |-> "ENOENT"]
        ELSE IF busy = CSlots THEN [k |-> 0, pos |-> 0, err |-> "ENOMEM"]
        ELSE cpio_find_path(ramdisks[superblocks[sb].disk], 0, RelPath(sb, abspath))

\* Bug: an open that fails keeps its entry.
OpenFailsKeeps(cwd, path) ==
    /\ Lookup(cwd, path).err # "ok"
    /\ busy' = IF busy = CSlots THEN busy
               ELSE busy \cup {CHOOSE t \in CSlots \ busy : \A u \in CSlots \ busy : t <= u}
    /\ UNCHANGED <<af, hdr>>

\* A failing open gives its entry of cfdatas[] back.
OpenFails(cwd, path) ==
    /\ Lookup(cwd, path).err # "ok"
    /\ UNCHANGED cpio

\* cpio_file_open_path takes the first free entry s.
Opens(cwd, path, s) ==
    LET h == Lookup(cwd, path)
    IN  /\ h.err = "ok"
        /\ s \in CSlots \ busy /\ \A t \in CSlots \ busy : s <= t
        /\ busy' = busy \cup {s}
        /\ af' = [af EXCEPT ![s] = h.pos]
        /\ hdr' = [hdr EXCEPT ![s] = h.k]

\* file_close of a file with entry s.
Closes(s) == busy' = busy \ {s} /\ UNCHANGED <<af, hdr>>

Disk == Archives[ramdisks[1]]
DiskOff == HeaderOff[ramdisks[1]]
DiskSize == ArchiveSize(ramdisks[1])
Entry(s) == Disk[hdr[s]]
foff(s) == DiskOff[hdr[s]] + NEWC_SIZE + psize(Entry(s)) + ppad(Entry(s))

\* ramdisk_read of count bytes at position p: how many it reads.
ramdisk_read(p, count) ==
    IF p >= DiskSize THEN 0
    ELSE IF p + count > DiskSize THEN DiskSize - p ELSE count

\* Bug: the length of the file is not looked at.
cpio_count_all(s, pos, count) == count

\* What cpio_file_read asks of the archive; a position past the end of the
\* file wraps around to a count that no archive is as large as.
cpio_count(s, pos, count) ==
    IF pos + count <= Entry(s).size THEN count
    ELSE IF pos <= Entry(s).size THEN Entry(s).size - pos
    ELSE DiskSize

\* The bytes read, as <<first, number>>; nothing is asked for zero bytes.
cpio_file_read(s, pos, count) ==
    <<foff(s) + pos,
      IF count = 0 THEN 0 ELSE ramdisk_read(foff(s) + pos, cpio_count(s, pos, count))>>

\* The next entry of the listing from archive position p: its header and the
\* position after its data; k = 0 at the end or with an error.
ReaddirFrom(p, dirpath) ==
    LET hits == {k \in 1 .. Len(Disk) : is_endmarker(Disk[k]) \/ IsPrefix(dirpath, Disk[k].path)}
        found(h) == IF h.err # "ok" THEN h
                    ELSE [h EXCEPT !.k = IF is_endmarker(Disk[@]) THEN 0 ELSE @,
                                   !.pos = FdataEnd(ramdisks[1], h.k)]
    IN  found(cpio_read_header(ramdisks[1], WalkEnd(ramdisks[1], p, hits)))

\* f_pos of a directory stays 0, so its own data is skipped on every call.
DirPath(s) == IF Entry(s).path = ROOT THEN <<>> ELSE Entry(s).path
cpio_file_readdir(s) ==
    IF Entry(s).type # "DIR" THEN [k |-> 0, pos |-> af[s], err |-> "ENOTDIR"]
    ELSE ReaddirFrom(cpio_skip_fdata(af[s], Entry(s)), DirPath(s))
=============================================================================
