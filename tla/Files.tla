-------------------------------- MODULE Files -------------------------------
(***************************************************************************)
(* The shell's use of files: boot mounts the initial ramdisk, ls, stat and *)
(* xhead open, read and close, and running a program probes two            *)
(* directories and loads an ELF file (kshell.c, kernel.c, elf.c,           *)
(* process_load_path).  The first timer tick finds the boot shell with     *)
(* interrupts enabled and replaces it: whatever it had open stays open.    *)
(* Loading keeps the file open until the process is closed; a load that    *)
(* fails after CR3 was set leaves the kernel without its mapping.          *)
(***************************************************************************)
EXTENDS Cpiofs

CONSTANTS
    Names,          \* arguments typed at the shell
    MaxCommands     \* bound: commands given

ASSUME FilesAssumption == MaxCommands \in Nat /\ Names # {} /\ Names \subseteq Seq(STRING)

VARIABLES
    booted,     \* "off", "drivers" or "up"
    shell_if,   \* the boot shell runs, with interrupts enabled
    cmd,        \* the command that runs, with its open file
    last,       \* the command that has just run to its end
    proc,       \* "none", "loaded", or "lost" with the boot shell
    pslot,      \* entry of the program's file, 0 for none
    dead,       \* why the kernel has stopped, "no" if it has not
    given       \* commands given so far

fvars == <<booted, shell_if, cmd, last, proc, pslot, dead, given>>
vars == <<vfs, cpio, fvars>>

ROOTDIR == <<"/">>
BIN_PATHS == <<<<"/", "s">>, <<"/", "b">>>>     \* /sbin and /bin
ROWBYTES == 16
ROWS == 10
EHDR == 52      \* sizeof(Elf32_Ehdr)
PHDR == 32      \* sizeof(Elf32_Phdr)

Idle == [name |-> "idle", arg |-> NULL, slot |-> 0, pos |-> 0, out |-> <<>>, i |-> 0, err |-> "ok"]

Init ==
    /\ VfsInit /\ CpioInit
    /\ booted = "off" /\ shell_if = TRUE
    /\ cmd = Idle /\ last = Idle
    /\ proc = "none" /\ pslot = 0 /\ dead = "no" /\ given = 0

\* kernel_main registers the drivers.
init_drivers ==
    /\ booted = "off" /\ booted' = "drivers"
    /\ chrdev_register({"serial", "ramdisk", "tty"})
    /\ fs_register("cpiofs")
    /\ UNCHANGED <<ramdisks, superblocks, vfs_mount_list, cpio, shell_if, cmd, last,
                   proc, pslot, dead, given>>

\* Its failure is only logged.
mount_initrd(a) ==
    LET d == ramdisk_create(ramdisks, a)
    IN  /\ booted = "drivers" /\ booted' = "up"
        /\ IF d = 0 THEN UNCHANGED <<ramdisks, superblocks, vfs_mount_list>>
           ELSE /\ ramdisks' = [ramdisks EXCEPT ![d] = a]
                /\ fs_mountdev(d, "cpiofs", ROOTDIR, cpio_sb_open(a))
        /\ UNCHANGED <<chrdev_drivers, fs_drivers, cpio, shell_if, cmd, last,
                       proc, pslot, dead, given>>

Ready == booted = "up" /\ dead = "no"
In(name) == Ready /\ cmd.name = name
Runs(c) == cmd' = c
Ends(err) == cmd' = Idle /\ last' = [cmd EXCEPT !.err = err]
Stays == UNCHANGED <<vfs, booted, shell_if, given>>
SameProc == UNCHANGED <<proc, pslot, dead>>

-----------------------------------------------------------------------------
(* ls, stat and xhead *)

Gives ==
    /\ In("idle") /\ given < MaxCommands
    /\ given' = given + 1
    /\ UNCHANGED <<vfs, booted, shell_if>> /\ SameProc

CommandOpens(name, arg) ==
    /\ Gives
    /\ \E s \in CSlots :
          /\ Opens(ROOTDIR, arg, s)
          /\ Runs([Idle EXCEPT !.name = name, !.arg = arg, !.slot = s])
    /\ last' = Idle

CommandFails(name, arg) ==
    /\ Gives
    /\ OpenFails(ROOTDIR, arg)
    /\ last' = [Idle EXCEPT !.name = name, !.arg = arg, !.err = Lookup(ROOTDIR, arg).err]
    /\ UNCHANGED cmd

cmd_ls ==
    LET h == cpio_file_readdir(cmd.slot)
    IN  /\ In("ls")
        /\ \/ /\ h.k # 0
              /\ af' = [af EXCEPT ![cmd.slot] = h.pos]
              /\ Runs([cmd EXCEPT !.out = Append(@, h.k)])
              /\ UNCHANGED <<busy, hdr, last>>
           \/ h.k = 0 /\ Closes(cmd.slot) /\ Ends(h.err)
        /\ Stays /\ SameProc

cmd_stat ==
    /\ In("stat")
    /\ Closes(cmd.slot) /\ Ends("ok")
    /\ Stays /\ SameProc

cmd_xhead ==
    LET r == cpio_file_read(cmd.slot, cmd.pos, ROWBYTES)
    IN  /\ In("xhead")
        /\ \/ /\ cmd.i < ROWS /\ r[2] > 0
              /\ Runs([cmd EXCEPT !.out = Append(@, r), !.pos = @ + r[2], !.i = @ + 1])
              /\ UNCHANGED <<cpio, last>>
           \/ (cmd.i = ROWS \/ r[2] = 0) /\ Closes(cmd.slot) /\ Ends("ok")
        /\ Stays /\ SameProc

-----------------------------------------------------------------------------
(* Running a program *)

RunProgram(arg) ==
    /\ Gives
    /\ Runs([Idle EXCEPT !.name = "probe", !.arg = arg, !.i = 1])
    /\ last' = Idle
    /\ UNCHANGED cpio

\* kshell_search_bin: file_stat opens and closes; a directory is passed over,
\* an error other than -ENOENT ends the search.
ProbeOpens ==
    /\ In("probe") /\ cmd.slot = 0 /\ cmd.i <= 2
    /\ \E s \in CSlots : Opens(BIN_PATHS[cmd.i], cmd.arg, s) /\ Runs([cmd EXCEPT !.slot = s])
    /\ UNCHANGED last /\ Stays /\ SameProc

ProbeCloses ==
    /\ In("probe") /\ cmd.slot # 0
    /\ Closes(cmd.slot)
    /\ Runs(IF Entry(cmd.slot).type = "REG"
            THEN [cmd EXCEPT !.name = "load", !.slot = 0]
            ELSE [cmd EXCEPT !.slot = 0, !.i = @ + 1])
    /\ UNCHANGED last /\ Stays /\ SameProc

ProbeMisses ==
    /\ In("probe") /\ cmd.slot = 0 /\ cmd.i <= 2
    /\ OpenFails(BIN_PATHS[cmd.i], cmd.arg)
    /\ IF Lookup(BIN_PATHS[cmd.i], cmd.arg).err = "ENOENT"
       THEN Runs([cmd EXCEPT !.i = @ + 1]) /\ UNCHANGED last
       ELSE Ends(Lookup(BIN_PATHS[cmd.i], cmd.arg).err)
    /\ Stays /\ SameProc

ProbeGivesUp ==
    /\ In("probe") /\ cmd.slot = 0 /\ cmd.i > 2
    /\ Ends("unknown")
    /\ Stays /\ UNCHANGED cpio /\ SameProc

\* addrspc_init finds no page tables: the process that was started without a
\* program faults, and closing it closes no file.
LoadNoTables ==
    /\ In("load") /\ proc # "none"
    /\ Ends("ENOMEM")
    /\ shell_if' = FALSE
    /\ UNCHANGED <<vfs, cpio, booted, given>> /\ SameProc

\* kshell_search_bin has just found the file: this open succeeds.
LoadOpens ==
    /\ In("load") /\ proc = "none" /\ cmd.slot = 0
    /\ \E s \in CSlots :
          /\ Opens(BIN_PATHS[cmd.i], cmd.arg, s)
          /\ Runs([cmd EXCEPT !.slot = s, !.i = 0])
    /\ UNCHANGED last /\ Stays /\ SameProc

\* The kernel goes no further: an error unmaps the kernel, or worse.
Dies(why) == dead' = why /\ UNCHANGED <<cpio, cmd, last, proc, pslot>> /\ Stays

Elf == Entry(cmd.slot).elf
LoadHeader ==
    LET r == cpio_file_read(cmd.slot, 0, EHDR)
    IN  /\ In("load") /\ cmd.slot # 0 /\ cmd.i = 0
        /\ \/ r[2] < EHDR /\ Dies("garbage")
           \/ r[2] = EHDR /\ Elf.ident # "exec32" /\ Dies("undefined")
           \/ /\ r[2] = EHDR /\ Elf.ident = "exec32"
              /\ Runs([cmd EXCEPT !.i = 1])
              /\ UNCHANGED <<cpio, last>> /\ Stays /\ SameProc

\* One turn of the loop: elf_read_phdr32, then elf_load_seg32, whose loop
\* ends only when it has read enough.
LoadSegment ==
    LET ph == Elf.ph[cmd.i]
        r  == cpio_file_read(cmd.slot, Elf.phoff + (cmd.i - 1) * PHDR, PHDR)
        g  == cpio_file_read(cmd.slot, ph.off, ph.filesz)
    IN  /\ In("load") /\ cmd.slot # 0 /\ cmd.i \in 1 .. Len(Elf.ph)
        /\ \/ r[2] > PHDR /\ Dies("overrun")
           \/ r[2] < PHDR /\ Dies("garbage")
           \/ r[2] = PHDR /\ ph.load /\ g[2] > ph.filesz /\ Dies("overrun")
           \/ r[2] = PHDR /\ ph.load /\ g[2] < ph.filesz /\ Dies("hang")
           \/ /\ r[2] = PHDR /\ (ph.load => g[2] = ph.filesz)
              /\ Runs([cmd EXCEPT !.i = @ + 1, !.out = IF ph.load THEN Append(@, g) ELSE @])
              /\ UNCHANGED <<cpio, last>> /\ Stays /\ SameProc

\* The program is started and runs until its process is closed.
Start ==
    /\ In("load") /\ cmd.slot # 0 /\ cmd.i = Len(Elf.ph) + 1
    /\ Runs([cmd EXCEPT !.name = "program", !.slot = 0])
    /\ proc' = "loaded" /\ pslot' = cmd.slot
    /\ UNCHANGED <<cpio, last, dead>> /\ Stays

process_close ==
    /\ In("program")
    /\ Closes(pslot) /\ Ends("ok")
    /\ proc' = "none" /\ pslot' = 0
    /\ shell_if' = FALSE
    /\ UNCHANGED <<vfs, booted, dead, given>>

\* The first tick, while the boot shell runs.
Tick ==
    /\ Ready /\ shell_if /\ cmd.name # "program"
    /\ shell_if' = FALSE
    /\ cmd' = Idle
    /\ IF cmd.name = "load" /\ cmd.slot # 0
       THEN proc' = "lost" /\ pslot' = cmd.slot ELSE UNCHANGED <<proc, pslot>>
    /\ UNCHANGED <<vfs, cpio, booted, last, dead, given>>

Command ==
    \/ \E n \in Names, c \in {"ls", "stat", "xhead"} :
          (n = NULL => c = "ls") /\ (CommandOpens(c, n) \/ CommandFails(c, n))
    \/ \E n \in Names \ {NULL} : RunProgram(n)
    \/ cmd_ls \/ cmd_stat \/ cmd_xhead

Program ==
    \/ ProbeOpens \/ ProbeCloses \/ ProbeMisses \/ ProbeGivesUp
    \/ LoadNoTables \/ LoadOpens \/ LoadHeader \/ LoadSegment \/ Start \/ process_close

Next == init_drivers \/ (\E a \in DOMAIN Archives \cup {NoData} : mount_initrd(a)) \/ Command \/ Program \/ Tick

Spec == Init /\ [][Next]_vars

-----------------------------------------------------------------------------
(* Entries of cfdatas[] are given back exactly once on every path, also by *)
(* opens that fail half-way (cpiofs.c 334-376): the only one ever lost is  *)
(* what the boot shell had open when the first tick replaced it, so of the *)
(* four entries one is always free when a command opens a file.            *)
OpenFilesBounded ==
    LET lost == busy \ {cmd.slot, pslot}
    IN  /\ {cmd.slot, pslot} \ {0} \subseteq busy
        /\ cmd.slot # 0 => cmd.slot # pslot
        /\ Cardinality(lost) <= 1 /\ (shell_if => lost = {})
        /\ cmd.slot = 0 => busy # CSlots

Min2(x, y) == IF x < y THEN x ELSE y
\* The entry that a name in directory cwd is, 0 for none: the first with its path,
\* unless the end marker or a path too long for the buffer is met before it.
EntryOf(arg, cwd) ==
    LET path == RelPath(vfs_mount_list[1], path_join(PATH_MAX, cwd, arg))
        named == {k \in 1 .. Len(Disk) :
                    /\ Disk[k].path = path
                    /\ \A m \in 1 .. k - 1 : Disk[m].path # path /\ ~is_endmarker(Disk[m])
                    /\ \A m \in 1 .. k : Len(Disk[m].path) < PATH_MAX}
    IN  IF named = {} THEN 0 ELSE Min(named)
DataOff(k) == DiskOff[k + 1] - UpTo4(Disk[k].size)

\* A complete archive that the file system can walk to its end.
WellFormed ==
    /\ vfs_mount_list # <<>>
    /\ \A k \in 1 .. Len(Disk) : Len(Disk[k].path) < PATH_MAX
    /\ \A k \in 1 .. Len(Disk) : is_endmarker(Disk[k]) <=> k = Len(Disk)
    /\ \A k \in 1 .. Len(Disk) : is_endmarker(Disk[k]) => Disk[k].type # "DIR"

\* s goes through the numbers of set S once, upwards.
Ascends(s, S) ==
    /\ \A i \in 1 .. Len(s) : s[i] \in S
    /\ \A k \in S : \E i \in 1 .. Len(s) : s[i] = k
    /\ \A i, j \in 1 .. Len(s) : i < j => s[i] < s[j]

(* ls lists, in archive order, every entry behind the directory's own      *)
(* whose path begins with the directory's path, each once, up to the end   *)
(* marker, and ends without error (cpiofs.c 401-438).                      *)
ListingExact ==
    last.name = "ls" /\ WellFormed =>
        LET d == EntryOf(last.arg, ROOTDIR)
            isDir == d # 0 /\ Disk[d].type = "DIR"
            pre == IF Disk[d].path = ROOT THEN <<>> ELSE Disk[d].path
        IN  IF ~isDir THEN last.err # "ok"
            ELSE /\ last.err = "ok"
                 /\ Ascends(last.out, {k \in d + 1 .. Len(Disk) - 1 : IsPrefix(pre, Disk[k].path)})

\* How much of count bytes a read of entry k gets at pos: what the file has
\* there or, behind its end, what the archive still has.
Given(k, pos, count) ==
    CASE pos <= Disk[k].size -> Min2(count, Disk[k].size - pos)
      [] pos > Disk[k].size /\ count > 0 /\ DataOff(k) + pos < DiskSize ->
            DiskSize - (DataOff(k) + pos)
      [] OTHER -> 0

\* What loading entry k must come to: the first of its reads, in order, that
\* gets too much or too little decides.
PhdrOff(k, j) == Disk[k].elf.phoff + (j - 1) * PHDR
Bad(k, j) ==
    LET ph == Disk[k].elf.ph[j]
        n  == Given(k, PhdrOff(k, j), PHDR)
        m  == Given(k, ph.off, ph.filesz)
    IN  CASE n > PHDR -> "overrun"
          [] n < PHDR -> "garbage"
          [] n = PHDR /\ ph.load /\ m > ph.filesz -> "overrun"
          [] n = PHDR /\ ph.load /\ m < ph.filesz -> "hang"
          [] OTHER -> "no"
Outcome(k) ==
    IF Disk[k].size < EHDR THEN "garbage"
    ELSE IF Disk[k].elf.ident # "exec32" THEN "undefined"
    ELSE LET bad == {j \in 1 .. Len(Disk[k].elf.ph) : Bad(k, j) # "no"}
         IN  IF bad = {} THEN "no" ELSE Bad(k, Min(bad))

(* xhead shows the first 160 bytes of the file and no other (kshell.c      *)
(* 253-282); a program that runs has been loaded from exactly the bytes of *)
(* its segments, in order, and loading stops the kernel exactly when its   *)
(* headers or segments leave the file (elf.c 90-160, cpiofs.c 378-399).    *)
BytesExact ==
    /\ last.name = "xhead" /\ last.err = "ok" =>
        LET k == EntryOf(last.arg, ROOTDIR)
            shown == Min2(Disk[k].size, ROWS * ROWBYTES)
        IN  last.out = [r \in 1 .. (shown + ROWBYTES - 1) \div ROWBYTES |->
                <<DataOff(k) + (r - 1) * ROWBYTES, Min2(ROWBYTES, shown - (r - 1) * ROWBYTES)>>]
    /\ cmd.name = "program" =>
        LET k == hdr[pslot]
            ph == Disk[k].elf.ph
        IN  \E f \in [1 .. Len(cmd.out) -> 1 .. Len(ph)] :
                /\ Ascends(f, {j \in 1 .. Len(ph) : ph[j].load})
                /\ \A m \in 1 .. Len(cmd.out) :
                      cmd.out[m] = <<DataOff(k) + ph[f[m]].off, ph[f[m]].filesz>>
    /\ cmd.name = "load" /\ dead # "no" => dead = Outcome(hdr[cmd.slot])
    /\ cmd.name = "program" => Outcome(hdr[pslot]) = "no"
=============================================================================
