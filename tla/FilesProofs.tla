----------------------------- MODULE FilesProofs ----------------------------
(***************************************************************************)
(* Proofs about Files, for all archives, names and commands: entries of    *)
(* cfdatas[] are given back on every path, and at most one is ever lost;   *)
(* ls lists what it should, and the bytes shown and loaded are the file's. *)
(***************************************************************************)
EXTENDS Files, FiniteSetTheorems, SequenceTheorems, WellFoundedInduction, TLAPS

Fields == {"name", "arg", "slot", "pos", "out", "i", "err"}

\* Entries that are in use but no command and no program has.
Lost == busy \ {cmd.slot, pslot}

Held ==
    /\ busy \subseteq CSlots
    /\ cmd.slot \in CSlots \cup {0} /\ pslot \in CSlots \cup {0}
    /\ cmd.slot # 0 => cmd.slot \in busy /\ cmd.slot # pslot
    /\ pslot # 0 => pslot \in busy

\* Only the first tick loses an entry, and there is one first tick.
OneLost ==
    /\ shell_if \in BOOLEAN
    /\ shell_if => Lost = {}
    /\ \A s, t \in Lost : s = t

\* What a command holds at its stage: a load that has opened its file has found
\* the page tables free, so that no program has an entry; once its program runs
\* the entry is the program's.
Stage ==
    /\ DOMAIN cmd = Fields
    /\ cmd.name = "idle" => cmd.slot = 0
    /\ proc = "none" => pslot = 0
    /\ cmd.name = "load" /\ cmd.slot # 0 => proc = "none"
    /\ cmd.name = "program" => cmd.slot = 0 /\ pslot # 0

FInv == Held /\ OneLost /\ Stage

-----------------------------------------------------------------------------
(* The kinds of step. *)

LEMMA NoEntryZero == 0 \notin CSlots
BY CpioAssumption DEF CSlots

LEMMA IdleFields == DOMAIN Idle = Fields /\ Idle.name = "idle" /\ Idle.slot = 0
BY DEF Idle, Fields

\* No entry changes hands.
Quiet ==
    /\ busy' = busy /\ pslot' = pslot /\ proc' = proc
    /\ cmd'.slot = cmd.slot
    /\ shell_if' = shell_if \/ shell_if' = FALSE

LEMMA QuietStep ==
    ASSUME Held, OneLost, Quiet
    PROVE  Held' /\ OneLost'
<1>1. Held'
  BY DEF Held, Quiet
<1>2. Lost' = Lost
  BY DEF Lost, Quiet
<1>3. shell_if' \in BOOLEAN /\ (shell_if' => shell_if)
  <2>1. CASE shell_if' = shell_if
    BY <2>1, Zenon DEF OneLost
  <2>2. CASE shell_if' = FALSE
    BY <2>2
  <2> QED BY <2>1, <2>2 DEF Quiet
<1> QED BY <1>1, <1>2, <1>3 DEF OneLost

\* The command opens a file.
LEMMA OpenStep ==
    ASSUME Held, OneLost, NEW s \in CSlots \ busy, cmd.slot = 0,
           busy' = busy \cup {s}, cmd'.slot = s, pslot' = pslot, shell_if' = shell_if
    PROVE  Held' /\ OneLost'
<1>1. Held'
  BY NoEntryZero DEF Held
<1>2. Lost' = Lost
  BY NoEntryZero DEF Held, Lost
<1> QED BY <1>1, <1>2 DEF OneLost

\* The command closes its file.
LEMMA CloseStep ==
    ASSUME Held, OneLost, busy' = busy \ {cmd.slot}, cmd'.slot = 0,
           pslot' = pslot, shell_if' = shell_if
    PROVE  Held' /\ OneLost'
<1>1. Held'
  BY NoEntryZero DEF Held
<1>2. Lost' = Lost
  BY NoEntryZero DEF Held, Lost
<1> QED BY <1>1, <1>2 DEF OneLost

-----------------------------------------------------------------------------
(* Each step preserves the invariant. *)

LEMMA InitHeld == Init => FInv
<1> SUFFICES ASSUME Init PROVE FInv
  OBVIOUS
<1>1. busy = {} /\ cmd = Idle /\ pslot = 0 /\ proc = "none" /\ shell_if = TRUE
  BY DEF Init, CpioInit
<1> QED BY <1>1, IdleFields DEF FInv, Held, OneLost, Stage, Lost

LEMMA BootHeld ==
    ASSUME FInv, init_drivers \/ \E a \in DOMAIN Archives \cup {NoData} : mount_initrd(a)
    PROVE  FInv'
<1>1. UNCHANGED <<busy, cmd, pslot, proc, shell_if>>
  BY DEF init_drivers, mount_initrd, cpio
<1> QED BY <1>1 DEF FInv, Held, OneLost, Stage, Lost

\* Giving a command touches neither the program nor the boot shell.
LEMMA GivesKeeps ==
    ASSUME FInv, Gives
    PROVE  cmd.name = "idle" /\ cmd.slot = 0 /\ UNCHANGED <<pslot, proc, shell_if>>
BY DEF FInv, Stage, Gives, In, SameProc

LEMMA CommandOpensHeld ==
    ASSUME FInv, NEW name \in {"ls", "stat", "xhead"}, NEW arg, CommandOpens(name, arg)
    PROVE  FInv'
<1>1. PICK s \in CSlots : /\ Opens(ROOTDIR, arg, s)
                          /\ cmd' = [Idle EXCEPT !.name = name, !.arg = arg, !.slot = s]
  BY DEF CommandOpens, Runs
<1>2. s \in CSlots \ busy /\ busy' = busy \cup {s}
  BY <1>1 DEF Opens
<1>3. DOMAIN cmd' = Fields /\ cmd'.name = name /\ cmd'.slot = s
  BY <1>1, IdleFields DEF Fields
<1>4. cmd.slot = 0 /\ UNCHANGED <<pslot, proc, shell_if>>
  BY GivesKeeps DEF CommandOpens
<1>5. Held' /\ OneLost'
  BY <1>2, <1>3, <1>4, OpenStep DEF FInv
<1>6. Stage'
  BY <1>3, <1>4 DEF FInv, Stage
<1> QED BY <1>5, <1>6 DEF FInv

LEMMA CommandFailsHeld ==
    ASSUME FInv, NEW name, NEW arg, CommandFails(name, arg)
    PROVE  FInv'
<1>1. UNCHANGED <<busy, cmd, pslot, proc, shell_if>>
  BY GivesKeeps DEF CommandFails, OpenFails, cpio
<1> QED BY <1>1 DEF FInv, Held, OneLost, Stage, Lost

LEMMA RunProgramHeld ==
    ASSUME FInv, NEW arg, RunProgram(arg)
    PROVE  FInv'
<1>1. cmd' = [Idle EXCEPT !.name = "probe", !.arg = arg, !.i = 1]
  BY DEF RunProgram, Runs
<1>2. DOMAIN cmd' = Fields /\ cmd'.name = "probe" /\ cmd'.slot = 0
  BY <1>1, IdleFields DEF Fields
<1>3. busy' = busy /\ cmd.slot = 0 /\ UNCHANGED <<pslot, proc, shell_if>>
  BY GivesKeeps DEF RunProgram, cpio
<1>4. Held' /\ OneLost'
  BY <1>2, <1>3, QuietStep DEF FInv, Quiet
<1>5. Stage'
  BY <1>2, <1>3 DEF FInv, Stage
<1> QED BY <1>4, <1>5 DEF FInv

\* A command ends and its file, if it has one, is closed.
LEMMA EndsHeld ==
    ASSUME FInv, cmd' = Idle, busy' = busy \ {cmd.slot}, UNCHANGED <<pslot, proc, shell_if>>
    PROVE  FInv'
<1>1. Held' /\ OneLost'
  BY IdleFields, CloseStep DEF FInv
<1>2. Stage'
  BY IdleFields DEF FInv, Stage
<1> QED BY <1>1, <1>2 DEF FInv

\* A command goes on with the entry it has.
LEMMA GoesOn ==
    ASSUME FInv, DOMAIN cmd' = Fields, cmd'.name = cmd.name, cmd'.slot = cmd.slot,
           busy' = busy, UNCHANGED <<pslot, proc, shell_if>>
    PROVE  FInv'
<1>1. Held' /\ OneLost'
  BY QuietStep DEF FInv, Quiet
<1>2. Stage'
  BY DEF FInv, Stage
<1> QED BY <1>1, <1>2 DEF FInv

LEMMA ReadsHeld ==
    ASSUME FInv, cmd_ls \/ cmd_stat \/ cmd_xhead
    PROVE  FInv'
<1>1. UNCHANGED <<pslot, proc, shell_if>>
  BY DEF cmd_ls, cmd_stat, cmd_xhead, Stays, SameProc
<1>2. CASE busy' = busy \ {cmd.slot} /\ cmd' = Idle
  BY <1>1, <1>2, EndsHeld
<1>3. CASE /\ busy' = busy
           /\ \E out, pos, i : cmd' = [cmd EXCEPT !.out = out, !.pos = pos, !.i = i]
  <2>1. DOMAIN cmd' = Fields /\ cmd'.name = cmd.name /\ cmd'.slot = cmd.slot
    BY <1>3 DEF FInv, Stage, Fields
  <2> QED BY <1>1, <1>3, <2>1, GoesOn
<1>4. CASE busy' = busy /\ \E out : cmd' = [cmd EXCEPT !.out = out]
  <2>1. DOMAIN cmd' = Fields /\ cmd'.name = cmd.name /\ cmd'.slot = cmd.slot
    BY <1>4 DEF FInv, Stage, Fields
  <2> QED BY <1>1, <1>4, <2>1, GoesOn
<1>5. CASE cmd_ls
  <2>1. \/ busy' = busy \ {cmd.slot} /\ cmd' = Idle
        \/ busy' = busy /\ cmd' = [cmd EXCEPT !.out = Append(@, cpio_file_readdir(cmd.slot).k)]
    BY <1>5 DEF cmd_ls, Closes, Ends, Runs
  <2> QED BY <2>1, <1>2, <1>4
<1>6. CASE cmd_stat
  BY <1>2, <1>6 DEF cmd_stat, Closes, Ends
<1>7. CASE cmd_xhead
  <2> DEFINE r == cpio_file_read(cmd.slot, cmd.pos, ROWBYTES)
  <2>1. \/ busy' = busy \ {cmd.slot} /\ cmd' = Idle
        \/ busy' = busy /\ cmd' = [cmd EXCEPT !.out = Append(@, r), !.pos = @ + r[2], !.i = @ + 1]
    BY <1>7 DEF cmd_xhead, Closes, Ends, Runs, cpio
  <2> QED BY <2>1, <1>2, <1>3
<1> QED BY <1>5, <1>6, <1>7

LEMMA ProbeHeld ==
    ASSUME FInv, ProbeOpens \/ ProbeCloses \/ ProbeMisses \/ ProbeGivesUp
    PROVE  FInv'
<1>1. UNCHANGED <<pslot, proc, shell_if>> /\ cmd.name = "probe"
  BY DEF ProbeOpens, ProbeCloses, ProbeMisses, ProbeGivesUp, Stays, SameProc, In
<1>2. CASE ProbeOpens
  <2>1. PICK s \in CSlots : /\ Opens(BIN_PATHS[cmd.i], cmd.arg, s)
                            /\ cmd' = [cmd EXCEPT !.slot = s]
    BY <1>2 DEF ProbeOpens, Runs
  <2>2. s \in CSlots \ busy /\ busy' = busy \cup {s}
    BY <2>1 DEF Opens
  <2>3. DOMAIN cmd' = Fields /\ cmd'.name = "probe" /\ cmd'.slot = s
    BY <1>1, <2>1 DEF FInv, Stage, Fields
  <2>4. Held' /\ OneLost'
    BY <1>1, <1>2, <2>2, <2>3, OpenStep DEF FInv, ProbeOpens
  <2>5. Stage'
    BY <1>1, <2>3 DEF FInv, Stage
  <2> QED BY <2>4, <2>5 DEF FInv
<1>3. CASE ProbeCloses
  <2>1. busy' = busy \ {cmd.slot}
    BY <1>3 DEF ProbeCloses, Closes
  <2>2. \/ cmd' = [cmd EXCEPT !.name = "load", !.slot = 0]
        \/ cmd' = [cmd EXCEPT !.slot = 0, !.i = cmd.i + 1]
    BY <1>3 DEF ProbeCloses, Runs
  <2>3. DOMAIN cmd' = Fields /\ cmd'.name \in {"probe", "load"} /\ cmd'.slot = 0
    BY <1>1, <2>2 DEF FInv, Stage, Fields
  <2>4. Held' /\ OneLost'
    BY <1>1, <2>1, <2>3, CloseStep DEF FInv
  <2>5. Stage'
    BY <1>1, <2>3 DEF FInv, Stage
  <2> QED BY <2>4, <2>5 DEF FInv
<1>4. CASE ProbeMisses
  <2>1. busy' = busy /\ cmd.slot = 0
    BY <1>4 DEF ProbeMisses, OpenFails, cpio
  <2>2. cmd' = Idle \/ cmd' = [cmd EXCEPT !.i = cmd.i + 1]
    BY <1>4 DEF ProbeMisses, Runs, Ends
  <2>3. DOMAIN cmd' = Fields /\ cmd'.name \in {"probe", "idle"} /\ cmd'.slot = 0
    BY <1>1, <2>1, <2>2, IdleFields DEF FInv, Stage, Fields
  <2>4. Held' /\ OneLost'
    BY <1>1, <2>1, <2>3, QuietStep DEF FInv, Quiet
  <2>5. Stage'
    BY <1>1, <2>3 DEF FInv, Stage
  <2> QED BY <2>4, <2>5 DEF FInv
<1>5. CASE ProbeGivesUp
  <2>1. busy' = busy /\ cmd.slot = 0 /\ cmd' = Idle
    BY <1>5 DEF ProbeGivesUp, Ends, cpio
  <2>2. 0 \notin busy
    BY NoEntryZero DEF FInv, Held
  <2>4. busy' = busy /\ cmd.slot = 0
    BY <2>1
  <2>3. busy' = busy \ {cmd.slot}
    BY <2>2, <2>4, Zenon
  <2> QED BY <1>1, <2>1, <2>3, EndsHeld
<1> QED BY <1>2, <1>3, <1>4, <1>5

LEMMA LoadHeld ==
    ASSUME FInv, LoadNoTables \/ LoadOpens \/ LoadHeader \/ LoadSegment
    PROVE  FInv'
<1>1. cmd.name = "load"
  BY DEF LoadNoTables, LoadOpens, LoadHeader, LoadSegment, In
<1>2. CASE LoadNoTables
  <2>1. busy' = busy /\ cmd' = Idle /\ shell_if' = FALSE /\ UNCHANGED <<pslot, proc>>
    BY <1>2 DEF LoadNoTables, Ends, SameProc, cpio
  <2>2. cmd.slot = 0
    BY <1>1, <1>2 DEF LoadNoTables, FInv, Stage
  <2>3. Held' /\ OneLost'
    BY <2>1, <2>2, IdleFields, QuietStep DEF FInv, Quiet
  <2>4. Stage'
    BY <2>1, IdleFields DEF FInv, Stage
  <2> QED BY <2>3, <2>4 DEF FInv
<1>3. CASE LoadOpens
  <2>1. PICK s \in CSlots : /\ Opens(BIN_PATHS[cmd.i], cmd.arg, s)
                            /\ cmd' = [cmd EXCEPT !.slot = s, !.i = 0]
    BY <1>3 DEF LoadOpens, Runs
  <2>2. s \in CSlots \ busy /\ busy' = busy \cup {s}
    BY <2>1 DEF Opens
  <2>3. DOMAIN cmd' = Fields /\ cmd'.name = "load" /\ cmd'.slot = s
    BY <1>1, <2>1 DEF FInv, Stage, Fields
  <2>4. proc = "none" /\ cmd.slot = 0 /\ UNCHANGED <<pslot, proc, shell_if>>
    BY <1>3 DEF LoadOpens, Stays, SameProc
  <2>5. Held' /\ OneLost'
    BY <2>2, <2>3, <2>4, OpenStep DEF FInv
  <2>6. Stage'
    BY <2>3, <2>4 DEF FInv, Stage
  <2> QED BY <2>5, <2>6 DEF FInv
<1>4. ASSUME busy' = busy, UNCHANGED <<pslot, proc, shell_if>>,
             \/ cmd' = cmd
             \/ \E i, out : cmd' = [cmd EXCEPT !.i = i, !.out = out]
             \/ \E i : cmd' = [cmd EXCEPT !.i = i]
      PROVE  FInv'
  <2>1. DOMAIN cmd' = Fields /\ cmd'.name = cmd.name /\ cmd'.slot = cmd.slot
    BY <1>4 DEF FInv, Stage, Fields
  <2> QED BY <1>4, <2>1, GoesOn
<1>5. CASE LoadHeader
  <2>1. busy' = busy /\ UNCHANGED <<pslot, proc, shell_if>>
        /\ (cmd' = cmd \/ cmd' = [cmd EXCEPT !.i = 1])
    BY <1>5 DEF LoadHeader, Dies, Runs, Stays, SameProc, cpio
  <2> QED BY <1>4, <2>1
<1>6. CASE LoadSegment
  <2>1. UNCHANGED cpio /\ Stays /\ UNCHANGED <<pslot, proc>>
    BY <1>6 DEF LoadSegment, Dies, SameProc
  <2>4. busy' = busy /\ UNCHANGED <<pslot, proc, shell_if>>
    BY <2>1, Zenon DEF Stays, cpio
  <2>2. cmd' = cmd \/ \E i, out : cmd' = [cmd EXCEPT !.i = i, !.out = out]
    <3>1. \/ cmd' = cmd
          \/ cmd' = [cmd EXCEPT !.i = @ + 1,
                                !.out = IF Elf.ph[cmd.i].load
                                        THEN Append(@, cpio_file_read(cmd.slot, Elf.ph[cmd.i].off,
                                                                      Elf.ph[cmd.i].filesz))
                                        ELSE @]
      BY <1>6, ZenonT(60) DEF LoadSegment, Dies, Runs
    <3> QED BY <3>1, ZenonT(60)
  <2> QED BY <1>4, <2>2, <2>4
<1> QED BY <1>2, <1>3, <1>5, <1>6

\* The entry goes from the command to the program it has loaded.
LEMMA StartHeld == FInv /\ Start => FInv'
<1> SUFFICES ASSUME FInv, Start PROVE FInv'
  OBVIOUS
<1>1. cmd' = [cmd EXCEPT !.name = "program", !.slot = 0] /\ cmd.name = "load" /\ cmd.slot # 0
  BY DEF Start, Runs, In
<1>2. busy' = busy /\ pslot' = cmd.slot /\ proc' = "loaded" /\ shell_if' = shell_if
  BY DEF Start, Stays, cpio
<1>3. pslot = 0
  BY <1>1 DEF FInv, Stage
<1>4. DOMAIN cmd' = Fields /\ cmd'.name = "program" /\ cmd'.slot = 0
  BY <1>1 DEF FInv, Stage, Fields
<1>5. Held'
  BY <1>1, <1>2, <1>4 DEF FInv, Held
<1>6. Lost' = Lost
  BY <1>2, <1>3, <1>4 DEF Lost
<1>7. OneLost'
  BY <1>2, <1>6 DEF FInv, OneLost
<1>8. Stage'
  BY <1>1, <1>2, <1>4 DEF FInv, Stage
<1> QED BY <1>5, <1>7, <1>8 DEF FInv

LEMMA ProcessCloseHeld == FInv /\ process_close => FInv'
<1> SUFFICES ASSUME FInv, process_close PROVE FInv'
  OBVIOUS
<1>1. cmd' = Idle /\ busy' = busy \ {pslot} /\ pslot' = 0 /\ proc' = "none" /\ shell_if' = FALSE
  BY DEF process_close, Closes, Ends
<1>2. cmd.slot = 0
  BY DEF process_close, In, FInv, Stage
<1>3. Held'
  BY <1>1, IdleFields DEF FInv, Held
<1>4. Lost' = Lost
  BY <1>1, <1>2, IdleFields, NoEntryZero DEF Lost, FInv, Held
<1>5. OneLost'
  BY <1>1, <1>4 DEF FInv, OneLost
<1>6. Stage'
  BY <1>1, IdleFields DEF Stage
<1> QED BY <1>3, <1>5, <1>6 DEF FInv

\* The first tick: what the boot shell's command has open is lost, or stays with
\* the process it was being loaded for.
LEMMA TickHeld == FInv /\ Tick => FInv'
<1> SUFFICES ASSUME FInv, Tick PROVE FInv'
  OBVIOUS
<1>1. cmd' = Idle /\ busy' = busy /\ shell_if /\ shell_if' = FALSE /\ cmd.name # "program"
  BY DEF Tick, cpio
<1>2. Lost = {}
  BY <1>1 DEF FInv, OneLost
<1>3. CASE cmd.name = "load" /\ cmd.slot # 0
  <2>1. pslot = 0 /\ pslot' = cmd.slot /\ proc' = "lost"
    BY <1>3 DEF Tick, FInv, Stage
  <2>2. Held'
    BY <1>1, <1>3, <2>1, IdleFields DEF FInv, Held
  <2>3. Lost' = {}
    BY <1>1, <1>2, <2>1, IdleFields, NoEntryZero DEF Lost
  <2>4. OneLost'
    BY <1>1, <2>3 DEF OneLost
  <2>5. Stage'
    BY <1>1, <2>1, IdleFields DEF Stage
  <2> QED BY <2>2, <2>4, <2>5 DEF FInv
<1>4. CASE ~(cmd.name = "load" /\ cmd.slot # 0)
  <2>1. UNCHANGED <<proc, pslot>>
    BY <1>4 DEF Tick
  <2>2. Held'
    BY <1>1, <2>1, IdleFields DEF FInv, Held
  <2>3. Lost' \subseteq {cmd.slot}
    BY <1>1, <1>2, <2>1 DEF Lost
  <2>4. OneLost'
    BY <1>1, <2>3 DEF OneLost
  <2>5. Stage'
    BY <1>1, <2>1, IdleFields DEF FInv, Stage
  <2> QED BY <2>2, <2>4, <2>5 DEF FInv
<1> QED BY <1>3, <1>4

-----------------------------------------------------------------------------
\* FInv holds of every state: who has an open file, and that no other is open
\* but one that the first tick took from the boot shell.
THEOREM FilesInductive == Spec => []FInv
<1>1. FInv /\ UNCHANGED vars => FInv'
  BY DEF FInv, Held, OneLost, Stage, Lost, vars, cpio, fvars
<1>2. FInv /\ Next => FInv'
  <2> SUFFICES ASSUME FInv, Next PROVE FInv'
    OBVIOUS
  <2>1. CASE Command
    <3>1. CASE \E n \in Names, c \in {"ls", "stat", "xhead"} :
                  CommandOpens(c, n) \/ CommandFails(c, n)
      BY <3>1, CommandOpensHeld, CommandFailsHeld
    <3>2. CASE \E n \in Names \ {NULL} : RunProgram(n)
      BY <3>2, RunProgramHeld
    <3> QED BY <2>1, <3>1, <3>2, ReadsHeld DEF Command
  <2>2. CASE Program
    BY <2>2, ProbeHeld, LoadHeld, StartHeld, ProcessCloseHeld DEF Program
  <2> QED BY <2>1, <2>2, BootHeld, TickHeld DEF Next
<1> QED BY <1>1, <1>2, InitHeld, PTL DEF Spec

\* A set without two elements has at most one.
LEMMA AtMostOne ==
    ASSUME NEW S, \A s, t \in S : s = t
    PROVE  Cardinality(S) <= 1
<1>1. CASE S = {}
  BY <1>1, FS_EmptySet
<1>2. CASE S # {}
  <2>1. PICK s : S = {s}
    BY <1>2
  <2>2. Cardinality(S) = 1
    BY <2>1, FS_Singleton, Zenon
  <2> QED BY <2>2
<1> QED BY <1>1, <1>2

\* The invariant bounds the open files.
LEMMA BoundedNow ==
    ASSUME MAX_CPIO_OPEN >= 3, FInv
    PROVE  OpenFilesBounded
<1>1. {cmd.slot, pslot} \ {0} \subseteq busy /\ (cmd.slot # 0 => cmd.slot # pslot)
  BY DEF FInv, Held
<1>2. Cardinality(Lost) <= 1 /\ (shell_if => Lost = {})
  BY AtMostOne DEF FInv, OneLost
<1>3. ASSUME cmd.slot = 0, busy = CSlots
      PROVE  FALSE
  <2>1. 1 \in busy /\ 2 \in busy /\ 3 \in busy
    BY <1>3, CpioAssumption DEF CSlots
  <2>2. Lost = busy \ {0, pslot}
    BY <1>3 DEF Lost
  <2>3. \A s, t \in Lost : s = t
    BY DEF FInv, OneLost
  <2> QED BY <2>1, <2>2, <2>3
<1> QED BY <1>1, <1>2, <1>3 DEF OpenFilesBounded, Lost

\* With three entries or more - cfdatas[] has four - every entry in use is held
\* by the command or the program but one at most, that the boot shell had open
\* at the first tick, and whenever a command opens a file one is free
\* (cpiofs.c 334-376).
THEOREM OpenFilesAlwaysBounded ==
    ASSUME MAX_CPIO_OPEN >= 3
    PROVE  Spec => []OpenFilesBounded
<1>1. FInv => OpenFilesBounded
  BY BoundedNow
<1> QED BY <1>1, FilesInductive, PTL

-----------------------------------------------------------------------------
(* What is listed, shown and loaded: the inductive invariant.              *)

Mounted ==
    /\ vfs_mount_list = <<1>> /\ ramdisks[1] \in DOMAIN Archives
    /\ superblocks[1].mpath = ROOTDIR /\ superblocks[1].disk = 1

\* Nothing happens before the boot is over, and it mounts one archive at most.
BootOnce ==
    /\ booted # "up" =>
        /\ cmd = Idle /\ last = Idle /\ dead = "no"
        /\ ramdisks = [d \in 1 .. RAMDISKS_MAX |-> NoData]
        /\ superblocks = [s \in 1 .. SB_MAX |-> NoSb]
        /\ vfs_mount_list = <<>>
    /\ vfs_mount_list = <<>> \/ Mounted

\* An entry in use is of a header of the mounted archive.
OpenOn ==
    /\ DOMAIN hdr = CSlots /\ DOMAIN af = CSlots
    /\ \A s \in busy : Mounted /\ hdr[s] \in 1 .. Len(Disk)

\* ls of directory d has listed what is to be listed up to header j and goes on
\* at position p behind it.
Prefix(d) == IF Disk[d].path = ROOT THEN <<>> ELSE Disk[d].path
Below(d, j) == {k \in d + 1 .. j : IsPrefix(Prefix(d), Disk[k].path)}
Listed(d, p, out, j) ==
    j \in d .. Len(Disk) - 1 /\ p = DiskOff[j + 1] /\ Ascends(out, Below(d, j))
Listing(d, p, out) ==
    WellFormed /\ Disk[d].type = "DIR" => out \in Seq(Nat) /\ \E j \in Nat : Listed(d, p, out, j)

\* xhead has shown i rows of entry k, none of them empty.
Row(k, r) == <<DataOff(k) + (r - 1) * ROWBYTES, Min2(ROWBYTES, Disk[k].size - (r - 1) * ROWBYTES)>>
Shown(k, out, pos, i) ==
    /\ i \in 0 .. ROWS /\ (i > 0 => (i - 1) * ROWBYTES < Disk[k].size)
    /\ pos = Min2(Disk[k].size, i * ROWBYTES)
    /\ out = [r \in 1 .. i |-> Row(k, r)]

\* The first n program headers of entry k have been read and their segments
\* loaded.
Taken(k, out, n) ==
    LET ph == Disk[k].elf.ph
    IN  /\ out \in Seq(Nat \X Nat)
        /\ \E f \in [1 .. Len(out) -> 1 .. Len(ph)] :
            /\ Ascends(f, {j \in 1 .. n : ph[j].load})
            /\ \A m \in 1 .. Len(out) :
                  out[m] = <<DataOff(k) + ph[f[m]].off, ph[f[m]].filesz>>
Fine(k, n) == \A j \in 1 .. n : Bad(k, j) = "no"
IsExec(k) == Disk[k].size >= EHDR /\ Disk[k].elf.ident = "exec32"
Loading(k, out, i) ==
    /\ i \in 0 .. Len(Disk[k].elf.ph) + 1
    /\ i > 0 => IsExec(k)
    /\ Fine(k, i - 1) /\ Taken(k, out, i - 1)

\* What command c, with the positions a and headers h of the open files and the
\* program's entry p, has done so far.
Does(c, a, h, p) ==
    /\ c.name \in {"ls", "stat", "xhead"} => c.slot # 0 /\ h[c.slot] = EntryOf(c.arg, ROOTDIR)
    /\ c.name = "ls" => Listing(h[c.slot], a[c.slot], c.out)
    /\ c.name = "xhead" => Shown(h[c.slot], c.out, c.pos, c.i)
    /\ c.name = "probe" \/ (c.name = "load" /\ c.slot = 0) => c.out = <<>>
    /\ c.name = "load" /\ c.slot # 0 => Loading(h[c.slot], c.out, c.i)
    /\ c.name = "program" => LET n == Len(Disk[h[p]].elf.ph)
                             IN  IsExec(h[p]) /\ Fine(h[p], n) /\ Taken(h[p], c.out, n)
Doing == Does(cmd, af, hdr, pslot)

Died == dead # "no" => cmd.name = "load" /\ cmd.slot # 0 /\ dead = Outcome(hdr[cmd.slot])

\* What a command that has ended has shown.
ShownAll ==
    last.name = "xhead" /\ last.err = "ok" =>
        LET k == EntryOf(last.arg, ROOTDIR)
            shown == Min2(Disk[k].size, ROWS * ROWBYTES)
        IN  last.out = [r \in 1 .. (shown + ROWBYTES - 1) \div ROWBYTES |->
                <<DataOff(k) + (r - 1) * ROWBYTES, Min2(ROWBYTES, shown - (r - 1) * ROWBYTES)>>]

BInv == BootOnce /\ OpenOn /\ Doing /\ Died /\ ListingExact /\ ShownAll

-----------------------------------------------------------------------------
(* The layout of an archive. *)

LEMMA NatLeast ==
    ASSUME NEW T \in SUBSET Nat, T # {}
    PROVE  \E x \in T : \A y \in T : x <= y
<1> DEFINE R == OpToRel(<, Nat)
<1>1. IsWellFoundedOn(R, Nat)
  BY NatLessThanWellFounded
<1>2. PICK x \in T : \A y \in T : ~ (<<y, x>> \in R)
  <2> HIDE DEF R
  <2> QED BY <1>1, WFMin
<1>3. \A y \in T : ~(y < x)
  BY <1>2 DEF OpToRel
<1> QED BY <1>3

LEMMA MinIs ==
    ASSUME NEW T \in SUBSET Nat, NEW x \in T, \A y \in T : x <= y
    PROVE  Min(T) = x
<1>1. \A z \in T : (\A y \in T : z <= y) => z = x
  OBVIOUS
<1>2. Min(T) \in T /\ \A y \in T : Min(T) <= y
  BY DEF Min
<1> QED BY <1>1, <1>2

LEMMA Rounding ==
    ASSUME NEW n \in Nat
    PROVE  /\ UpTo4(n) \in Nat /\ UpTo4(n) >= n
           /\ ALIGN_UP(n, 4) = UpTo4(n)
<1>1. n + 4 - 1 = n + 3
  OBVIOUS
<1>2. ALIGN_UP(n, 4) = ((n + 3) \div 4) * 4
  BY <1>1 DEF ALIGN_UP
<1>3. (n + 3) \div 4 \in Nat /\ 4 * ((n + 3) \div 4) >= n
  OBVIOUS
<1> QED BY <1>2, <1>3 DEF UpTo4

\* Where the data of header k of an archive begins.
DataAt(name, k) ==
    HeaderOff[name][k] + NEWC_SIZE + psize(Archives[name][k]) + ppad(Archives[name][k])

LEMMA Layout ==
    ASSUME NEW name \in DOMAIN Archives, NEW k \in 1 .. Len(Archives[name])
    PROVE  LET e == Archives[name][k]
               off == HeaderOff[name]
           IN  /\ e \in Entries /\ Len(e.path) \in Nat /\ e.size \in Nat
               /\ e.type = "DIR" => e.size = 0
               /\ off[k] \in Nat /\ off[k + 1] \in Nat /\ off[k] < off[k + 1]
               /\ DataAt(name, k) \in Nat /\ DataAt(name, k) + e.size <= off[k + 1]
               /\ DataAt(name, k) = off[k + 1] - UpTo4(e.size)
               /\ cpio_skip_fdata(DataAt(name, k), e) = off[k + 1]
               /\ FdataEnd(name, k) = off[k + 1]
<1> DEFINE a == Archives[name]
           e == a[k]
           off == HeaderOff[name]
           x == NEWC_SIZE + psize(e)
<1>1. /\ a \in Seq(Entries) /\ off \in [1 .. Len(a) + 1 -> Nat]
      /\ off[k + 1] = off[k] + UpTo4(x) + UpTo4(e.size)
      /\ e.type = "DIR" => e.size = 0
  BY LayoutAssumption
<1>2. Len(a) \in Nat /\ e \in Entries /\ k \in 1 .. Len(a) + 1 /\ k + 1 \in 1 .. Len(a) + 1
  BY <1>1
<1>3. off[k] \in Nat /\ off[k + 1] \in Nat
  BY <1>1, <1>2
<1>4. e.path \in Seq(STRING) /\ e.size \in Nat
  BY <1>2 DEF Entries
<1>5. Len(e.path) \in Nat
  BY <1>4
<1>6. x \in Nat /\ x > 0
  BY <1>5 DEF NEWC_SIZE, psize
<1> HIDE DEF x, off, e, a
<1>7. PICK u \in Nat, v \in Nat, p \in Nat, z \in Nat :
        u = UpTo4(x) /\ v = UpTo4(e.size) /\ p = psize(e) /\ z = e.size
  <2>1. UpTo4(x) \in Nat
    BY <1>6, Rounding
  <2>2. UpTo4(e.size) \in Nat
    BY <1>4, Rounding
  <2>3. psize(e) \in Nat
    BY <1>5 DEF psize
  <2> QED BY <1>4, <2>1, <2>2, <2>3, Zenon
<1>8. u >= x /\ v >= z /\ x = 110 + p
  BY <1>4, <1>6, <1>7, Rounding DEF x, NEWC_SIZE
<1>9. ppad(e) = u - (110 + p) /\ fpad(e) = v - z
  BY <1>4, <1>6, <1>7, <1>8, Rounding DEF ppad, fpad, x
<1>10. PICK h \in Nat : h = off[k]
  BY <1>3
<1>11. off[k + 1] = h + u + v
  BY <1>1, <1>7, <1>10
<1>12. DataAt(name, k) = h + 110 + p + (u - (110 + p))
  <2>1. DataAt(name, k) = off[k] + NEWC_SIZE + psize(e) + ppad(e)
    BY DEF DataAt, off, e, a
  <2> QED BY <1>7, <1>9, <1>10, <2>1 DEF NEWC_SIZE
<1>13. DataAt(name, k) = h + u
  BY <1>12
<1>14. cpio_skip_fdata(DataAt(name, k), e) = h + u + z + (v - z)
  BY <1>7, <1>9, <1>13 DEF cpio_skip_fdata
<1>15. FdataEnd(name, k) = cpio_skip_fdata(DataAt(name, k), e)
  BY DEF FdataEnd, DataAt, e, a
<1>16. /\ h < h + u + v /\ h + u \in Nat /\ h + u = h + u + v - v
       /\ h + u + z <= h + u + v /\ h + u + z + (v - z) = h + u + v
  BY <1>6, <1>8
<1>17. off[k] < off[k + 1] /\ DataAt(name, k) \in Nat /\ DataAt(name, k) + e.size <= off[k + 1]
  BY <1>7, <1>10, <1>11, <1>13, <1>16
<1>18. /\ DataAt(name, k) = off[k + 1] - UpTo4(e.size)
       /\ cpio_skip_fdata(DataAt(name, k), e) = off[k + 1] /\ FdataEnd(name, k) = off[k + 1]
  BY <1>7, <1>11, <1>13, <1>14, <1>15, <1>16
<1> QED BY <1>1, <1>2, <1>3, <1>4, <1>5, <1>17, <1>18, Zenon DEF off, e, a

LEMMA ArchiveTypes ==
    ASSUME NEW name \in DOMAIN Archives
    PROVE  /\ Archives[name] \in Seq(Entries) /\ Len(Archives[name]) \in Nat
           /\ HeaderOff[name] \in [1 .. Len(Archives[name]) + 1 -> Nat] /\ HeaderOff[name][1] = 0
<1>1. /\ Archives[name] \in Seq(Entries)
      /\ HeaderOff[name] \in [1 .. Len(Archives[name]) + 1 -> Nat] /\ HeaderOff[name][1] = 0
  BY LayoutAssumption, Zenon
<1>2. Len(Archives[name]) \in Nat
  BY <1>1
<1> QED BY <1>1, <1>2

LEMMA OffOrdered ==
    ASSUME NEW name \in DOMAIN Archives, NEW i \in 1 .. Len(Archives[name]) + 1,
           NEW j \in 1 .. Len(Archives[name]) + 1, i < j
    PROVE  HeaderOff[name][i] < HeaderOff[name][j]
<1>0. PICK n \in Nat : n = Len(Archives[name])
  BY ArchiveTypes
<1>a. PICK off \in [1 .. n + 1 -> Nat] : off = HeaderOff[name]
  BY <1>0, ArchiveTypes
<1>1. n = Len(Archives[name]) /\ off = HeaderOff[name]
  BY <1>0, <1>a
<1>2. \A k \in 1 .. n : off[k] < off[k + 1]
  BY <1>1, Layout
<1> DEFINE T == {m \in Nat : i < m /\ m <= n + 1 /\ off[m] <= off[i]}
<1>3. T = {}
  <2> SUFFICES ASSUME T # {} PROVE FALSE
    OBVIOUS
  <2>1. PICK m \in T : \A y \in T : m <= y
    BY NatLeast
  <2>2. m - 1 \in 1 .. n /\ m - 1 \in Nat /\ m - 1 >= i /\ (m - 1) + 1 = m /\ m \in 1 .. n + 1
        /\ m - 1 \in 1 .. n + 1 /\ i \in 1 .. n + 1
    BY <1>1
  <2>3. off[m - 1] < off[m]
    BY <1>2, <2>2
  <2>4. m - 1 = i \/ off[i] < off[m - 1]
    BY <2>1, <2>2
  <2>5. off[i] \in Nat /\ off[m] \in Nat /\ off[m - 1] \in Nat
    BY <2>2
  <2>6. off[i] < off[m]
    <3>1. CASE m - 1 = i
      BY <2>3, <3>1
    <3>2. CASE off[i] < off[m - 1]
      BY <2>3, <2>5, <3>2
    <3> QED BY <2>4, <3>1, <3>2
  <2> QED BY <2>1, <2>5, <2>6
<1>4. j \in 1 .. n + 1 /\ i \in 1 .. n + 1
  BY <1>1
<1>5. j \notin T
  BY <1>3
<1> QED BY <1>1, <1>4, <1>5

\* A header is read where it begins, and there is none where the archive ends.
LEMMA HeaderAt ==
    ASSUME NEW name \in DOMAIN Archives
    PROVE  /\ \A k \in 1 .. Len(Archives[name]) :
                  cpio_read_header_raw(name, HeaderOff[name][k]) = {k}
           /\ cpio_read_header_raw(name, HeaderOff[name][Len(Archives[name]) + 1]) = {}
<1>0. PICK n \in Nat : n = Len(Archives[name])
  BY ArchiveTypes
<1>a. PICK off \in [1 .. n + 1 -> Nat] : off = HeaderOff[name]
  BY <1>0, ArchiveTypes
<1>1. n = Len(Archives[name]) /\ off = HeaderOff[name]
  BY <1>0, <1>a
<1>2. \A i, j \in 1 .. n + 1 : i < j => off[i] < off[j]
  BY <1>1, OffOrdered
<1>3. \A i, j \in 1 .. n + 1 : off[i] = off[j] => i = j
  <2> SUFFICES ASSUME NEW i \in 1 .. n + 1, NEW j \in 1 .. n + 1, off[i] = off[j] PROVE i = j
    OBVIOUS
  <2>1. off[i] \in Nat /\ off[j] \in Nat /\ (i < j \/ j < i \/ i = j)
    OBVIOUS
  <2> QED BY <1>2, <2>1
<1>4. \A p : cpio_read_header_raw(name, p) = {k \in 1 .. n : off[k] = p}
  BY <1>1 DEF cpio_read_header_raw
<1>5. ASSUME NEW k \in 1 .. n PROVE {m \in 1 .. n : off[m] = off[k]} = {k}
  BY <1>3
<1>6. {m \in 1 .. n : off[m] = off[n + 1]} = {}
  <2>1. ASSUME NEW m \in 1 .. n, off[m] = off[n + 1] PROVE FALSE
    <3>1. m \in 1 .. n + 1 /\ n + 1 \in 1 .. n + 1 /\ m # n + 1
      OBVIOUS
    <3> QED BY <1>3, <2>1, <3>1
  <2> QED BY <2>1
<1>7. ASSUME NEW k \in 1 .. n PROVE cpio_read_header_raw(name, off[k]) = {k}
  BY <1>4, <1>5
<1>8. cpio_read_header_raw(name, off[n + 1]) = {}
  BY <1>4, <1>6
<1> QED BY <1>1, <1>7, <1>8

TooLong(name, k) == Len(Archives[name][k].path) >= PATH_MAX

LEMMA HeaderRead ==
    ASSUME NEW name \in DOMAIN Archives, NEW k \in 1 .. Len(Archives[name])
    PROVE  /\ psize(Archives[name][k]) > PATH_MAX <=> TooLong(name, k)
           /\ TooLong(name, k) =>
                /\ cpio_read_header(name, HeaderOff[name][k]).k = 0
                /\ cpio_read_header(name, HeaderOff[name][k]).err = "EOVERFLOW"
           /\ ~TooLong(name, k) => cpio_read_header(name, HeaderOff[name][k]) =
                                    [k |-> k, pos |-> DataAt(name, k), err |-> "ok"]
<1> DEFINE p == HeaderOff[name][k]
           ks == cpio_read_header_raw(name, p)
           c == CHOOSE j \in ks : TRUE
<1>1. psize(Archives[name][k]) > PATH_MAX <=> TooLong(name, k)
  <2>1. Len(Archives[name][k].path) \in Nat
    BY Layout
  <2> QED BY <2>1, CpioAssumption DEF psize, TooLong
<1>2. ks = {k}
  BY HeaderAt
<1>3. c = k /\ ks # {}
  BY <1>2
<1>4. cpio_read_header(name, p) =
        IF ks = {} THEN [k |-> 0, pos |-> p, err |-> "EINVAL"]
        ELSE IF psize(Archives[name][c]) > PATH_MAX THEN [k |-> 0, pos |-> p, err |-> "EOVERFLOW"]
        ELSE [k |-> c, pos |-> p + NEWC_SIZE + psize(Archives[name][c]) + ppad(Archives[name][c]),
              err |-> "ok"]
  BY Zenon DEF cpio_read_header
<1> HIDE DEF c, ks
<1>5. CASE TooLong(name, k)
  BY <1>1, <1>3, <1>4, <1>5
<1>6. CASE ~TooLong(name, k)
  <2>1. cpio_read_header(name, p) = [k |-> c, pos |-> p + NEWC_SIZE + psize(Archives[name][c])
                                        + ppad(Archives[name][c]), err |-> "ok"]
    BY <1>1, <1>3, <1>4, <1>6
  <2> QED BY <1>1, <1>3, <1>6, <2>1 DEF DataAt
<1> QED BY <1>1, <1>5, <1>6

LEMMA NoHeaderRead ==
    ASSUME NEW name \in DOMAIN Archives, NEW p, cpio_read_header_raw(name, p) = {}
    PROVE  cpio_read_header(name, p).k = 0 /\ cpio_read_header(name, p).err = "EINVAL"
<1>1. cpio_read_header(name, p) = [k |-> 0, pos |-> p, err |-> "EINVAL"]
  BY Zenon DEF cpio_read_header
<1> QED BY <1>1

\* The walk from header j ends at the first header k that is looked for, that
\* cannot be read, or that is the last one; what is read there.
LEMMA WalkStops ==
    ASSUME NEW name \in DOMAIN Archives, NEW j \in 1 .. Len(Archives[name]), NEW hits
    PROVE  LET n == Len(Archives[name])
               h == cpio_read_header(name, WalkEnd(name, HeaderOff[name][j], hits))
           IN  \E k \in j .. n :
                  /\ k \in hits \/ TooLong(name, k) \/ k = n
                  /\ \A m \in j .. k - 1 : m \notin hits /\ ~TooLong(name, m)
                  /\ k \in hits /\ ~TooLong(name, k) =>
                        h = [k |-> k, pos |-> DataAt(name, k), err |-> "ok"]
                  /\ k \notin hits \/ TooLong(name, k) => h.k = 0 /\ h.err # "ok"
<1>0. PICK n \in Nat : n = Len(Archives[name])
  BY ArchiveTypes
<1>a. PICK off \in [1 .. n + 1 -> Nat] : off = HeaderOff[name]
  BY <1>0, ArchiveTypes
<1> DEFINE ends == {k \in 1 .. Len(Archives[name]) :
                       /\ HeaderOff[name][k] >= HeaderOff[name][j]
                       /\ k \in hits \/ psize(Archives[name][k]) > PATH_MAX
                                    \/ k = Len(Archives[name])
                                    \/ HeaderOff[name][k + 1] # FdataEnd(name, k)}
           c == CHOOSE k \in ends : \A m \in ends : k <= m
           E == {k \in j .. n : k \in hits \/ TooLong(name, k) \/ k = n}
<1>1. ends = E
  <2>1. ASSUME NEW k \in 1 .. n PROVE off[k] >= off[j] <=> k >= j
    <3>1. off[k] \in Nat /\ off[j] \in Nat /\ k \in 1 .. n + 1 /\ j \in 1 .. n + 1
      BY <1>0
    <3>2. CASE k < j
      <4>1. off[k] < off[j]
        BY <1>0, <1>a, <3>1, <3>2, OffOrdered
      <4> QED BY <3>1, <3>2, <4>1
    <3>3. CASE j < k
      <4>1. off[j] < off[k]
        BY <1>0, <1>a, <3>1, <3>3, OffOrdered
      <4> QED BY <3>1, <3>3, <4>1
    <3>4. CASE j = k
      BY <3>1, <3>4
    <3> QED BY <3>1, <3>2, <3>3, <3>4
  <2>2. ASSUME NEW k \in 1 .. n
        PROVE  /\ psize(Archives[name][k]) > PATH_MAX <=> TooLong(name, k)
               /\ HeaderOff[name][k + 1] = FdataEnd(name, k)
    BY <1>0, HeaderRead, Layout
  <2>3. ASSUME NEW k \in 1 .. n PROVE k \in ends <=> k \in E
    BY <1>0, <1>a, <2>1, <2>2
  <2>4. ends \subseteq 1 .. n /\ E \subseteq 1 .. n
    BY <1>0
  <2> HIDE DEF ends, E
  <2> QED BY <2>3, <2>4
<1>2. E \in SUBSET Nat /\ n \in E
  BY <1>0
<1>3. PICK k \in E : \A y \in E : k <= y
  <2> HIDE DEF E
  <2> QED BY <1>2, NatLeast
<1>4. c = k
  <2>1. c = Min(E)
    <3> HIDE DEF ends, E
    <3> QED BY <1>1 DEF Min
  <2> HIDE DEF c, E
  <2> QED BY <1>2, <1>3, <2>1, MinIs
<1>5. \A m \in j .. k - 1 : m \notin hits /\ ~TooLong(name, m)
  <2> SUFFICES ASSUME NEW m \in j .. k - 1 PROVE m \notin E /\ m \in j .. n
    BY DEF E
  <2>1. m < k /\ k \in j .. n
    BY <1>0, <1>3
  <2>2. m \in j .. n
    BY <1>0, <2>1
  <2> QED BY <1>3, <2>1, <2>2
<1>6. cpio_read_header_raw(name, HeaderOff[name][j]) # {}
  BY HeaderAt
<1>7. WalkEnd(name, HeaderOff[name][j], hits) =
        IF k \in hits \/ psize(Archives[name][k]) > PATH_MAX THEN HeaderOff[name][k]
        ELSE FdataEnd(name, k)
  <2>1. WalkEnd(name, HeaderOff[name][j], hits) =
            IF cpio_read_header_raw(name, HeaderOff[name][j]) = {} THEN HeaderOff[name][j]
            ELSE IF c \in hits \/ psize(Archives[name][c]) > PATH_MAX THEN HeaderOff[name][c]
            ELSE FdataEnd(name, c)
    BY Zenon DEF WalkEnd
  <2> HIDE DEF c
  <2> QED BY <1>4, <1>6, <2>1, Zenon
<1>8. k \in 1 .. n /\ k \in j .. n /\ (k \in hits \/ TooLong(name, k) \/ k = n)
  BY <1>0, <1>3
<1> HIDE DEF ends, E, c
<1> DEFINE w == WalkEnd(name, HeaderOff[name][j], hits)
           h == cpio_read_header(name, w)
<1>9. psize(Archives[name][k]) > PATH_MAX <=> TooLong(name, k)
  BY <1>0, <1>8, HeaderRead
<1>10. CASE k \in hits \/ TooLong(name, k)
  <2>1. w = HeaderOff[name][k]
    BY <1>7, <1>9, <1>10
  <2>2. /\ k \in hits /\ ~TooLong(name, k) => h = [k |-> k, pos |-> DataAt(name, k), err |-> "ok"]
        /\ k \notin hits \/ TooLong(name, k) => h.k = 0 /\ h.err = "EOVERFLOW"
    <3> HIDE DEF w
    <3> QED BY <1>0, <1>8, <1>10, <2>1, HeaderRead
  <2> HIDE DEF h
  <2> QED BY <1>0, <1>5, <1>8, <2>2 DEF h
<1>11. CASE ~(k \in hits \/ TooLong(name, k))
  <2>1. k = n /\ w = FdataEnd(name, k)
    BY <1>7, <1>8, <1>9, <1>11
  <2>2. w = HeaderOff[name][n + 1]
    BY <1>0, <1>8, <2>1, Layout
  <2>3. h.k = 0 /\ h.err = "EINVAL"
    <3> HIDE DEF w
    <3> QED BY <1>0, <2>2, HeaderAt, NoHeaderRead
  <2> HIDE DEF h
  <2> QED BY <1>0, <1>5, <1>8, <1>11, <2>3 DEF h
<1> QED BY <1>10, <1>11

-----------------------------------------------------------------------------
(* What an open finds. *)

Named(name, path) ==
    {k \in 1 .. Len(Archives[name]) :
        /\ Archives[name][k].path = path
        /\ \A m \in 1 .. k - 1 : Archives[name][m].path # path /\ ~is_endmarker(Archives[name][m])
        /\ \A m \in 1 .. k : Len(Archives[name][m].path) < PATH_MAX}

LEMMA Short ==
    ASSUME NEW name \in DOMAIN Archives, NEW k \in 1 .. Len(Archives[name])
    PROVE  Len(Archives[name][k].path) < PATH_MAX <=> ~TooLong(name, k)
<1>1. Len(Archives[name][k].path) \in Nat
  BY Layout
<1> QED BY <1>1, CpioAssumption DEF TooLong

LEMMA FindPath ==
    ASSUME NEW name \in DOMAIN Archives, NEW path
    PROVE  LET h == cpio_find_path(name, 0, path)
               N == Named(name, path)
           IN  \/ N = {} /\ h.k = 0 /\ h.err # "ok"
               \/ /\ N # {} /\ h.k = Min(N) /\ h.k \in 1 .. Len(Archives[name])
                  /\ h.err = "ok" /\ h.pos = DataAt(name, h.k)
<1> DEFINE a == Archives[name]
           hits == {k \in 1 .. Len(a) : a[k].path = path \/ is_endmarker(a[k])}
           h == cpio_read_header(name, WalkEnd(name, 0, hits))
           N == Named(name, path)
<1>0. PICK n \in Nat : n = Len(a)
  BY ArchiveTypes
<1>1. cpio_find_path(name, 0, path) =
        IF h.err # "ok" \/ a[h.k].path = path THEN h ELSE [h EXCEPT !.k = 0, !.err = "ENOENT"]
  BY Zenon DEF cpio_find_path
<1>2. \A k \in 1 .. n : Len(a[k].path) < PATH_MAX <=> ~TooLong(name, k)
  BY <1>0, Short
<1>3. CASE n = 0
  <2>1. N = {} /\ cpio_read_header_raw(name, 0) = {}
    BY <1>0, <1>3 DEF Named, cpio_read_header_raw
  <2>2. WalkEnd(name, 0, hits) = 0
    BY <2>1, Zenon DEF WalkEnd
  <2>3. h.k = 0 /\ h.err = "EINVAL"
    <3> HIDE DEF hits
    <3> QED BY <2>1, <2>2, NoHeaderRead
  <2> HIDE DEF h
  <2> QED BY <1>1, <2>1, <2>3
<1>4. CASE n # 0
  <2>1. 1 \in 1 .. Len(a) /\ HeaderOff[name][1] = 0
    BY <1>0, <1>4, ArchiveTypes
  <2>2. PICK k \in 1 .. n :
            /\ k \in hits \/ TooLong(name, k) \/ k = n
            /\ \A m \in 1 .. k - 1 : m \notin hits /\ ~TooLong(name, m)
            /\ k \in hits /\ ~TooLong(name, k) =>
                  h = [k |-> k, pos |-> DataAt(name, k), err |-> "ok"]
            /\ k \notin hits \/ TooLong(name, k) => h.k = 0 /\ h.err # "ok"
    <3> DEFINE g == cpio_read_header(name, WalkEnd(name, HeaderOff[name][1], hits))
    <3>1. \E k \in 1 .. Len(Archives[name]) :
            /\ k \in hits \/ TooLong(name, k) \/ k = Len(Archives[name])
            /\ \A m \in 1 .. k - 1 : m \notin hits /\ ~TooLong(name, m)
            /\ k \in hits /\ ~TooLong(name, k) =>
                  g = [k |-> k, pos |-> DataAt(name, k), err |-> "ok"]
            /\ k \notin hits \/ TooLong(name, k) => g.k = 0 /\ g.err # "ok"
      <4> HIDE DEF hits
      <4> QED BY <2>1, WalkStops, Zenon
    <3>2. g = h
      BY <2>1
    <3> HIDE DEF g, h, hits
    <3> QED BY <1>0, <3>1, <3>2
  <2> HIDE DEF h
  <2>3. \A m \in 1 .. k - 1 : m \in 1 .. n
    OBVIOUS
  <2>4. \A m \in 1 .. k - 1 : a[m].path # path /\ ~is_endmarker(a[m]) /\ Len(a[m].path) < PATH_MAX
    BY <1>0, <1>2, <2>2, <2>3
  <2>5. ASSUME NEW x \in N PROVE x = k /\ a[k].path = path /\ ~TooLong(name, k)
    <3>1. /\ x \in 1 .. n /\ a[x].path = path
          /\ \A m \in 1 .. x - 1 : a[m].path # path /\ ~is_endmarker(a[m])
          /\ \A m \in 1 .. x : Len(a[m].path) < PATH_MAX
      BY <1>0 DEF Named
    <3>2. ~(x < k)
      BY <2>4, <3>1
    <3>3. ASSUME k < x PROVE FALSE
      <4>1. k \in 1 .. x - 1 /\ k \in 1 .. x
        BY <3>1, <3>3
      <4>2. ~TooLong(name, k) /\ k \notin hits
        BY <1>2, <3>1, <4>1
      <4>3. k = n
        BY <2>2, <4>2
      <4> QED BY <3>1, <3>3, <4>3
    <3>4. x = k
      BY <3>1, <3>2, <3>3
    <3>5. k \in 1 .. x
      BY <3>1, <3>4
    <3> QED BY <1>2, <3>1, <3>4, <3>5
  <2>6. CASE k \in hits /\ ~TooLong(name, k) /\ a[k].path = path
    <3>1. k \in N
      <4>1. \A m \in 1 .. k : Len(a[m].path) < PATH_MAX
        BY <1>2, <2>4, <2>6
      <4> QED BY <1>0, <2>4, <2>6, <4>1 DEF Named
    <3>2. Min(N) = k
      <4>1. N \in SUBSET Nat /\ \A y \in N : k <= y
        BY <1>0, <2>5 DEF Named
      <4> HIDE DEF N
      <4> QED BY <3>1, <4>1, MinIs
    <3>3. h = [k |-> k, pos |-> DataAt(name, k), err |-> "ok"]
      BY <2>2, <2>6
    <3>4. cpio_find_path(name, 0, path) = h
      BY <1>1, <2>6, <3>3
    <3> QED BY <1>0, <3>1, <3>2, <3>3, <3>4
  <2>7. CASE ~(k \in hits /\ ~TooLong(name, k) /\ a[k].path = path)
    <3>1. N = {}
      <4>1. ASSUME NEW x \in N PROVE FALSE
        <5>1. a[k].path = path /\ ~TooLong(name, k)
          BY <2>5, <4>1
        <5> QED BY <1>0, <2>7, <5>1
      <4> HIDE DEF N
      <4> QED BY <4>1
    <3>2. CASE k \in hits /\ ~TooLong(name, k)
      <4>1. h = [k |-> k, pos |-> DataAt(name, k), err |-> "ok"] /\ a[k].path # path
        BY <2>2, <2>7, <3>2
      <4>2. cpio_find_path(name, 0, path) = [h EXCEPT !.k = 0, !.err = "ENOENT"]
        BY <1>1, <4>1
      <4> QED BY <3>1, <4>1, <4>2
    <3>3. CASE ~(k \in hits /\ ~TooLong(name, k))
      <4>1. h.k = 0 /\ h.err # "ok"
        BY <2>2, <3>3
      <4>2. cpio_find_path(name, 0, path) = h
        BY <1>1, <4>1
      <4> QED BY <3>1, <4>1, <4>2
    <3> QED BY <3>2, <3>3
  <2> QED BY <2>6, <2>7
<1> QED BY <1>3, <1>4

LEMMA SingleSeq ==
    ASSUME NEW S, NEW x \in S
    PROVE  <<x>> \in Seq(S) /\ Len(<<x>>) = 1 /\ <<x>>[1] = x
<1>1. Append(<<>>, x) = <<x>> /\ <<>> \in Seq(S)
  OBVIOUS
<1>2. Append(<<>>, x) \in Seq(S)
  BY <1>1
<1> QED BY <1>1, <1>2

\* y begins with the same character as z.
LEMMA SameFirst ==
    ASSUME NEW S, NEW y \in Seq(S), NEW z \in Seq(S), Len(y) >= 1, Len(z) >= 1, y[1] = z[1]
    PROVE  SubSeq(y, 1, 1) = SubSeq(z, 1, 1)
<1>1. y[1] \in S /\ z[1] \in S
  OBVIOUS
<1>2. SubSeq(y, 1, 1) \in Seq(S) /\ Len(SubSeq(y, 1, 1)) = 1 /\ SubSeq(y, 1, 1)[1] = y[1]
  BY <1>1
<1>3. SubSeq(z, 1, 1) \in Seq(S) /\ Len(SubSeq(z, 1, 1)) = 1 /\ SubSeq(z, 1, 1)[1] = z[1]
  BY <1>1
<1> QED BY <1>2, <1>3, SeqEqual

LEMMA JoinFirst ==
    ASSUME NEW S, NEW y \in Seq(S), NEW z \in Seq(S), Len(y) = 1
    PROVE  y \o z \in Seq(S) /\ Len(y \o z) >= 1 /\ (y \o z)[1] = y[1]
<1>1. /\ y \o z \in Seq(S) /\ Len(y \o z) = Len(y) + Len(z)
      /\ \A i \in 1 .. Len(y) + Len(z) : (y \o z)[i] = IF i <= Len(y) THEN y[i] ELSE z[i - Len(y)]
  BY ConcatProperties
<1>2. Len(z) \in Nat
  OBVIOUS
<1>3. PICK c : c = y \o z
  OBVIOUS
<1> QED BY <1>1, <1>2, <1>3

LEMMA CutFirst ==
    ASSUME NEW S, NEW y \in Seq(S), NEW m \in 1 .. Len(y)
    PROVE  /\ SubSeq(y, 1, m) \in Seq(S) /\ Len(SubSeq(y, 1, m)) >= 1
           /\ SubSeq(y, 1, m)[1] = y[1]
OBVIOUS

\* A sequence of characters that begins with a slash.
Chars == STRING \cup {"/"}
Rooted(x) == x \in Seq(Chars) /\ Len(x) >= 1 /\ x[1] = "/"

LEMMA RootRooted == Rooted(ROOTDIR) /\ Len(ROOTDIR) = 1
<1>1. "/" \in Chars
  BY DEF Chars
<1>2. ROOTDIR = <<"/">>
  BY DEF ROOTDIR
<1>3. ROOTDIR \in Seq(Chars) /\ Len(ROOTDIR) = 1 /\ ROOTDIR[1] = "/"
  BY <1>1, <1>2, SingleSeq, Zenon
<1> QED BY <1>3 DEF Rooted

LEMMA RootedPrefix == \A y : Rooted(y) => IsPrefix(ROOTDIR, y)
<1> SUFFICES ASSUME NEW y, Rooted(y) PROVE IsPrefix(ROOTDIR, y)
  OBVIOUS
<1>1. Len(ROOTDIR) = 1 /\ Len(y) >= 1
  BY RootRooted DEF Rooted
<1>3. SubSeq(ROOTDIR, 1, 1) = SubSeq(y, 1, 1)
  <2>1. ROOTDIR \in Seq(Chars) /\ y \in Seq(Chars) /\ Len(ROOTDIR) >= 1 /\ ROOTDIR[1] = y[1]
    BY RootRooted DEF Rooted
  <2>2. Len(y) >= 1
    BY <1>1
  <2> QED BY <2>1, <2>2, SameFirst, Zenon
<1>2. 1 <= Len(y)
  BY <1>1
<1> QED BY <1>1, <1>2, <1>3, Zenon DEF IsPrefix

LEMMA AbsPath ==
    ASSUME PATH_MAX >= 2, NEW arg \in Seq(STRING)
    PROVE  IsPrefix(ROOTDIR, path_join(PATH_MAX, ROOTDIR, arg))
<1>1. PICK x : Rooted(x) /\ path_join(PATH_MAX, ROOTDIR, arg) = Fit(x, PATH_MAX)
  <2> DEFINE head == IF IsAbs(arg) \/ ROOTDIR = NULL THEN <<>> ELSE ROOTDIR
             sep == IF arg # NULL /\ head # <<>> /\ Last(head) # "/" THEN <<"/">> ELSE <<>>
             tail == IF arg = NULL THEN <<>> ELSE arg
  <2>1. path_join(PATH_MAX, ROOTDIR, arg) = Fit(head \o sep \o tail, PATH_MAX)
    BY Zenon DEF path_join
  <2>2. ROOTDIR # NULL
    BY DEF ROOTDIR, NULL
  <2>3. Last(ROOTDIR) = "/"
    BY RootRooted DEF Rooted, Last
  <2>4. arg \in Seq(Chars) /\ <<>> \in Seq(Chars)
    <3>1. STRING \subseteq Chars
      BY DEF Chars
    <3> QED BY <3>1, SeqMonotonic, EmptySeq, Zenon
  <2>5. CASE IsAbs(arg)
    <3>1. head = <<>> /\ sep = <<>> /\ tail = arg
      BY <2>5, Zenon DEF IsAbs
    <3>2. Rooted(arg)
      <4>1. arg # <<>> /\ arg[1] = "/"
        BY <2>5 DEF IsAbs
      <4>2. Len(arg) >= 1
        BY <2>4, <4>1, EmptySeq
      <4> QED BY <2>4, <4>1, <4>2 DEF Rooted
    <3>3. head \o sep = <<>>
      BY <3>1
    <3>4. <<>> \o arg = arg
      BY <2>4, ConcatEmptySeq
    <3> HIDE DEF head, sep, tail
    <3> QED BY <2>1, <3>1, <3>2, <3>3, <3>4, Zenon
  <2>6. CASE ~IsAbs(arg)
    <3>1. head = ROOTDIR
      BY <2>2, <2>6, Zenon
    <3>2. sep = <<>>
      BY <2>3, <3>1, Zenon
    <3>3. tail \in Seq(Chars)
      BY <2>4, Zenon
    <3> HIDE DEF head, sep, tail
    <3>4. head \o sep = ROOTDIR
      <4>1. ROOTDIR \in Seq(Chars)
        BY RootRooted DEF Rooted
      <4>2. ROOTDIR \o <<>> = ROOTDIR
        BY <4>1, ConcatEmptySeq
      <4> QED BY <3>1, <3>2, <4>2, Zenon
    <3>5. Rooted(ROOTDIR \o tail)
      BY <3>3, RootRooted, JoinFirst, Zenon DEF Rooted
    <3> QED BY <2>1, <3>4, <3>5, Zenon
  <2> QED BY <2>5, <2>6
<1>2. Rooted(Fit(x, PATH_MAX))
  <2> DEFINE m == IF Len(x) < PATH_MAX THEN Len(x) ELSE PATH_MAX - 1
  <2>1. x \in Seq(Chars) /\ Len(x) >= 1 /\ Len(x) \in Nat
    BY <1>1 DEF Rooted
  <2>2. m \in 1 .. Len(x)
    BY <2>1, CpioAssumption
  <2>3. Fit(x, PATH_MAX) = SubSeq(x, 1, m)
    BY Zenon DEF Fit
  <2> HIDE DEF m
  <2>4. SubSeq(x, 1, m) \in Seq(Chars) /\ Len(SubSeq(x, 1, m)) >= 1 /\ SubSeq(x, 1, m)[1] = x[1]
    BY <2>1, <2>2, CutFirst, Zenon
  <2> QED BY <1>1, <2>3, <2>4, Zenon DEF Rooted
<1> QED BY <1>1, <1>2, RootedPrefix, Zenon

\* What the name is in the mounted archive.
Rel(cwd, arg) == RelPath(1, path_join(PATH_MAX, cwd, arg))
Hits(cwd, arg) == Named(ramdisks[1], Rel(cwd, arg))

LEMMA EntryOfIs ==
    ASSUME Mounted, NEW cwd, NEW arg
    PROVE  EntryOf(arg, cwd) = IF Hits(cwd, arg) = {} THEN 0 ELSE Min(Hits(cwd, arg))
<1>1. vfs_mount_list[1] = 1
  BY DEF Mounted
<1> QED BY <1>1, Zenon DEF EntryOf, Hits, Rel, Named, Disk

LEMMA MountFound ==
    ASSUME NEW abspath
    PROVE  LET sb == find_mount_for_path(superblocks, vfs_mount_list, abspath)
           IN  /\ vfs_mount_list = <<>> => sb = 0
               /\ Mounted => sb = IF IsPrefix(ROOTDIR, abspath) THEN 1 ELSE 0
<1> DEFINE hits == {k \in 1 .. Len(vfs_mount_list) :
                       IsPrefix(superblocks[vfs_mount_list[k]].mpath, abspath)}
<1>1. find_mount_for_path(superblocks, vfs_mount_list, abspath) =
        IF hits = {} THEN 0 ELSE vfs_mount_list[CHOOSE k \in hits : \A j \in hits : j <= k]
  BY Zenon DEF find_mount_for_path
<1>2. vfs_mount_list = <<>> => hits = {}
  OBVIOUS
<1>3. ASSUME Mounted PROVE hits = IF IsPrefix(ROOTDIR, abspath) THEN {1} ELSE {}
  <2>1. Len(vfs_mount_list) = 1 /\ vfs_mount_list[1] = 1 /\ superblocks[1].mpath = ROOTDIR
    BY <1>3 DEF Mounted
  <2> QED BY <2>1
<1> HIDE DEF hits
<1>4. ASSUME Mounted, IsPrefix(ROOTDIR, abspath)
      PROVE  find_mount_for_path(superblocks, vfs_mount_list, abspath) = 1
  <2>1. hits = {1} /\ vfs_mount_list[1] = 1
    BY <1>3, <1>4 DEF Mounted
  <2>2. (CHOOSE k \in hits : \A j \in hits : j <= k) = 1
    BY <2>1
  <2> QED BY <1>1, <2>1, <2>2
<1> QED BY <1>1, <1>2, <1>3, <1>4

LEMMA LookupFinds ==
    ASSUME vfs_mount_list = <<>> \/ Mounted, NEW cwd, NEW arg
    PROVE  LET h == Lookup(cwd, arg)
           IN  /\ h.err = "ok" =>
                    /\ Mounted /\ Hits(cwd, arg) # {} /\ h.k = Min(Hits(cwd, arg))
                    /\ h.k \in 1 .. Len(Disk) /\ h.pos = DataAt(ramdisks[1], h.k)
               /\ Mounted /\ IsPrefix(ROOTDIR, path_join(PATH_MAX, cwd, arg))
                    => (busy # CSlots /\ Hits(cwd, arg) # {} => h.err = "ok")
<1> DEFINE abspath == path_join(PATH_MAX, cwd, arg)
           sb == find_mount_for_path(superblocks, vfs_mount_list, abspath)
           h == Lookup(cwd, arg)
           f == cpio_find_path(ramdisks[1], 0, Rel(cwd, arg))
<1>1. h = IF sb = 0 THEN [k |-> 0, pos |-> 0, err |-> "ENOENT"]
          ELSE IF busy = CSlots THEN [k |-> 0, pos |-> 0, err |-> "ENOMEM"]
          ELSE cpio_find_path(ramdisks[superblocks[sb].disk], 0, RelPath(sb, abspath))
  BY Zenon DEF Lookup
<1>2. vfs_mount_list = <<>> => sb = 0
  BY MountFound, Zenon
<1>3. Mounted => sb = IF IsPrefix(ROOTDIR, abspath) THEN 1 ELSE 0
  BY MountFound, Zenon
<1> HIDE DEF sb, abspath
<1>4. CASE sb = 0
  <2>1. h = [k |-> 0, pos |-> 0, err |-> "ENOENT"]
    BY <1>1, <1>4, Zenon
  <2>2. h.err # "ok"
    BY <2>1
  <2>3. ~(Mounted /\ IsPrefix(ROOTDIR, path_join(PATH_MAX, cwd, arg)))
    BY <1>3, <1>4 DEF abspath
  <2> QED BY <2>2, <2>3, Zenon
<1>5. CASE sb # 0 /\ busy = CSlots
  <2>1. h = [k |-> 0, pos |-> 0, err |-> "ENOMEM"]
    BY <1>1, <1>5, Zenon
  <2>2. h.err # "ok"
    BY <2>1
  <2> QED BY <1>5, <2>2, Zenon
<1>6. CASE sb # 0 /\ busy # CSlots
  <2>1. Mounted /\ sb = 1
    BY <1>2, <1>3, <1>6
  <2>2. h = f
    BY <1>1, <1>6, <2>1 DEF Mounted, Rel, abspath
  <2>3. ramdisks[1] \in DOMAIN Archives
    BY <2>1 DEF Mounted
  <2>4. \/ Hits(cwd, arg) = {} /\ f.k = 0 /\ f.err # "ok"
        \/ /\ Hits(cwd, arg) # {} /\ f.k = Min(Hits(cwd, arg)) /\ f.k \in 1 .. Len(Disk)
           /\ f.err = "ok" /\ f.pos = DataAt(ramdisks[1], f.k)
    BY <2>3, FindPath, Zenon DEF Hits, Disk
  <2> HIDE DEF f
  <2> QED BY <2>1, <2>2, <2>4, Zenon
<1> QED BY <1>4, <1>5, <1>6

-----------------------------------------------------------------------------
(* What a read gets, and what readdir finds next. *)

LEMMA DiskFacts ==
    ASSUME Mounted, NEW k \in 1 .. Len(Disk)
    PROVE  /\ Disk[k] \in Entries /\ Disk[k].size \in Nat /\ DiskSize \in Nat
           /\ DataOff(k) = DataAt(ramdisks[1], k) /\ DataOff(k) \in Nat
           /\ DataOff(k) + Disk[k].size <= DiskSize
<1>1. PICK name \in DOMAIN Archives : name = ramdisks[1]
  BY DEF Mounted
<1>2. Disk = Archives[name] /\ DiskOff = HeaderOff[name] /\ k \in 1 .. Len(Archives[name])
  BY <1>1 DEF Disk, DiskOff
<1>3. PICK n \in Nat : n = Len(Archives[name])
  BY ArchiveTypes
<1>4. /\ Disk[k] \in Entries /\ Disk[k].size \in Nat /\ DiskOff[k + 1] \in Nat
      /\ DataAt(name, k) \in Nat /\ DataAt(name, k) + Disk[k].size <= DiskOff[k + 1]
      /\ DataAt(name, k) = DiskOff[k + 1] - UpTo4(Disk[k].size)
  BY <1>2, Layout, Zenon
<1>5. DiskSize = HeaderOff[name][n + 1] /\ DiskSize \in Nat
  <2>1. HeaderOff[name] \in [1 .. n + 1 -> Nat]
    BY <1>3, ArchiveTypes
  <2>2. DiskSize = HeaderOff[name][n + 1]
    BY <1>1, <1>3 DEF DiskSize, ArchiveSize
  <2> QED BY <2>1, <2>2
<1>6. DiskOff[k + 1] <= DiskSize
  <2>1. k + 1 \in 1 .. n + 1 /\ n + 1 \in 1 .. n + 1
    BY <1>2, <1>3
  <2>2. CASE k + 1 = n + 1
    BY <1>2, <1>5, <2>2
  <2>3. CASE k + 1 < n + 1
    <3>1. HeaderOff[name][k + 1] < HeaderOff[name][n + 1]
      BY <1>3, <2>1, <2>3, OffOrdered
    <3> QED BY <1>2, <1>4, <1>5, <3>1
  <2> QED BY <2>1, <2>2, <2>3
<1>7. DataOff(k) = DataAt(name, k)
  BY <1>4 DEF DataOff
<1> QED BY <1>1, <1>4, <1>5, <1>6, <1>7

LEMMA ReadGives ==
    ASSUME Mounted, NEW s, hdr[s] \in 1 .. Len(Disk), NEW pos \in Nat, NEW count \in Nat
    PROVE  /\ cpio_file_read(s, pos, count) = <<DataOff(hdr[s]) + pos, Given(hdr[s], pos, count)>>
           /\ DataOff(hdr[s]) + pos \in Nat /\ Given(hdr[s], pos, count) \in Nat
<1> DEFINE k == hdr[s]
<1>1. PICK z \in Nat, d \in Nat, D \in Nat : z = Disk[k].size /\ d = DataOff(k) /\ D = DiskSize
  BY DiskFacts, Zenon
<1>2. d + z <= D
  BY <1>1, DiskFacts
<1>3. foff(s) = d
  BY <1>1, DiskFacts DEF foff, DataAt, Entry, Disk, DiskOff
<1>4. Entry(s).size = z
  BY <1>1 DEF Entry
<1> HIDE DEF k
<1>5. cpio_count(s, pos, count) = IF pos + count <= z THEN count ELSE IF pos <= z THEN z - pos ELSE D
  BY <1>1, <1>4 DEF cpio_count
<1>6. \A p, c : ramdisk_read(p, c) = IF p >= D THEN 0 ELSE IF p + c > D THEN D - p ELSE c
  BY <1>1 DEF ramdisk_read
<1>7. Given(k, pos, count) =
        CASE pos <= z -> Min2(count, z - pos)
          [] pos > z /\ count > 0 /\ d + pos < D -> D - (d + pos)
          [] OTHER -> 0
  BY <1>1, Zenon DEF Given
<1>8. Given(k, pos, count) =
        IF pos <= z THEN (IF count < z - pos THEN count ELSE z - pos)
        ELSE IF count > 0 /\ d + pos < D THEN D - (d + pos) ELSE 0
  BY <1>7 DEF Min2
<1> DEFINE g == IF count = 0 THEN 0 ELSE ramdisk_read(d + pos, cpio_count(s, pos, count))
<1>9. cpio_file_read(s, pos, count) = <<d + pos, g>>
  BY <1>3 DEF cpio_file_read
<1>10. g = Given(k, pos, count) /\ Given(k, pos, count) \in Nat
  <2>1. CASE count = 0
    BY <1>8, <2>1
  <2>2. CASE count # 0 /\ pos + count <= z
    BY <1>2, <1>5, <1>6, <1>8, <2>2
  <2>3. CASE count # 0 /\ pos + count > z /\ pos <= z
    BY <1>2, <1>5, <1>6, <1>8, <2>3
  <2>4. CASE count # 0 /\ pos > z
    BY <1>2, <1>5, <1>6, <1>8, <2>4
  <2> QED BY <2>1, <2>2, <2>3, <2>4
<1> QED BY <1>1, <1>9, <1>10 DEF k

\* The listing goes on behind header j.
LEMMA ReaddirNext ==
    ASSUME Mounted, WellFormed, NEW s, hdr[s] \in 1 .. Len(Disk), Entry(s).type = "DIR",
           NEW j \in hdr[s] .. Len(Disk) - 1, af[s] = DiskOff[j + 1]
    PROVE  LET h == cpio_file_readdir(s)
           IN  \E k \in j + 1 .. Len(Disk) :
                  /\ \A m \in j + 1 .. k - 1 : ~IsPrefix(DirPath(s), Disk[m].path)
                  /\ \/ /\ k < Len(Disk) /\ IsPrefix(DirPath(s), Disk[k].path)
                        /\ h.k = k /\ h.pos = DiskOff[k + 1]
                     \/ k = Len(Disk) /\ h.k = 0 /\ h.err = "ok"
<1> DEFINE dp == DirPath(s)
           hits == {k \in 1 .. Len(Disk) : is_endmarker(Disk[k]) \/ IsPrefix(dp, Disk[k].path)}
           r == cpio_read_header(ramdisks[1], WalkEnd(ramdisks[1], DiskOff[j + 1], hits))
           h == cpio_file_readdir(s)
<1>1. PICK name \in DOMAIN Archives : name = ramdisks[1]
  BY DEF Mounted
<1>2. Disk = Archives[name] /\ DiskOff = HeaderOff[name]
  BY <1>1 DEF Disk, DiskOff
<1>3. PICK n \in Nat : n = Len(Disk)
  BY <1>2, ArchiveTypes
<1>4. j + 1 \in 1 .. n /\ j \in Nat
  BY <1>3
<1>5. cpio_skip_fdata(af[s], Entry(s)) = DiskOff[j + 1]
  <2>1. Entry(s).size = 0
    BY <1>2, Layout DEF Entry
  <2>2. DiskOff[j + 1] \in Nat
    BY <1>2, <1>3, <1>4, Layout
  <2>3. fpad(Entry(s)) = 0
    BY <2>1 DEF fpad, ALIGN_UP
  <2> QED BY <2>1, <2>2, <2>3 DEF cpio_skip_fdata
<1>6. h = ReaddirFrom(DiskOff[j + 1], dp)
  BY <1>5 DEF cpio_file_readdir
<1>7. h = IF r.err # "ok" THEN r
          ELSE [r EXCEPT !.k = IF is_endmarker(Disk[@]) THEN 0 ELSE @,
                         !.pos = FdataEnd(ramdisks[1], r.k)]
  BY <1>6, Zenon DEF ReaddirFrom
<1>8. PICK k \in j + 1 .. n :
        /\ k \in hits \/ TooLong(name, k) \/ k = n
        /\ \A m \in j + 1 .. k - 1 : m \notin hits /\ ~TooLong(name, m)
        /\ k \in hits /\ ~TooLong(name, k) =>
              r = [k |-> k, pos |-> DataAt(name, k), err |-> "ok"]
  <2> DEFINE g == cpio_read_header(name, WalkEnd(name, HeaderOff[name][j + 1], hits))
  <2>1. j + 1 \in 1 .. Len(Archives[name])
    BY <1>2, <1>3, <1>4
  <2>2. \E k \in j + 1 .. Len(Archives[name]) :
          /\ k \in hits \/ TooLong(name, k) \/ k = Len(Archives[name])
          /\ \A m \in j + 1 .. k - 1 : m \notin hits /\ ~TooLong(name, m)
          /\ k \in hits /\ ~TooLong(name, k) =>
                g = [k |-> k, pos |-> DataAt(name, k), err |-> "ok"]
    <3> HIDE DEF hits
    <3> QED BY <2>1, WalkStops, Zenon
  <2>3. g = r
    <3> HIDE DEF hits
    <3> QED BY <1>1, <1>2, Zenon
  <2> HIDE DEF g, r, hits
  <2> QED BY <1>2, <1>3, <2>2, <2>3
<1>9. k \in 1 .. n /\ \A m \in j + 1 .. k - 1 : m \in 1 .. n
  BY <1>3, <1>4
<1>10. ~TooLong(name, k)
  BY <1>2, <1>3, <1>9, Short DEF WellFormed
<1>11. is_endmarker(Disk[k]) <=> k = n
  BY <1>3, <1>9 DEF WellFormed
<1>12. k \in hits
  BY <1>3, <1>8, <1>9, <1>10, <1>11
<1>13. r = [k |-> k, pos |-> DataAt(name, k), err |-> "ok"]
  BY <1>8, <1>10, <1>12
<1>14. \A m \in j + 1 .. k - 1 : ~IsPrefix(dp, Disk[m].path)
  BY <1>3, <1>8, <1>9
<1>15. FdataEnd(ramdisks[1], k) = DiskOff[k + 1]
  BY <1>1, <1>2, <1>3, <1>9, Layout
<1>16. h.k = (IF is_endmarker(Disk[k]) THEN 0 ELSE k) /\ h.pos = DiskOff[k + 1] /\ h.err = "ok"
  <2> HIDE DEF r, h
  <2>1. r.err = "ok" /\ r.k = k
    BY <1>13
  <2>2. h = [r EXCEPT !.k = IF is_endmarker(Disk[r.k]) THEN 0 ELSE r.k,
                      !.pos = FdataEnd(ramdisks[1], r.k)]
    BY <1>7, <2>1
  <2> QED BY <1>13, <1>15, <2>1, <2>2
<1>17. CASE k = n
  <2>1. h.k = 0 /\ h.err = "ok"
    BY <1>11, <1>16, <1>17
  <2> HIDE DEF h
  <2> QED BY <1>3, <1>14, <1>17, <2>1 DEF h
<1>18. CASE k # n
  <2>1. h.k = k /\ h.pos = DiskOff[k + 1] /\ IsPrefix(dp, Disk[k].path) /\ k < n
    BY <1>9, <1>11, <1>12, <1>16, <1>18
  <2> HIDE DEF h
  <2> QED BY <1>3, <1>14, <2>1 DEF h
<1> QED BY <1>17, <1>18

-----------------------------------------------------------------------------
(* The archive stays mounted: what depends on nothing else stays the same. *)

LEMMA SameDisk ==
    ASSUME UNCHANGED vfs
    PROVE  /\ Disk' = Disk /\ DiskOff' = DiskOff /\ DiskSize' = DiskSize
           /\ Mounted' <=> Mounted
           /\ WellFormed' <=> WellFormed
           /\ \A k : DataOff(k)' = DataOff(k)
           /\ \A arg : EntryOf(arg, ROOTDIR)' = EntryOf(arg, ROOTDIR)
<1>1. ramdisks' = ramdisks /\ superblocks' = superblocks /\ vfs_mount_list' = vfs_mount_list
  BY DEF vfs
<1>2. Disk' = Disk /\ DiskOff' = DiskOff /\ DiskSize' = DiskSize
  BY <1>1, Zenon DEF Disk, DiskOff, DiskSize, ArchiveSize
<1>3. Mounted' <=> Mounted
  BY <1>1, Zenon DEF Mounted
<1>4. WellFormed' <=> WellFormed
  BY <1>1, <1>2 DEF WellFormed
<1>5. ASSUME NEW k PROVE DataOff(k)' = DataOff(k)
  BY <1>2, Zenon DEF DataOff
<1>6. ASSUME NEW arg PROVE EntryOf(arg, ROOTDIR)' = EntryOf(arg, ROOTDIR)
  <2> DEFINE path == RelPath(vfs_mount_list[1], path_join(PATH_MAX, ROOTDIR, arg))
             named == {k \in 1 .. Len(Disk) :
                         /\ Disk[k].path = path
                         /\ \A m \in 1 .. k - 1 : Disk[m].path # path /\ ~is_endmarker(Disk[m])
                         /\ \A m \in 1 .. k : Len(Disk[m].path) < PATH_MAX}
  <2>1. path' = path
    BY <1>1, Zenon DEF RelPath
  <2> HIDE DEF path
  <2>2. named' = named
    BY <1>2, <2>1, Zenon
  <2>3. EntryOf(arg, ROOTDIR) = IF named = {} THEN 0 ELSE Min(named)
    BY Zenon DEF EntryOf, path
  <2>4. EntryOf(arg, ROOTDIR)' = IF named' = {} THEN 0 ELSE Min(named')
    BY Zenon DEF EntryOf, path
  <2> HIDE DEF named
  <2> QED BY <2>2, <2>3, <2>4, Zenon
<1> QED BY <1>2, <1>3, <1>4, <1>5, <1>6

LEMMA SameGiven ==
    ASSUME UNCHANGED vfs
    PROVE  /\ \A k, pos, count : Given(k, pos, count)' = Given(k, pos, count)
           /\ \A k, j : Bad(k, j)' = Bad(k, j)
           /\ \A k : Outcome(k)' = Outcome(k)
<1>1. Disk' = Disk /\ DiskSize' = DiskSize /\ \A k : DataOff(k)' = DataOff(k)
  BY SameDisk
<1>2. ASSUME NEW k, NEW pos, NEW count PROVE Given(k, pos, count)' = Given(k, pos, count)
  <2>1. DataOff(k)' = DataOff(k)
    BY <1>1, SMTT(30)
  <2> QED BY <1>1, <2>1 DEF Given
<1>3. ASSUME NEW k, NEW j PROVE Bad(k, j)' = Bad(k, j)
  BY <1>1, <1>2 DEF Bad, PhdrOff
<1>4. ASSUME NEW k PROVE Outcome(k)' = Outcome(k)
  <2> DEFINE bad == {j \in 1 .. Len(Disk[k].elf.ph) : Bad(k, j) # "no"}
  <2>1. bad' = bad
    BY <1>1, <1>3, Zenon
  <2> QED BY <1>1, <1>3, <2>1, Zenon DEF Outcome
<1> QED BY <1>2, <1>3, <1>4

LEMMA SameDone ==
    ASSUME UNCHANGED vfs
    PROVE  /\ \A k : IsExec(k)' <=> IsExec(k)
           /\ \A k, n : Fine(k, n)' <=> Fine(k, n)
           /\ \A k, out, n : Taken(k, out, n)' <=> Taken(k, out, n)
           /\ \A k, out, pos, i : Shown(k, out, pos, i)' <=> Shown(k, out, pos, i)
           /\ \A k, out, i : Loading(k, out, i)' <=> Loading(k, out, i)
           /\ \A d, p, out : Listing(d, p, out)' <=> Listing(d, p, out)
<1>1. /\ Disk' = Disk /\ DiskOff' = DiskOff /\ \A k : DataOff(k)' = DataOff(k)
      /\ WellFormed' <=> WellFormed
  BY SameDisk
<1>2. ASSUME NEW k PROVE IsExec(k)' <=> IsExec(k)
  BY <1>1 DEF IsExec
<1>3. ASSUME NEW k, NEW n PROVE Fine(k, n)' <=> Fine(k, n)
  BY SameGiven DEF Fine
<1>4. ASSUME NEW k, NEW out, NEW n PROVE Taken(k, out, n)' <=> Taken(k, out, n)
  <2>1. DataOff(k)' = DataOff(k)
    BY <1>1
  <2> QED BY <1>1, <2>1 DEF Taken
<1>5. ASSUME NEW k, NEW out, NEW pos, NEW i PROVE Shown(k, out, pos, i)' <=> Shown(k, out, pos, i)
  <2>1. ASSUME NEW r PROVE Row(k, r)' = Row(k, r)
    BY <1>1 DEF Row
  <2> QED BY <1>1, <2>1, Zenon DEF Shown
<1>6. ASSUME NEW k, NEW out, NEW i PROVE Loading(k, out, i)' <=> Loading(k, out, i)
  <2>1. (IsExec(k)' <=> IsExec(k)) /\ (Fine(k, i - 1)' <=> Fine(k, i - 1))
        /\ (Taken(k, out, i - 1)' <=> Taken(k, out, i - 1))
    BY <1>2, <1>3, <1>4, Zenon
  <2> QED BY <1>1, <2>1, Zenon DEF Loading
<1>7. ASSUME NEW d, NEW p, NEW out PROVE Listing(d, p, out)' <=> Listing(d, p, out)
  <2>1. ASSUME NEW j PROVE Listed(d, p, out, j)' <=> Listed(d, p, out, j)
    <3>1. Prefix(d)' = Prefix(d)
      BY <1>1 DEF Prefix
    <3>2. Below(d, j)' = Below(d, j)
      BY <1>1, <3>1, Zenon DEF Below
    <3> QED BY <1>1, <3>2, Zenon DEF Listed
  <2> QED BY <1>1, <2>1, Zenon DEF Listing
<1> QED BY <1>2, <1>3, <1>4, <1>5, <1>6, <1>7

-----------------------------------------------------------------------------
(* ls *)

LEMMA ListingBegins ==
    ASSUME Mounted, NEW d \in 1 .. Len(Disk)
    PROVE  Listing(d, DataAt(ramdisks[1], d), <<>>)
<1> SUFFICES ASSUME WellFormed, Disk[d].type = "DIR"
             PROVE  <<>> \in Seq(Nat) /\ \E j \in Nat : Listed(d, DataAt(ramdisks[1], d), <<>>, j)
  BY DEF Listing
<1>1. ramdisks[1] \in DOMAIN Archives /\ Disk = Archives[ramdisks[1]] /\ DiskOff = HeaderOff[ramdisks[1]]
  BY DEF Mounted, Disk, DiskOff
<1>2. PICK n \in Nat : n = Len(Disk)
  BY <1>1, ArchiveTypes
<1>3. d # n
  BY <1>2 DEF WellFormed
<1>4. d \in d .. Len(Disk) - 1 /\ d \in Nat
  BY <1>2, <1>3
<1>5. DataAt(ramdisks[1], d) = DiskOff[d + 1]
  <2>1. /\ DataAt(ramdisks[1], d) = DiskOff[d + 1] - UpTo4(Disk[d].size)
        /\ DiskOff[d + 1] \in Nat /\ Disk[d].size = 0
    BY <1>1, Layout
  <2>2. UpTo4(0) = 0
    BY DEF UpTo4
  <2> QED BY <2>1, <2>2
<1>6. Below(d, d) = {}
  BY <1>4 DEF Below
<1>7. Ascends(<<>>, {})
  BY DEF Ascends
<1>8. Listed(d, DataAt(ramdisks[1], d), <<>>, d)
  BY <1>4, <1>5, <1>6, <1>7 DEF Listed
<1> QED BY <1>4, <1>8

\* One more number, above all those before it.
LEMMA AscendsMore ==
    ASSUME NEW s \in Seq(Nat), NEW S \in SUBSET Nat, Ascends(s, S),
           NEW x \in Nat, \A y \in S : y < x
    PROVE  Append(s, x) \in Seq(Nat) /\ Ascends(Append(s, x), S \cup {x})
<1>1. PICK n \in Nat : n = Len(s)
  OBVIOUS
<1>2. PICK a \in Seq(Nat) : a = Append(s, x)
  <2>1. Append(s, x) \in Seq(Nat)
    BY AppendProperties, Zenon
  <2> QED BY <2>1, Zenon
<1>3. Len(a) = n + 1 /\ a[n + 1] = x /\ \A i \in 1 .. n : a[i] = s[i]
  BY <1>1, <1>2
<1>4. /\ \A i \in 1 .. n : s[i] \in S
      /\ \A k \in S : \E i \in 1 .. n : s[i] = k
      /\ \A i, j \in 1 .. n : i < j => s[i] < s[j]
  BY <1>1 DEF Ascends
<1>5. \A i \in 1 .. n + 1 : i \in 1 .. n \/ i = n + 1
  OBVIOUS
<1>6. \A i \in 1 .. n + 1 : a[i] \in S \cup {x}
  BY <1>3, <1>4, <1>5
<1>7. ASSUME NEW k \in S \cup {x} PROVE \E i \in 1 .. n + 1 : a[i] = k
  <2>1. CASE k = x
    BY <1>3, <2>1
  <2>2. CASE k \in S
    <3>1. PICK i \in 1 .. n : s[i] = k
      BY <1>4, <2>2
    <3> QED BY <1>3, <3>1
  <2> QED BY <2>1, <2>2
<1>8. ASSUME NEW i \in 1 .. n + 1, NEW j \in 1 .. n + 1, i < j PROVE a[i] < a[j]
  <2>1. i \in 1 .. n
    BY <1>8
  <2>2. CASE j = n + 1
    BY <1>3, <1>4, <2>1, <2>2
  <2>3. CASE j \in 1 .. n
    BY <1>3, <1>4, <1>8, <2>1, <2>3
  <2> QED BY <1>5, <2>2, <2>3
<1> QED BY <1>2, <1>3, <1>6, <1>7, <1>8 DEF Ascends

LEMMA ListingNext ==
    ASSUME Mounted, NEW s, NEW d \in 1 .. Len(Disk), hdr[s] = d, NEW out, Listing(d, af[s], out)
    PROVE  LET h == cpio_file_readdir(s)
           IN  /\ h.k # 0 => Listing(d, h.pos, Append(out, h.k))
               /\ h.k = 0 /\ WellFormed =>
                    IF Disk[d].type = "DIR" THEN h.err = "ok" /\ Ascends(out, Below(d, Len(Disk) - 1))
                    ELSE h.err # "ok"
<1> DEFINE h == cpio_file_readdir(s)
<1>1. Entry(s) = Disk[d]
  BY DEF Entry
<1>2. CASE Disk[d].type # "DIR"
  <2>1. h = [k |-> 0, pos |-> af[s], err |-> "ENOTDIR"]
    BY <1>1, <1>2, Zenon DEF cpio_file_readdir
  <2>2. h.k = 0 /\ h.err # "ok"
    BY <2>1
  <2> QED BY <1>2, <2>2
<1>3. CASE ~WellFormed
  BY <1>3 DEF Listing
<1>4. CASE WellFormed /\ Disk[d].type = "DIR"
  <2>1. out \in Seq(Nat)
    BY <1>4 DEF Listing
  <2>2. PICK j \in Nat : Listed(d, af[s], out, j)
    BY <1>4 DEF Listing
  <2>3. DirPath(s) = Prefix(d)
    BY <1>1 DEF DirPath, Prefix
  <2>4. PICK k \in j + 1 .. Len(Disk) :
            /\ \A m \in j + 1 .. k - 1 : ~IsPrefix(Prefix(d), Disk[m].path)
            /\ \/ /\ k < Len(Disk) /\ IsPrefix(Prefix(d), Disk[k].path)
                  /\ h.k = k /\ h.pos = DiskOff[k + 1]
               \/ k = Len(Disk) /\ h.k = 0 /\ h.err = "ok"
    <3>1. j \in hdr[s] .. Len(Disk) - 1 /\ af[s] = DiskOff[j + 1] /\ hdr[s] \in 1 .. Len(Disk)
      BY <2>2 DEF Listed
    <3> QED BY <1>1, <1>4, <2>3, <3>1, ReaddirNext
  <2>5. PICK n \in Nat : n = Len(Disk)
    BY ArchiveTypes DEF Mounted, Disk
  <2>6. j \in d .. n - 1 /\ Ascends(out, Below(d, j)) /\ k \in Nat /\ k <= n /\ k > j /\ d \in Nat
    BY <2>2, <2>4, <2>5 DEF Listed
  <2> HIDE DEF h
  <2>7. CASE k < n /\ h.k = k
    <3>1. h.pos = DiskOff[k + 1] /\ IsPrefix(Prefix(d), Disk[k].path)
      BY <2>4, <2>5, <2>6, <2>7
    <3>2. Below(d, k) = Below(d, j) \cup {k}
      <4>1. ASSUME NEW m PROVE m \in Below(d, k) <=> m \in Below(d, j) \cup {k}
        <5>1. CASE m \in j + 1 .. k - 1
          BY <2>4, <2>6, <5>1 DEF Below
        <5>2. CASE m \notin j + 1 .. k - 1
          <6>1. m \in d + 1 .. k <=> m \in d + 1 .. j \/ m = k
            BY <2>6, <5>2
          <6> QED BY <3>1, <6>1, Zenon DEF Below
        <5> QED BY <5>1, <5>2
      <4> QED BY <4>1
    <3>3. Below(d, j) \in SUBSET Nat /\ \A y \in Below(d, j) : y < k
      BY <2>6 DEF Below
    <3>4. Append(out, k) \in Seq(Nat) /\ Ascends(Append(out, k), Below(d, k))
      BY <2>1, <2>6, <3>2, <3>3, AscendsMore
    <3>5. Listed(d, h.pos, Append(out, h.k), k)
      BY <2>5, <2>6, <2>7, <3>1, <3>4 DEF Listed
    <3> QED BY <2>6, <2>7, <3>4, <3>5 DEF Listing, h
  <2>8. CASE k = n /\ h.k = 0
    <3>1. Below(d, n - 1) = Below(d, j)
      <4>1. ASSUME NEW m PROVE m \in Below(d, n - 1) <=> m \in Below(d, j)
        <5>1. CASE m \in j + 1 .. k - 1
          BY <2>4, <2>6, <2>8, <5>1 DEF Below
        <5>2. CASE m \notin j + 1 .. k - 1
          <6>1. m \in d + 1 .. n - 1 <=> m \in d + 1 .. j
            BY <2>6, <2>8, <5>2
          <6> QED BY <6>1, Zenon DEF Below
        <5> QED BY <5>1, <5>2
      <4> QED BY <4>1
    <3>2. h.err = "ok"
      BY <2>4, <2>5, <2>6, <2>8
    <3> QED BY <1>4, <2>5, <2>6, <2>8, <3>1, <3>2 DEF h
  <2>9. \/ k < n /\ h.k = k
        \/ k = n /\ h.k = 0
    BY <2>4, <2>5, Zenon
  <2> QED BY <2>7, <2>8, <2>9
<1> QED BY <1>2, <1>3, <1>4

-----------------------------------------------------------------------------
(* xhead *)

\* A function on the first n + 1 numbers is its first n values and one more.
LEMMA FunAppend ==
    ASSUME NEW S, NEW n \in Nat, NEW f \in [1 .. n + 1 -> S]
    PROVE  /\ [j \in 1 .. n |-> f[j]] \in Seq(S) /\ Len([j \in 1 .. n |-> f[j]]) = n
           /\ Append([j \in 1 .. n |-> f[j]], f[n + 1]) = f
<1>1. PICK g : g = [j \in 1 .. n |-> f[j]]
  OBVIOUS
<1>2. g \in [1 .. n -> S] /\ f[n + 1] \in S
  BY <1>1
<1>3. g \in Seq(S) /\ Len(g) = n
  BY <1>2
<1>4. f \in Seq(S) /\ Len(f) = n + 1
  OBVIOUS
<1>5. PICK a : a = Append(g, f[n + 1])
  OBVIOUS
<1>6. a \in Seq(S) /\ Len(a) = n + 1 /\ a[n + 1] = f[n + 1] /\ \A j \in 1 .. n : a[j] = g[j]
  BY <1>2, <1>3, <1>5, AppendProperties
<1>7. ASSUME NEW j \in 1 .. n + 1 PROVE a[j] = f[j]
  <2>1. CASE j = n + 1
    BY <1>6, <2>1
  <2>2. CASE j # n + 1
    <3>1. j \in 1 .. n
      BY <2>2
    <3> QED BY <1>1, <1>6, <3>1
  <2> QED BY <2>1, <2>2
<1>8. a = f
  BY <1>4, <1>6, <1>7, SeqEqual
<1> QED BY <1>1, <1>3, <1>5, <1>8

LEMMA ShownBegins ==
    ASSUME Mounted, NEW k \in 1 .. Len(Disk)
    PROVE  Shown(k, <<>>, 0, 0)
<1>1. Disk[k].size \in Nat
  BY DiskFacts
<1>2. <<>> = [r \in 1 .. 0 |-> Row(k, r)]
  OBVIOUS
<1>3. 0 = Min2(Disk[k].size, 0 * ROWBYTES) /\ 0 \in 0 .. ROWS
  BY <1>1 DEF Min2, ROWBYTES, ROWS
<1> QED BY <1>2, <1>3 DEF Shown

\* All that xhead is to show of entry k.
Shows(k) ==
    LET shown == Min2(Disk[k].size, ROWS * ROWBYTES)
    IN  [r \in 1 .. (shown + ROWBYTES - 1) \div ROWBYTES |->
            <<DataOff(k) + (r - 1) * ROWBYTES, Min2(ROWBYTES, shown - (r - 1) * ROWBYTES)>>]

LEMMA ShownNext ==
    ASSUME Mounted, NEW s, NEW k \in 1 .. Len(Disk), hdr[s] = k,
           NEW out, NEW pos, NEW i, Shown(k, out, pos, i)
    PROVE  LET r == cpio_file_read(s, pos, ROWBYTES)
           IN  /\ i < ROWS /\ r[2] > 0 => Shown(k, Append(out, r), pos + r[2], i + 1)
               /\ i = ROWS \/ r[2] = 0 => out = Shows(k)
<1>1. PICK z \in Nat, d \in Nat : z = Disk[k].size /\ d = DataOff(k)
  BY DiskFacts
<1>2. /\ i \in 0 .. 10 /\ (i > 0 => (i - 1) * 16 < z) /\ pos = Min2(z, i * 16)
      /\ out = [r \in 1 .. i |-> Row(k, r)]
  BY <1>1 DEF Shown, ROWS, ROWBYTES
<1>3. /\ pos \in Nat /\ pos <= z /\ i \in Nat
      /\ pos = i * 16 \/ (pos = z /\ z < i * 16)
  <2>1. i \in 0 .. 10 /\ pos = Min2(z, i * 16)
    BY <1>2
  <2> QED BY <2>1 DEF Min2
<1>4. \A r : Row(k, r) = <<d + (r - 1) * 16, Min2(16, z - (r - 1) * 16)>>
  BY <1>1 DEF Row, ROWBYTES
<1>5. PICK g \in Nat : g = Min2(16, z - pos)
  <2>1. pos \in Nat /\ pos <= z
    BY <1>3
  <2>2. Min2(16, z - pos) \in Nat
    BY <2>1 DEF Min2
  <2> QED BY <2>2
<1>6. cpio_file_read(s, pos, ROWBYTES) = <<d + pos, g>>
  <2>1. Given(k, pos, 16) = Min2(16, z - pos)
    <3>1. pos \in Nat /\ pos <= z
      BY <1>3
    <3>2. Given(k, pos, 16) =
            CASE pos <= z -> Min2(16, z - pos)
              [] pos > z /\ 16 > 0 /\ d + pos < DiskSize -> DiskSize - (d + pos)
              [] OTHER -> 0
      BY <1>1, Zenon DEF Given
    <3> QED BY <3>1, <3>2
  <2>2. 16 \in Nat /\ ROWBYTES = 16 /\ pos \in Nat
    BY <1>3 DEF ROWBYTES
  <2>3. cpio_file_read(s, pos, 16) = <<DataOff(k) + pos, Given(k, pos, 16)>>
    BY <2>2, ReadGives
  <2> QED BY <1>1, <1>5, <2>1, <2>2, <2>3
<1>7. ASSUME i < 10, g > 0 PROVE Shown(k, Append(out, <<d + pos, g>>), pos + g, i + 1)
  <2>1. pos = i * 16 /\ i * 16 < z
    BY <1>3, <1>5, <1>7 DEF Min2
  <2>2. <<d + pos, g>> = Row(k, i + 1)
    <3>1. (i + 1) - 1 = i
      BY <1>2
    <3> QED BY <1>4, <1>5, <2>1, <3>1
  <2>3. pos + g = Min2(z, (i + 1) * 16)
    BY <1>2, <1>5, <2>1 DEF Min2
  <2>4. PICK f \in [1 .. i + 1 -> Nat \X Nat] : f = [r \in 1 .. i + 1 |-> Row(k, r)]
    <3>1. ASSUME NEW r \in 1 .. i + 1 PROVE Row(k, r) \in Nat \X Nat
      <4>1. (r - 1) * 16 \in Nat /\ (r - 1) * 16 <= i * 16
        BY <1>2
      <4>2. z - (r - 1) * 16 \in Nat
        BY <1>2, <2>1, <4>1
      <4>3. Min2(16, z - (r - 1) * 16) \in Nat /\ d + (r - 1) * 16 \in Nat
        BY <4>1, <4>2 DEF Min2
      <4> QED BY <1>4, <4>3
    <3> QED BY <3>1
  <2>5. Append([r \in 1 .. i |-> f[r]], f[i + 1]) = f
    BY <1>3, FunAppend, Zenon
  <2>6. out = [r \in 1 .. i |-> f[r]] /\ f[i + 1] = Row(k, i + 1)
    BY <1>2, <2>4
  <2>7. Append(out, <<d + pos, g>>) = [r \in 1 .. i + 1 |-> Row(k, r)]
    BY <2>2, <2>4, <2>5, <2>6
  <2>8. i + 1 \in 0 .. 10 /\ ((i + 1) - 1) * 16 < z
    BY <1>2, <1>7, <2>1
  <2> QED BY <1>1, <2>3, <2>7, <2>8 DEF Shown, ROWS, ROWBYTES
<1>8. ASSUME i = 10 \/ g = 0 PROVE out = Shows(k)
  <2>1. i = 10 \/ (z <= i * 16 /\ i \in 0 .. 10)
    BY <1>2, <1>3, <1>5, <1>8 DEF Min2
  <2>2. PICK w \in Nat : w = Min2(z, 160)
    BY DEF Min2
  <2>3. (w + 16 - 1) \div 16 = i
    BY <1>2, <2>1, <2>2 DEF Min2
  <2>4. Shows(k) = [r \in 1 .. (w + 16 - 1) \div 16 |->
                        <<d + (r - 1) * 16, Min2(16, w - (r - 1) * 16)>>]
    <3>1. ROWS * ROWBYTES = 160 /\ ROWBYTES = 16
      BY DEF ROWS, ROWBYTES
    <3> QED BY <1>1, <2>2, <3>1, Zenon DEF Shows
  <2>5. ASSUME NEW r \in 1 .. i
        PROVE  Row(k, r) = <<d + (r - 1) * 16, Min2(16, w - (r - 1) * 16)>>
    <3>1. Min2(16, z - (r - 1) * 16) = Min2(16, w - (r - 1) * 16)
      BY <1>2, <2>2 DEF Min2
    <3> QED BY <1>4, <3>1
  <2> QED BY <1>2, <2>3, <2>4, <2>5
<1> QED BY <1>6, <1>7, <1>8 DEF ROWS

-----------------------------------------------------------------------------
(* Loading a program *)

LEMMA SegTypes ==
    ASSUME Mounted, NEW k \in 1 .. Len(Disk)
    PROVE  /\ Disk[k].elf.phoff \in Nat /\ Len(Disk[k].elf.ph) \in Nat
           /\ \A j \in 1 .. Len(Disk[k].elf.ph) :
                 /\ Disk[k].elf.ph[j].off \in Nat /\ Disk[k].elf.ph[j].filesz \in Nat
                 /\ Disk[k].elf.ph[j].load \in BOOLEAN
<1>1. Disk[k].elf \in [ident : STRING, phoff : Nat, ph : Seq(Segments)]
  BY DiskFacts DEF Entries
<1>2. PICK e \in [ident : STRING, phoff : Nat, ph : Seq(Segments)] : e = Disk[k].elf
  BY <1>1
<1>3. e.phoff \in Nat /\ e.ph \in Seq(Segments)
  BY <1>2
<1>4. Len(e.ph) \in Nat /\ \A j \in 1 .. Len(e.ph) : e.ph[j] \in Segments
  BY <1>3, LenProperties, ElementOfSeq
<1>5. \A g \in Segments : g.off \in Nat /\ g.filesz \in Nat /\ g.load \in BOOLEAN
  BY DEF Segments
<1>6. \A j \in 1 .. Len(e.ph) : e.ph[j].off \in Nat /\ e.ph[j].filesz \in Nat /\ e.ph[j].load \in BOOLEAN
  BY <1>4, <1>5, Zenon
<1> QED BY <1>2, <1>3, <1>4, <1>6, Zenon

\* The program headers up to n whose segments are loaded.
Loads(k, n) == {j \in 1 .. n : Disk[k].elf.ph[j].load}
From(k, out, f) ==
    \A m \in 1 .. Len(out) :
        out[m] = <<DataOff(k) + Disk[k].elf.ph[f[m]].off, Disk[k].elf.ph[f[m]].filesz>>

LEMMA TakenIs ==
    ASSUME NEW k, NEW out, NEW n
    PROVE  Taken(k, out, n) <=>
             /\ out \in Seq(Nat \X Nat)
             /\ \E f \in [1 .. Len(out) -> 1 .. Len(Disk[k].elf.ph)] :
                    Ascends(f, Loads(k, n)) /\ From(k, out, f)
BY Zenon DEF Taken, Loads, From

LEMMA LoadingBegins ==
    ASSUME Mounted, NEW k \in 1 .. Len(Disk)
    PROVE  Loading(k, <<>>, 0)
<1>1. Len(Disk[k].elf.ph) \in Nat
  BY SegTypes
<1>2. Fine(k, 0 - 1)
  BY DEF Fine
<1>3. <<>> \in [1 .. Len(<<>>) -> 1 .. Len(Disk[k].elf.ph)] /\ Ascends(<<>>, {})
  BY DEF Ascends
<1>4. Loads(k, 0 - 1) = {} /\ <<>> \in Seq(Nat \X Nat) /\ From(k, <<>>, <<>>)
  BY DEF Loads, From
<1>5. Taken(k, <<>>, 0 - 1)
  BY <1>3, <1>4, TakenIs, Zenon
<1> QED BY <1>1, <1>2, <1>5 DEF Loading

LEMMA TakenMore ==
    ASSUME Mounted, NEW k \in 1 .. Len(Disk), NEW i \in 1 .. Len(Disk[k].elf.ph), NEW out,
           Taken(k, out, i - 1)
    PROVE  LET ph == Disk[k].elf.ph[i]
           IN  /\ ph.load => Taken(k, Append(out, <<DataOff(k) + ph.off, ph.filesz>>), i)
               /\ ~ph.load => Taken(k, out, i)
<1> DEFINE ph == Disk[k].elf.ph[i]
           x == <<DataOff(k) + ph.off, ph.filesz>>
           L == Len(Disk[k].elf.ph)
<1>1. out \in Seq(Nat \X Nat)
  BY TakenIs
<1>2. PICK f \in [1 .. Len(out) -> 1 .. L] : Ascends(f, Loads(k, i - 1)) /\ From(k, out, f)
  BY TakenIs
<1>a. L \in Nat /\ ph.off \in Nat /\ ph.filesz \in Nat
  BY SegTypes, Zenon
<1>b. DataOff(k) \in Nat
  BY DiskFacts, Zenon
<1>c. i \in Nat
  BY <1>a
<1>3. L \in Nat /\ i \in Nat /\ DataOff(k) \in Nat /\ ph.off \in Nat /\ ph.filesz \in Nat
  BY <1>a, <1>b, <1>c, Zenon
<1>4. ASSUME ~ph.load PROVE Taken(k, out, i)
  <2>1. Loads(k, i) = Loads(k, i - 1)
    <3>1. \A j : j \in 1 .. i <=> j \in 1 .. i - 1 \/ j = i
      BY <1>3
    <3> QED BY <1>4, <3>1, Zenon DEF Loads
  <2> QED BY <1>1, <1>2, <2>1, TakenIs, Zenon
<1>5. ASSUME ph.load PROVE Taken(k, Append(out, x), i)
  <2>1. Loads(k, i) = Loads(k, i - 1) \cup {i}
    <3>1. \A j : j \in 1 .. i <=> j \in 1 .. i - 1 \/ j = i
      BY <1>3
    <3>2. \A j : j \in Loads(k, i) <=> j \in Loads(k, i - 1) \/ j = i
      BY <1>5, <3>1, Zenon DEF Loads
    <3> QED BY <3>2
  <2>2. x \in Nat \X Nat
    <3>1. PICK u \in Nat, v \in Nat, w \in Nat : u = DataOff(k) /\ v = ph.off /\ w = ph.filesz
      BY <1>3, Zenon
    <3>2. <<u + v, w>> \in Nat \X Nat
      OBVIOUS
    <3> QED BY <3>1, <3>2, Zenon
  <2> HIDE DEF x
  <2>3. PICK n \in Nat : n = Len(out)
    BY <1>1, LenProperties
  <2>4. PICK b : b = Append(out, x)
    OBVIOUS
  <2>5. /\ b \in Seq(Nat \X Nat) /\ Len(b) = n + 1 /\ b[n + 1] = x
        /\ \A m \in 1 .. n : b[m] = out[m]
    BY <1>1, <2>2, <2>3, <2>4, AppendProperties
  <2>6. f \in [1 .. n -> 1 .. L] /\ f \in [1 .. n -> Nat]
    BY <1>2, <1>3, <2>3
  <2>7. f \in Seq(Nat) /\ Len(f) = n
    BY <2>6
  <2>8. PICK g : g = Append(f, i)
    OBVIOUS
  <2>9. /\ g \in Seq(Nat) /\ Len(g) = n + 1 /\ g[n + 1] = i /\ \A m \in 1 .. n : g[m] = f[m]
    <3>1. PICK c \in Seq(Nat), y \in Nat : c = f /\ y = i
      BY <1>3, <2>7, Zenon
    <3>2. /\ Append(c, y) \in Seq(Nat) /\ Len(Append(c, y)) = Len(c) + 1
          /\ Append(c, y)[Len(c) + 1] = y /\ \A m \in 1 .. Len(c) : Append(c, y)[m] = c[m]
      BY AppendProperties
    <3> QED BY <2>7, <2>8, <3>1, <3>2, Zenon
  <2>10. Ascends(g, Loads(k, i))
    <3>1. Loads(k, i - 1) \in SUBSET Nat /\ \A y \in Loads(k, i - 1) : y < i
      BY <1>3 DEF Loads
    <3> QED BY <1>2, <1>3, <2>1, <2>7, <2>8, <3>1, AscendsMore
  <2>11. g \in [1 .. Len(b) -> 1 .. L]
    <3>1. DOMAIN g = 1 .. n + 1 /\ g \in [1 .. n + 1 -> Nat]
      BY <2>9
    <3>2. ASSUME NEW m \in 1 .. n + 1 PROVE g[m] \in 1 .. L
      <4>1. m = n + 1 \/ m \in 1 .. n
        OBVIOUS
      <4>2. i \in 1 .. L
        OBVIOUS
      <4> QED BY <2>6, <2>9, <4>1, <4>2
    <3> QED BY <2>5, <3>1, <3>2
  <2>12. From(k, b, g)
    <3>1. ASSUME NEW m \in 1 .. n + 1
          PROVE  b[m] = <<DataOff(k) + Disk[k].elf.ph[g[m]].off, Disk[k].elf.ph[g[m]].filesz>>
      <4>1. CASE m = n + 1
        BY <2>5, <2>9, <4>1, Zenon DEF x
      <4>2. CASE m # n + 1
        <5>1. m \in 1 .. n
          BY <4>2
        <5>2. b[m] = out[m] /\ g[m] = f[m] /\ m \in 1 .. Len(out)
          BY <2>3, <2>5, <2>9, <5>1
        <5> QED BY <1>2, <5>2, Zenon DEF From
      <4> QED BY <4>1, <4>2
    <3> QED BY <2>5, <3>1, Zenon DEF From
  <2> QED BY <2>4, <2>5, <2>10, <2>11, <2>12, TakenIs, Zenon
<1> QED BY <1>4, <1>5, Zenon

\* The first bad header decides.
LEMMA OutcomeAt ==
    ASSUME Mounted, NEW k \in 1 .. Len(Disk), IsExec(k), NEW i \in 1 .. Len(Disk[k].elf.ph),
           Fine(k, i - 1), Bad(k, i) # "no"
    PROVE  Outcome(k) = Bad(k, i)
<1> DEFINE bad == {j \in 1 .. Len(Disk[k].elf.ph) : Bad(k, j) # "no"}
<1>1. Len(Disk[k].elf.ph) \in Nat /\ i \in Nat
  BY SegTypes
<1>2. bad \in SUBSET Nat /\ i \in bad
  BY <1>1
<1>3. ASSUME NEW y \in bad PROVE i <= y
  <2>1. y \in Nat /\ y >= 1
    BY <1>1
  <2>2. y \notin 1 .. i - 1
    BY DEF Fine
  <2> QED BY <1>1, <2>1, <2>2
<1>4. Min(bad) = i
  <2> HIDE DEF bad
  <2> QED BY <1>2, <1>3, MinIs
<1>5. ~(Disk[k].size < EHDR) /\ Disk[k].elf.ident = "exec32"
  BY DiskFacts DEF IsExec, EHDR
<1>6. Outcome(k) = IF bad = {} THEN "no" ELSE Bad(k, Min(bad))
  BY <1>5, Zenon DEF Outcome
<1> HIDE DEF bad
<1> QED BY <1>2, <1>4, <1>6, Zenon

LEMMA OutcomeNone ==
    ASSUME Mounted, NEW k \in 1 .. Len(Disk), IsExec(k), Fine(k, Len(Disk[k].elf.ph))
    PROVE  Outcome(k) = "no"
<1> DEFINE bad == {j \in 1 .. Len(Disk[k].elf.ph) : Bad(k, j) # "no"}
<1>1. bad = {}
  BY Zenon DEF Fine
<1>2. ~(Disk[k].size < EHDR) /\ Disk[k].elf.ident = "exec32"
  BY DiskFacts DEF IsExec, EHDR
<1>3. Outcome(k) = IF bad = {} THEN "no" ELSE Bad(k, Min(bad))
  BY <1>2, Zenon DEF Outcome
<1> HIDE DEF bad
<1> QED BY <1>1, <1>3, Zenon

LEMMA HeaderNext ==
    ASSUME Mounted, NEW s, NEW k \in 1 .. Len(Disk), hdr[s] = k, NEW out, Loading(k, out, 0)
    PROVE  LET r == cpio_file_read(s, 0, EHDR)
           IN  /\ r[2] < EHDR => Outcome(k) = "garbage"
               /\ r[2] = EHDR /\ Disk[k].elf.ident # "exec32" => Outcome(k) = "undefined"
               /\ r[2] = EHDR /\ Disk[k].elf.ident = "exec32" => Loading(k, out, 1)
<1>1. PICK z \in Nat, d \in Nat : z = Disk[k].size /\ d = DataOff(k)
  BY DiskFacts
<1>2. EHDR = 52
  BY DEF EHDR
<1>3. Given(k, 0, 52) = Min2(52, z)
  <2>1. Given(k, 0, 52) =
          CASE 0 <= z -> Min2(52, z - 0)
            [] 0 > z /\ 52 > 0 /\ d + 0 < DiskSize -> DiskSize - (d + 0)
            [] OTHER -> 0
    BY <1>1, Zenon DEF Given
  <2>2. z - 0 = z /\ 0 <= z
    OBVIOUS
  <2>3. Given(k, 0, 52) = Min2(52, z - 0)
    BY <2>1, <2>2
  <2> QED BY <2>2, <2>3, Zenon
<1>4. cpio_file_read(s, 0, EHDR)[2] = Min2(52, z)
  <2>1. cpio_file_read(s, 0, 52) = <<DataOff(k) + 0, Given(k, 0, 52)>>
    BY ReadGives
  <2>2. cpio_file_read(s, 0, 52)[2] = Given(k, 0, 52)
    BY <2>1
  <2> QED BY <1>2, <1>3, <2>2, Zenon
<1>5. Min2(52, z) < 52 <=> z < 52
  BY DEF Min2
<1>6. Min2(52, z) = 52 <=> z >= 52
  BY DEF Min2
<1>7. ASSUME z < 52 PROVE Outcome(k) = "garbage"
  BY <1>1, <1>2, <1>7, Zenon DEF Outcome
<1>8. ASSUME z >= 52, Disk[k].elf.ident # "exec32" PROVE Outcome(k) = "undefined"
  <2>1. ~(Disk[k].size < EHDR)
    BY <1>1, <1>2, <1>8
  <2> QED BY <1>8, <2>1, Zenon DEF Outcome
<1>9. ASSUME z >= 52, Disk[k].elf.ident = "exec32" PROVE Loading(k, out, 1)
  <2>1. IsExec(k)
    BY <1>1, <1>2, <1>9 DEF IsExec
  <2>2. Len(Disk[k].elf.ph) \in Nat /\ 1 - 1 = 0
    BY SegTypes
  <2>3. 1 \in 0 .. Len(Disk[k].elf.ph) + 1
    BY <2>2
  <2>4. Fine(k, 1 - 1)
    BY <2>2 DEF Fine
  <2>5. Taken(k, out, 1 - 1)
    <3>1. Taken(k, out, 0 - 1)
      BY DEF Loading
    <3>2. Loads(k, 0 - 1) = {} /\ Loads(k, 1 - 1) = {}
      BY SMTT(30) DEF Loads
    <3> QED BY <3>1, <3>2, TakenIs, Zenon
  <2> QED BY <2>1, <2>3, <2>4, <2>5 DEF Loading
<1> QED BY <1>2, <1>4, <1>5, <1>6, <1>7, <1>8, <1>9

LEMMA SegmentNext ==
    ASSUME Mounted, NEW s, NEW k \in 1 .. Len(Disk), hdr[s] = k, NEW out,
           NEW i \in 1 .. Len(Disk[k].elf.ph), Loading(k, out, i)
    PROVE  LET ph == Disk[k].elf.ph[i]
               r  == cpio_file_read(s, Disk[k].elf.phoff + (i - 1) * PHDR, PHDR)
               g  == cpio_file_read(s, ph.off, ph.filesz)
           IN  /\ r[2] > PHDR => Outcome(k) = "overrun"
               /\ r[2] < PHDR => Outcome(k) = "garbage"
               /\ r[2] = PHDR /\ ph.load /\ g[2] > ph.filesz => Outcome(k) = "overrun"
               /\ r[2] = PHDR /\ ph.load /\ g[2] < ph.filesz => Outcome(k) = "hang"
               /\ r[2] = PHDR /\ (ph.load => g[2] = ph.filesz) =>
                    Loading(k, IF ph.load THEN Append(out, g) ELSE out, i + 1)
<1> DEFINE ph == Disk[k].elf.ph[i]
           at == Disk[k].elf.phoff + (i - 1) * PHDR
           r  == cpio_file_read(s, at, PHDR)
           g  == cpio_file_read(s, ph.off, ph.filesz)
           n  == Given(k, at, PHDR)
           m  == Given(k, ph.off, ph.filesz)
<1>1. ph.off \in Nat /\ ph.filesz \in Nat /\ ph.load \in BOOLEAN /\ Len(Disk[k].elf.ph) \in Nat
  BY SegTypes, Zenon
<1>2. PHDR = 32 /\ PHDR \in Nat /\ at \in Nat
  <2>1. PHDR = 32
    BY DEF PHDR
  <2>2. Disk[k].elf.phoff \in Nat /\ i \in Nat /\ i >= 1
    BY <1>1, SegTypes
  <2> QED BY <2>1, <2>2
<1> HIDE DEF at
<1>3. r[2] = n /\ n \in Nat
  <2>1. r = <<DataOff(k) + at, n>> /\ n \in Nat
    BY <1>2, ReadGives, Zenon
  <2> HIDE DEF r, n
  <2> QED BY <2>1
<1>4. g = <<DataOff(k) + ph.off, m>> /\ m \in Nat
  BY <1>1, ReadGives, Zenon
<1>5. g[2] = m
  <2> HIDE DEF g, m
  <2> QED BY <1>4
<1>6. Bad(k, i) =
        CASE n > PHDR -> "overrun"
          [] n < PHDR -> "garbage"
          [] n = PHDR /\ ph.load /\ m > ph.filesz -> "overrun"
          [] n = PHDR /\ ph.load /\ m < ph.filesz -> "hang"
          [] OTHER -> "no"
  BY Zenon DEF Bad, PhdrOff, at
<1>7. PICK q \in Nat, v \in Nat, f \in Nat, b \in BOOLEAN : q = n /\ v = m /\ f = ph.filesz /\ b = ph.load
  BY <1>1, <1>3, <1>4, Zenon
<1>8. Bad(k, i) =
        CASE q > 32 -> "overrun"
          [] q < 32 -> "garbage"
          [] q = 32 /\ b /\ v > f -> "overrun"
          [] q = 32 /\ b /\ v < f -> "hang"
          [] OTHER -> "no"
  <2> HIDE DEF n, m, ph
  <2> QED BY <1>2, <1>6, <1>7, Zenon
<1>9. /\ q > 32 => Bad(k, i) = "overrun"
      /\ q < 32 => Bad(k, i) = "garbage"
      /\ q = 32 /\ b /\ v > f => Bad(k, i) = "overrun"
      /\ q = 32 /\ b /\ v < f => Bad(k, i) = "hang"
      /\ q = 32 /\ (b => v = f) => Bad(k, i) = "no"
  BY <1>8
<1>10. IsExec(k) /\ Fine(k, i - 1) /\ Taken(k, out, i - 1)
  <2>1. i > 0
    BY <1>1
  <2> QED BY <2>1 DEF Loading
<1>11. Bad(k, i) # "no" => Outcome(k) = Bad(k, i)
  BY <1>10, OutcomeAt
<1>12. ASSUME Bad(k, i) = "no", ph.load => g[2] = ph.filesz
       PROVE  Loading(k, IF ph.load THEN Append(out, g) ELSE out, i + 1)
  <2>1. Fine(k, (i + 1) - 1)
    <3>1. \A j \in 1 .. (i + 1) - 1 : j \in 1 .. i - 1 \/ j = i
      BY <1>1
    <3> QED BY <1>10, <1>12, <3>1, Zenon DEF Fine
  <2>2. Taken(k, IF ph.load THEN Append(out, g) ELSE out, i)
    <3>1. CASE ph.load
      <4>1. g = <<DataOff(k) + ph.off, ph.filesz>>
        BY <1>4, <1>5, <1>12, <3>1, Zenon
      <4>2. Taken(k, Append(out, <<DataOff(k) + ph.off, ph.filesz>>), i)
        BY <1>10, <3>1, TakenMore, Zenon
      <4> QED BY <3>1, <4>1, <4>2, Zenon
    <3>2. CASE ~ph.load
      BY <1>10, <3>2, TakenMore, Zenon
    <3> QED BY <3>1, <3>2
  <2>3. (i + 1) - 1 = i /\ i + 1 \in 0 .. Len(Disk[k].elf.ph) + 1
    BY <1>1
  <2> HIDE DEF g, ph
  <2>4. Taken(k, IF ph.load THEN Append(out, g) ELSE out, (i + 1) - 1)
    BY <2>2, <2>3
  <2> QED BY <1>10, <2>1, <2>3, <2>4 DEF Loading
<1>13. r[2] = q /\ g[2] = v /\ ph.filesz = f /\ ph.load = b
  BY <1>3, <1>5, <1>7
<1> HIDE DEF r, g, n, m, ph
<1>14. /\ r[2] > PHDR => Outcome(k) = "overrun"
       /\ r[2] < PHDR => Outcome(k) = "garbage"
       /\ r[2] = PHDR /\ ph.load /\ g[2] > ph.filesz => Outcome(k) = "overrun"
       /\ r[2] = PHDR /\ ph.load /\ g[2] < ph.filesz => Outcome(k) = "hang"
       /\ r[2] = PHDR /\ (ph.load => g[2] = ph.filesz) =>
            Loading(k, IF ph.load THEN Append(out, g) ELSE out, i + 1)
  BY <1>2, <1>9, <1>11, <1>12, <1>13
<1> QED BY <1>14 DEF r, g, ph, at

-----------------------------------------------------------------------------
(* Every step keeps the invariant. *)

\* What ls of entry d must have come to.
Lists(d, err, out) ==
    IF d # 0 /\ Disk[d].type = "DIR"
    THEN err = "ok" /\ Ascends(out, Below(d, Len(Disk) - 1))
    ELSE err # "ok"

LEMMA EndedIs ==
    /\ ListingExact <=>
        (last.name = "ls" /\ WellFormed => Lists(EntryOf(last.arg, ROOTDIR), last.err, last.out))
    /\ ShownAll <=>
        (last.name = "xhead" /\ last.err = "ok" => last.out = Shows(EntryOf(last.arg, ROOTDIR)))
<1>1. ListingExact <=>
        (last.name = "ls" /\ WellFormed => Lists(EntryOf(last.arg, ROOTDIR), last.err, last.out))
  BY Zenon DEF ListingExact, Lists, Below, Prefix
<1>2. ShownAll <=>
        (last.name = "xhead" /\ last.err = "ok" => last.out = Shows(EntryOf(last.arg, ROOTDIR)))
  BY Zenon DEF ShownAll, Shows
<1> QED BY <1>1, <1>2

\* The file system stays as it is, so what the last command must have shown
\* is told from its archive before the step.
LEMMA EndedNext ==
    ASSUME UNCHANGED vfs
    PROVE  /\ ListingExact' <=>
                (last'.name = "ls" /\ WellFormed =>
                    Lists(EntryOf(last'.arg, ROOTDIR), last'.err, last'.out))
           /\ ShownAll' <=>
                (last'.name = "xhead" /\ last'.err = "ok" =>
                    last'.out = Shows(EntryOf(last'.arg, ROOTDIR)))
<1>1. /\ Disk' = Disk /\ (WellFormed' <=> WellFormed)
      /\ \A k : DataOff(k)' = DataOff(k)
      /\ \A arg : EntryOf(arg, ROOTDIR)' = EntryOf(arg, ROOTDIR)
  BY SameDisk
<1>2. EntryOf(last.arg, ROOTDIR)' = EntryOf(last'.arg, ROOTDIR)
  BY <1>1
<1>3. ListingExact' <=>
        (last'.name = "ls" /\ WellFormed' =>
            (LET d == EntryOf(last.arg, ROOTDIR)
             IN  IF d # 0 /\ Disk[d].type = "DIR"
                 THEN last.err = "ok" /\ Ascends(last.out, Below(d, Len(Disk) - 1))
                 ELSE last.err # "ok")')
  BY Zenon DEF ListingExact, Below, Prefix
<1>4. ShownAll' <=>
        (last'.name = "xhead" /\ last'.err = "ok" => last'.out = Shows(EntryOf(last.arg, ROOTDIR))')
  BY Zenon DEF ShownAll, Shows
<1>5. \A d : Shows(d)' = Shows(d)
  BY <1>1, Zenon DEF Shows
<1> QED BY <1>1, <1>2, <1>3, <1>4, <1>5, Zenon DEF Lists, Below, Prefix

\* A step of a command: the file system stays as it is.
Steps == Ready /\ UNCHANGED <<vfs, booted>>

LEMMA BootKept ==
    ASSUME BootOnce, Steps
    PROVE  BootOnce'
<1>1. booted' = "up" /\ vfs_mount_list' = vfs_mount_list /\ UNCHANGED vfs
  BY DEF Steps, Ready, vfs
<1>2. Mounted' <=> Mounted
  BY <1>1, SameDisk
<1> QED BY <1>1, <1>2, Zenon DEF BootOnce

LEMMA OpenKept ==
    ASSUME OpenOn, UNCHANGED vfs, busy' \subseteq busy, hdr' = hdr, DOMAIN af' = CSlots
    PROVE  OpenOn'
<1>1. (Mounted' <=> Mounted) /\ Disk' = Disk
  BY SameDisk
<1> QED BY <1>1, Zenon DEF OpenOn

\* The last command stays, or the last one was neither ls nor xhead.
LEMMA LastKept ==
    ASSUME UNCHANGED vfs, ListingExact, ShownAll,
           last' = last \/ last'.name \notin {"ls", "xhead"}
    PROVE  ListingExact' /\ ShownAll'
BY EndedIs, EndedNext, Zenon

LEMMA OpenedOn ==
    ASSUME BootOnce, OpenOn, busy \subseteq CSlots, UNCHANGED vfs,
           NEW cwd, NEW arg, NEW s, Opens(cwd, arg, s)
    PROVE  /\ OpenOn' /\ Mounted /\ s \in CSlots /\ s \notin busy
           /\ hdr'[s] \in 1 .. Len(Disk) /\ hdr'[s] = EntryOf(arg, cwd)
           /\ af'[s] = DataAt(ramdisks[1], hdr'[s])
           /\ \A t \in CSlots : t # s => hdr'[t] = hdr[t]
<1> DEFINE h == Lookup(cwd, arg)
<1>1. /\ h.err = "ok" /\ s \in CSlots /\ s \notin busy /\ busy' = busy \cup {s}
      /\ af' = [af EXCEPT ![s] = h.pos] /\ hdr' = [hdr EXCEPT ![s] = h.k]
  BY DEF Opens
<1>2. /\ Mounted /\ Hits(cwd, arg) # {} /\ h.k = Min(Hits(cwd, arg))
      /\ h.k \in 1 .. Len(Disk) /\ h.pos = DataAt(ramdisks[1], h.k)
  BY <1>1, LookupFinds, Zenon DEF BootOnce
<1>3. EntryOf(arg, cwd) = h.k
  BY <1>2, EntryOfIs, Zenon
<1>4. DOMAIN hdr = CSlots /\ DOMAIN af = CSlots
  BY DEF OpenOn
<1> HIDE DEF h
<1>5. /\ DOMAIN hdr' = CSlots /\ DOMAIN af' = CSlots /\ hdr'[s] = h.k /\ af'[s] = h.pos
      /\ \A t \in CSlots : t # s => hdr'[t] = hdr[t]
  BY <1>1, <1>4
<1>6. (Mounted' <=> Mounted) /\ Disk' = Disk
  BY SameDisk
<1>7. ASSUME NEW t \in busy' PROVE Mounted' /\ hdr'[t] \in 1 .. Len(Disk')
  <2>1. CASE t = s
    BY <2>1, <1>2, <1>5, <1>6, Zenon
  <2>2. CASE t # s
    <3>1. t \in busy /\ t \in CSlots
      BY <1>1, <2>2, <1>7
    <3> QED BY <3>1, <2>2, <1>5, <1>6, Zenon DEF OpenOn
  <2> QED BY <2>1, <2>2
<1> QED BY <1>1, <1>2, <1>3, <1>5, <1>6, <1>7, Zenon DEF OpenOn

LEMMA DoesSame ==
    ASSUME UNCHANGED vfs
    PROVE  Doing' <=> Does(cmd', af', hdr', pslot')
<1>1. /\ Disk' = Disk
      /\ \A arg : EntryOf(arg, ROOTDIR)' = EntryOf(arg, ROOTDIR)
  BY SameDisk
<1>2. ASSUME NEW c, NEW a, NEW h, NEW p
      PROVE  Does(c, a, h, p)' <=> Does(c, a, h, p)
  BY <1>1, SameDone, Zenon DEF Does
<1> QED BY <1>2, Zenon DEF Doing

LEMMA StepKept ==
    ASSUME BInv, Steps, OpenOn', Does(cmd', af', hdr', pslot'), Died', ListingExact', ShownAll'
    PROVE  BInv'
<1>1. BootOnce'
  BY BootKept DEF BInv
<1>2. Doing'
  BY DoesSame DEF Steps
<1> QED BY <1>1, <1>2 DEF BInv

\* A step that opens nothing and shows nothing.
LEMMA PlainStep ==
    ASSUME BInv, Steps, busy' \subseteq busy, hdr' = hdr, af' = af, dead' = dead,
           last' = last \/ last'.name \notin {"ls", "xhead"},
           Does(cmd', af', hdr', pslot')
    PROVE  BInv'
<1>1. UNCHANGED vfs
  BY DEF Steps
<1>2. OpenOn'
  BY <1>1, OpenKept DEF BInv, OpenOn
<1>3. Died'
  BY DEF Died, Steps, Ready
<1>4. ListingExact' /\ ShownAll'
  BY <1>1, LastKept DEF BInv
<1> QED BY <1>2, <1>3, <1>4, StepKept

LEMMA DoesIdle == \A a, h, p : Does(Idle, a, h, p)
BY Zenon DEF Does, Idle

LEMMA CommandOpensShown ==
    ASSUME FInv, BInv, NEW name \in {"ls", "stat", "xhead"}, NEW arg, CommandOpens(name, arg)
    PROVE  BInv'
<1>1. PICK s \in CSlots : /\ Opens(ROOTDIR, arg, s)
                          /\ cmd' = [Idle EXCEPT !.name = name, !.arg = arg, !.slot = s]
  BY Zenon DEF CommandOpens, Runs
<1>2. Steps /\ last' = Idle /\ dead' = dead /\ UNCHANGED vfs
  BY DEF CommandOpens, Gives, In, Steps, SameProc
<1>3. /\ OpenOn' /\ Mounted /\ s # 0
      /\ hdr'[s] \in 1 .. Len(Disk) /\ hdr'[s] = EntryOf(arg, ROOTDIR)
      /\ af'[s] = DataAt(ramdisks[1], hdr'[s])
  BY <1>1, <1>2, OpenedOn, NoEntryZero DEF BInv, FInv, Held
<1>4. /\ cmd'.name = name /\ cmd'.arg = arg /\ cmd'.slot = s /\ cmd'.out = <<>>
      /\ cmd'.pos = 0 /\ cmd'.i = 0
  BY <1>1 DEF Idle
<1>5. Listing(hdr'[s], af'[s], <<>>) /\ Shown(hdr'[s], <<>>, 0, 0)
  BY <1>3, ListingBegins, ShownBegins
<1>6. Does(cmd', af', hdr', pslot')
  BY <1>3, <1>4, <1>5, Zenon DEF Does
<1>7. Died'
  BY <1>2 DEF Died, Steps, Ready
<1>8. last'.name \notin {"ls", "xhead"}
  BY <1>2 DEF Idle
<1>9. ListingExact' /\ ShownAll'
  BY <1>2, <1>8, LastKept DEF BInv
<1> QED BY <1>2, <1>3, <1>6, <1>7, <1>9, StepKept

\* An open of a name in the archive succeeds as there is a free entry.
LEMMA CommandFailsShown ==
    ASSUME MAX_CPIO_OPEN >= 3, PATH_MAX >= 2, FInv, BInv,
           NEW name \in {"ls", "stat", "xhead"}, NEW arg \in Seq(STRING), CommandFails(name, arg)
    PROVE  BInv'
<1> DEFINE err == Lookup(ROOTDIR, arg).err
<1>1. /\ Steps /\ UNCHANGED vfs /\ dead' = dead /\ cmd' = cmd /\ pslot' = pslot
      /\ UNCHANGED cpio /\ err # "ok" /\ cmd.name = "idle"
      /\ last' = [Idle EXCEPT !.name = name, !.arg = arg, !.err = err]
  BY DEF CommandFails, Gives, In, Steps, SameProc, OpenFails
<1> HIDE DEF err
<1>2. last'.name = name /\ last'.arg = arg /\ last'.err = err
  BY <1>1 DEF Idle
<1>3. busy # CSlots
  BY <1>1, BoundedNow DEF OpenFilesBounded, FInv, Stage
<1>4. OpenOn'
  BY <1>1, OpenKept DEF BInv, OpenOn, cpio
<1>5. Died'
  BY <1>1 DEF Died, Steps, Ready
<1>6. Does(cmd', af', hdr', pslot')
  BY <1>1 DEF BInv, Doing, cpio
<1>7. WellFormed => Mounted
  BY DEF BInv, BootOnce, WellFormed
<1>8. ASSUME Mounted PROVE EntryOf(arg, ROOTDIR) = 0
  <2>1. Hits(ROOTDIR, arg) = {}
    BY <1>1, <1>3, <1>8, AbsPath, LookupFinds, Zenon DEF err
  <2> QED BY <2>1, <1>8, EntryOfIs, Zenon
<1>9. ListingExact' /\ ShownAll'
  BY <1>1, <1>2, <1>7, <1>8, EndedNext, Zenon DEF Lists
<1> QED BY <1>1, <1>4, <1>5, <1>6, <1>9, StepKept

LEMMA RunProgramShown ==
    ASSUME FInv, BInv, NEW arg, RunProgram(arg)
    PROVE  BInv'
<1>1. /\ Steps /\ UNCHANGED cpio /\ dead' = dead /\ last' = Idle
      /\ cmd' = [Idle EXCEPT !.name = "probe", !.arg = arg, !.i = 1]
  BY DEF RunProgram, Gives, In, Steps, SameProc, Runs
<1>2. cmd'.name = "probe" /\ cmd'.out = <<>> /\ last'.name = "idle"
  BY <1>1 DEF Idle
<1>3. Does(cmd', af', hdr', pslot')
  BY <1>2, Zenon DEF Does
<1> QED BY <1>1, <1>2, <1>3, PlainStep DEF cpio

LEMMA LsShown == FInv /\ BInv /\ cmd_ls => BInv'
<1> SUFFICES ASSUME FInv, BInv, cmd_ls PROVE BInv'
  OBVIOUS
<1> DEFINE s == cmd.slot
           h == cpio_file_readdir(s)
<1>1. Steps /\ UNCHANGED vfs /\ dead' = dead /\ pslot' = pslot /\ cmd.name = "ls"
  BY DEF cmd_ls, In, Steps, Stays, SameProc
<1>2. /\ s # 0 /\ s \in busy /\ s \in CSlots /\ DOMAIN cmd = Fields
  BY <1>1 DEF BInv, Doing, Does, FInv, Held, Stage
<1>3. PICK d : d = hdr[s]
  OBVIOUS
<1>4. /\ Mounted /\ d \in 1 .. Len(Disk) /\ d = EntryOf(cmd.arg, ROOTDIR)
      /\ Listing(d, af[s], cmd.out) /\ DOMAIN af = CSlots /\ DOMAIN hdr = CSlots
  BY <1>1, <1>2, <1>3, Zenon DEF BInv, OpenOn, Doing, Does
<1>5. Died'
  BY <1>1 DEF Died, Steps, Ready
<1>6. /\ h.k # 0 => Listing(d, h.pos, Append(cmd.out, h.k))
      /\ h.k = 0 /\ WellFormed =>
           IF Disk[d].type = "DIR" THEN h.err = "ok" /\ Ascends(cmd.out, Below(d, Len(Disk) - 1))
           ELSE h.err # "ok"
  BY <1>3, <1>4, ListingNext, Zenon
<1>7. CASE /\ h.k # 0 /\ af' = [af EXCEPT ![s] = h.pos]
           /\ cmd' = [cmd EXCEPT !.out = Append(@, h.k)] /\ UNCHANGED <<busy, hdr, last>>
  <2> HIDE DEF h
  <2>1. /\ cmd'.name = "ls" /\ cmd'.slot = s /\ cmd'.arg = cmd.arg
        /\ cmd'.out = Append(cmd.out, h.k)
    BY <1>1, <1>2, <1>7 DEF Fields
  <2>2. af'[s] = h.pos /\ DOMAIN af' = CSlots
    BY <1>2, <1>4, <1>7
  <2>3. Does(cmd', af', hdr', pslot')
    BY <2>1, <2>2, <1>2, <1>3, <1>4, <1>6, <1>7, Zenon DEF Does
  <2>4. OpenOn'
    BY <1>1, <1>7, <2>2, OpenKept DEF BInv
  <2>5. ListingExact' /\ ShownAll'
    BY <1>1, <1>7, LastKept DEF BInv
  <2> QED BY <1>1, <1>5, <2>3, <2>4, <2>5, StepKept
<1>8. CASE h.k = 0 /\ Closes(s) /\ Ends(h.err)
  <2> HIDE DEF h
  <2>1. /\ last'.name = "ls" /\ last'.arg = cmd.arg /\ last'.out = cmd.out /\ last'.err = h.err
        /\ cmd' = Idle
    BY <1>1, <1>2, <1>8 DEF Ends, Fields
  <2>2. OpenOn'
    BY <1>1, <1>4, <1>8, OpenKept DEF BInv, Closes
  <2>3. d # 0
    BY <1>4
  <2>4. WellFormed => Lists(d, last'.err, last'.out)
    BY <2>1, <2>3, <1>6, <1>8, Zenon DEF Lists
  <2>5. ListingExact' /\ ShownAll'
    BY <1>1, <1>4, <2>1, <2>4, EndedNext, Zenon
  <2> QED BY <1>1, <1>5, <2>1, <2>2, <2>5, DoesIdle, StepKept
<1> QED BY <1>7, <1>8, Zenon DEF cmd_ls, Runs

LEMMA XheadShown == FInv /\ BInv /\ cmd_xhead => BInv'
<1> SUFFICES ASSUME FInv, BInv, cmd_xhead PROVE BInv'
  OBVIOUS
<1> DEFINE s == cmd.slot
           r == cpio_file_read(s, cmd.pos, ROWBYTES)
<1>1. Steps /\ UNCHANGED vfs /\ dead' = dead /\ pslot' = pslot /\ cmd.name = "xhead"
  BY DEF cmd_xhead, In, Steps, Stays, SameProc
<1>2. /\ s # 0 /\ s \in busy /\ s \in CSlots /\ DOMAIN cmd = Fields
  BY <1>1 DEF BInv, Doing, Does, FInv, Held, Stage
<1>3. PICK k : k = hdr[s]
  OBVIOUS
<1>4. /\ Mounted /\ k \in 1 .. Len(Disk) /\ k = EntryOf(cmd.arg, ROOTDIR)
      /\ Shown(k, cmd.out, cmd.pos, cmd.i)
  BY <1>1, <1>2, <1>3, Zenon DEF BInv, OpenOn, Doing, Does
<1>5. /\ cmd.i < ROWS /\ r[2] > 0 => Shown(k, Append(cmd.out, r), cmd.pos + r[2], cmd.i + 1)
      /\ cmd.i = ROWS \/ r[2] = 0 => cmd.out = Shows(k)
  BY <1>3, <1>4, ShownNext, Zenon
<1>6. CASE /\ cmd.i < ROWS /\ r[2] > 0
           /\ cmd' = [cmd EXCEPT !.out = Append(@, r), !.pos = @ + r[2], !.i = @ + 1]
           /\ UNCHANGED <<cpio, last>>
  <2> HIDE DEF r
  <2>1. /\ cmd'.name = "xhead" /\ cmd'.slot = s /\ cmd'.arg = cmd.arg
        /\ cmd'.out = Append(cmd.out, r) /\ cmd'.pos = cmd.pos + r[2] /\ cmd'.i = cmd.i + 1
    BY <1>1, <1>2, <1>6 DEF Fields
  <2>2. busy' = busy /\ hdr' = hdr /\ af' = af /\ last' = last
    BY <1>6 DEF cpio
  <2>3. Does(cmd', af', hdr', pslot')
    BY <2>1, <2>2, <1>2, <1>3, <1>4, <1>5, <1>6, Zenon DEF Does
  <2> QED BY <1>1, <2>2, <2>3, PlainStep
<1>7. CASE (cmd.i = ROWS \/ r[2] = 0) /\ Closes(s) /\ Ends("ok")
  <2> HIDE DEF r
  <2>1. /\ last'.name = "xhead" /\ last'.arg = cmd.arg /\ last'.out = cmd.out /\ cmd' = Idle
    BY <1>1, <1>2, <1>7 DEF Ends, Fields
  <2>2. OpenOn'
    BY <1>1, <1>7, OpenKept DEF BInv, Closes, OpenOn
  <2>3. ListingExact' /\ ShownAll'
    BY <1>1, <1>4, <1>5, <1>7, <2>1, EndedNext, Zenon
  <2>4. Died'
    BY <1>1 DEF Died, Steps, Ready
  <2> QED BY <1>1, <2>1, <2>2, <2>3, <2>4, DoesIdle, StepKept
<1> QED BY <1>6, <1>7, Zenon DEF cmd_xhead, Runs

\* A command other than ls and xhead ends.
LEMMA EndsPlain ==
    ASSUME FInv, BInv, Steps, cmd.name \notin {"ls", "xhead"}, NEW err, Ends(err),
           busy' \subseteq busy, hdr' = hdr, af' = af, dead' = dead
    PROVE  BInv'
<1>1. cmd' = Idle /\ last'.name = cmd.name
  BY DEF Ends, FInv, Stage, Fields
<1> QED BY <1>1, DoesIdle, PlainStep

LEMMA StatShown == FInv /\ BInv /\ cmd_stat => BInv'
<1> SUFFICES ASSUME FInv, BInv, cmd_stat PROVE BInv'
  OBVIOUS
<1>1. /\ Steps /\ cmd.name = "stat" /\ Ends("ok")
      /\ busy' \subseteq busy /\ hdr' = hdr /\ af' = af /\ dead' = dead
  BY DEF cmd_stat, In, Steps, Stays, SameProc, Closes
<1> QED BY <1>1, EndsPlain

\* The command goes on as a probe, or as a load that has not opened its file.
LEMMA DoesProbe ==
    ASSUME NEW c, c.name = "probe" \/ (c.name = "load" /\ c.slot = 0), c.out = <<>>
    PROVE  \A a, h, p : Does(c, a, h, p)
BY Zenon DEF Does

LEMMA ProbeShown ==
    FInv /\ BInv /\ (ProbeOpens \/ ProbeCloses \/ ProbeMisses \/ ProbeGivesUp) => BInv'
<1> SUFFICES ASSUME FInv, BInv, ProbeOpens \/ ProbeCloses \/ ProbeMisses \/ ProbeGivesUp
             PROVE  BInv'
  OBVIOUS
<1>1. Steps /\ UNCHANGED vfs /\ cmd.name = "probe" /\ dead' = dead
  BY DEF ProbeOpens, ProbeCloses, ProbeMisses, ProbeGivesUp, In, Steps, Stays, SameProc
<1>2. cmd.out = <<>> /\ DOMAIN cmd = Fields
  BY <1>1, Zenon DEF BInv, Doing, Does, FInv, Stage
<1>3. CASE ProbeOpens
  <2>1. PICK s \in CSlots : /\ Opens(BIN_PATHS[cmd.i], cmd.arg, s)
                            /\ cmd' = [cmd EXCEPT !.slot = s] /\ last' = last
    BY <1>3, Zenon DEF ProbeOpens, Runs
  <2>2. cmd'.name = "probe" /\ cmd'.out = <<>>
    BY <1>1, <1>2, <2>1 DEF Fields
  <2>3. OpenOn'
    BY <1>1, <2>1, OpenedOn DEF BInv, FInv, Held
  <2>4. Died'
    BY <1>1 DEF Died, Steps, Ready
  <2>5. ListingExact' /\ ShownAll'
    BY <1>1, <2>1, LastKept DEF BInv
  <2> QED BY <1>1, <2>2, <2>3, <2>4, <2>5, DoesProbe, StepKept
<1>4. CASE ProbeCloses
  <2>1. busy' \subseteq busy /\ hdr' = hdr /\ af' = af /\ last' = last
    BY <1>4 DEF ProbeCloses, Closes
  <2>2. cmd' = [cmd EXCEPT !.name = "load", !.slot = 0] \/ cmd' = [cmd EXCEPT !.slot = 0, !.i = @ + 1]
    BY <1>4, Zenon DEF ProbeCloses, Runs
  <2>3. (cmd'.name = "probe" \/ (cmd'.name = "load" /\ cmd'.slot = 0)) /\ cmd'.out = <<>>
    BY <1>1, <1>2, <2>2 DEF Fields
  <2> QED BY <1>1, <2>1, <2>3, DoesProbe, PlainStep
<1>5. CASE ProbeMisses
  <2>1. busy' = busy /\ hdr' = hdr /\ af' = af
    BY <1>5 DEF ProbeMisses, OpenFails, cpio
  <2>2. \/ cmd' = [cmd EXCEPT !.i = @ + 1] /\ last' = last
        \/ Ends(Lookup(BIN_PATHS[cmd.i], cmd.arg).err)
    BY <1>5, Zenon DEF ProbeMisses, Runs
  <2>3. CASE cmd' = [cmd EXCEPT !.i = @ + 1] /\ last' = last
    <3>1. cmd'.name = "probe" /\ cmd'.out = <<>>
      BY <1>1, <1>2, <2>3 DEF Fields
    <3> QED BY <1>1, <2>1, <2>3, <3>1, DoesProbe, PlainStep
  <2>4. CASE Ends(Lookup(BIN_PATHS[cmd.i], cmd.arg).err)
    BY <1>1, <2>1, <2>4, EndsPlain
  <2> QED BY <2>2, <2>3, <2>4
<1>6. CASE ProbeGivesUp
  <2>1. busy' = busy /\ hdr' = hdr /\ af' = af /\ Ends("unknown")
    BY <1>6 DEF ProbeGivesUp, cpio
  <2> QED BY <1>1, <2>1, EndsPlain
<1> QED BY <1>3, <1>4, <1>5, <1>6

LEMMA LoadBeginsShown == FInv /\ BInv /\ (LoadNoTables \/ LoadOpens) => BInv'
<1> SUFFICES ASSUME FInv, BInv, LoadNoTables \/ LoadOpens PROVE BInv'
  OBVIOUS
<1>1. Steps /\ UNCHANGED vfs /\ cmd.name = "load" /\ dead' = dead /\ DOMAIN cmd = Fields
  BY DEF LoadNoTables, LoadOpens, In, Steps, Stays, SameProc, FInv, Stage
<1>2. CASE LoadNoTables
  <2>1. busy' = busy /\ hdr' = hdr /\ af' = af /\ Ends("ENOMEM")
    BY <1>2 DEF LoadNoTables, cpio
  <2> QED BY <1>1, <2>1, EndsPlain
<1>3. CASE LoadOpens
  <2>1. PICK s \in CSlots : /\ Opens(BIN_PATHS[cmd.i], cmd.arg, s)
                            /\ cmd' = [cmd EXCEPT !.slot = s, !.i = 0] /\ last' = last
    BY <1>3, Zenon DEF LoadOpens, Runs
  <2>2. cmd.out = <<>>
    BY <1>1, <1>3, Zenon DEF LoadOpens, BInv, Doing, Does
  <2>3. cmd'.name = "load" /\ cmd'.slot = s /\ cmd'.out = <<>> /\ cmd'.i = 0
    BY <1>1, <2>1, <2>2 DEF Fields
  <2>4. OpenOn' /\ Mounted /\ hdr'[s] \in 1 .. Len(Disk) /\ s # 0
    BY <1>1, <2>1, OpenedOn, NoEntryZero DEF BInv, FInv, Held
  <2>5. Does(cmd', af', hdr', pslot')
    BY <2>3, <2>4, LoadingBegins, Zenon DEF Does
  <2>6. Died'
    BY <1>1 DEF Died, Steps, Ready
  <2>7. ListingExact' /\ ShownAll'
    BY <1>1, <2>1, LastKept DEF BInv
  <2> QED BY <1>1, <2>4, <2>5, <2>6, <2>7, StepKept
<1> QED BY <1>2, <1>3

\* The kernel dies while it loads an entry, for the reason it must.
LEMMA DiesShown ==
    ASSUME FInv, BInv, Ready, cmd.name = "load", cmd.slot # 0,
           NEW why, Dies(why), why = Outcome(hdr[cmd.slot])
    PROVE  BInv'
<1>1. /\ Steps /\ UNCHANGED vfs /\ cmd' = cmd /\ last' = last /\ pslot' = pslot
      /\ busy' = busy /\ af' = af /\ hdr' = hdr /\ dead' = why
  BY DEF Dies, Stays, Steps, cpio
<1>2. OpenOn'
  BY <1>1, OpenKept DEF BInv, OpenOn
<1>3. \A k : Outcome(k)' = Outcome(k)
  BY <1>1, SameGiven
<1>4. Outcome(hdr[cmd.slot])' = Outcome(hdr[cmd.slot])
  BY <1>1, <1>3
<1>5. Died'
  BY <1>1, <1>4, Zenon DEF Died
<1>6. ListingExact' /\ ShownAll'
  BY <1>1, LastKept DEF BInv
<1>7. Does(cmd', af', hdr', pslot')
  BY <1>1, Zenon DEF BInv, Doing
<1> QED BY <1>1, <1>2, <1>5, <1>6, <1>7, StepKept

LEMMA LoadFacts ==
    ASSUME FInv, BInv, cmd.name = "load", cmd.slot # 0
    PROVE  /\ Mounted /\ hdr[cmd.slot] \in 1 .. Len(Disk) /\ Elf = Disk[hdr[cmd.slot]].elf
           /\ Loading(hdr[cmd.slot], cmd.out, cmd.i) /\ DOMAIN cmd = Fields
<1>1. cmd.slot \in busy /\ DOMAIN cmd = Fields
  BY DEF FInv, Held, Stage
<1> QED BY <1>1, Zenon DEF BInv, OpenOn, Doing, Does, Elf, Entry

\* Loading goes on.
LEMMA LoadGoesOn ==
    ASSUME FInv, BInv, Ready, Stays, SameProc, UNCHANGED <<cpio, last>>, NEW out, NEW i,
           cmd'.name = "load", cmd'.slot = cmd.slot, cmd.slot # 0, cmd'.out = out, cmd'.i = i,
           Loading(hdr[cmd.slot], out, i)
    PROVE  BInv'
<1>1. /\ Steps /\ busy' = busy /\ hdr' = hdr /\ af' = af /\ last' = last /\ dead' = dead
  BY DEF Stays, SameProc, Steps, cpio
<1>2. Does(cmd', af', hdr', pslot')
  BY <1>1, Zenon DEF Does
<1> QED BY <1>1, <1>2, PlainStep

LEMMA LoadHeaderShown == FInv /\ BInv /\ LoadHeader => BInv'
<1> SUFFICES ASSUME FInv, BInv, LoadHeader PROVE BInv'
  OBVIOUS
<1> DEFINE k == hdr[cmd.slot]
           r == cpio_file_read(cmd.slot, 0, EHDR)
<1>1. Ready /\ cmd.name = "load" /\ cmd.slot # 0 /\ cmd.i = 0
  BY DEF LoadHeader, In
<1>2. /\ Mounted /\ k \in 1 .. Len(Disk) /\ Elf = Disk[k].elf
      /\ Loading(k, cmd.out, 0) /\ DOMAIN cmd = Fields
  BY <1>1, LoadFacts
<1>3. /\ r[2] < EHDR => Outcome(k) = "garbage"
      /\ r[2] = EHDR /\ Elf.ident # "exec32" => Outcome(k) = "undefined"
      /\ r[2] = EHDR /\ Elf.ident = "exec32" => Loading(k, cmd.out, 1)
  BY <1>2, HeaderNext, Zenon
<1>4. \/ r[2] < EHDR /\ Dies("garbage")
      \/ r[2] = EHDR /\ Elf.ident # "exec32" /\ Dies("undefined")
      \/ /\ r[2] = EHDR /\ Elf.ident = "exec32" /\ cmd' = [cmd EXCEPT !.i = 1]
         /\ UNCHANGED <<cpio, last>> /\ Stays /\ SameProc
  BY Zenon DEF LoadHeader, Runs
<1> HIDE DEF r, k
<1>5. CASE r[2] < EHDR /\ Dies("garbage")
  BY <1>1, <1>3, <1>5, DiesShown DEF k
<1>6. CASE r[2] = EHDR /\ Elf.ident # "exec32" /\ Dies("undefined")
  BY <1>1, <1>3, <1>6, DiesShown DEF k
<1>7. CASE /\ r[2] = EHDR /\ Elf.ident = "exec32" /\ cmd' = [cmd EXCEPT !.i = 1]
           /\ UNCHANGED <<cpio, last>> /\ Stays /\ SameProc
  <2>1. cmd'.name = "load" /\ cmd'.slot = cmd.slot /\ cmd'.out = cmd.out /\ cmd'.i = 1
    BY <1>1, <1>2, <1>7 DEF Fields
  <2> QED BY <1>1, <1>3, <1>7, <2>1, LoadGoesOn DEF k
<1> QED BY <1>4, <1>5, <1>6, <1>7

LEMMA LoadSegmentShown == FInv /\ BInv /\ LoadSegment => BInv'
<1> SUFFICES ASSUME FInv, BInv, LoadSegment PROVE BInv'
  OBVIOUS
<1> DEFINE k == hdr[cmd.slot]
           ph == Disk[k].elf.ph[cmd.i]
           r == cpio_file_read(cmd.slot, Disk[k].elf.phoff + (cmd.i - 1) * PHDR, PHDR)
           g == cpio_file_read(cmd.slot, ph.off, ph.filesz)
           out == IF ph.load THEN Append(cmd.out, g) ELSE cmd.out
<1>1. Ready /\ cmd.name = "load" /\ cmd.slot # 0 /\ cmd.i \in 1 .. Len(Elf.ph)
  BY DEF LoadSegment, In
<1>2. /\ Mounted /\ k \in 1 .. Len(Disk) /\ Elf = Disk[k].elf
      /\ Loading(k, cmd.out, cmd.i) /\ DOMAIN cmd = Fields
  BY <1>1, LoadFacts
<1>3. cmd.i \in 1 .. Len(Disk[k].elf.ph)
  BY <1>1, <1>2, Zenon
<1>4. /\ r[2] > PHDR => Outcome(k) = "overrun"
      /\ r[2] < PHDR => Outcome(k) = "garbage"
      /\ r[2] = PHDR /\ ph.load /\ g[2] > ph.filesz => Outcome(k) = "overrun"
      /\ r[2] = PHDR /\ ph.load /\ g[2] < ph.filesz => Outcome(k) = "hang"
      /\ r[2] = PHDR /\ (ph.load => g[2] = ph.filesz) => Loading(k, out, cmd.i + 1)
  BY <1>2, <1>3, SegmentNext, Zenon
<1>5. \/ r[2] > PHDR /\ Dies("overrun")
      \/ r[2] < PHDR /\ Dies("garbage")
      \/ r[2] = PHDR /\ ph.load /\ g[2] > ph.filesz /\ Dies("overrun")
      \/ r[2] = PHDR /\ ph.load /\ g[2] < ph.filesz /\ Dies("hang")
      \/ /\ r[2] = PHDR /\ (ph.load => g[2] = ph.filesz)
         /\ cmd' = [cmd EXCEPT !.i = @ + 1, !.out = IF ph.load THEN Append(@, g) ELSE @]
         /\ UNCHANGED <<cpio, last>> /\ Stays /\ SameProc
  BY <1>2, Zenon DEF LoadSegment, Runs
<1> HIDE DEF r, k, g, ph
<1>6. ASSUME NEW why, Dies(why), why = Outcome(k) PROVE BInv'
  BY <1>1, <1>6, DiesShown DEF k
<1>7. CASE /\ r[2] = PHDR /\ (ph.load => g[2] = ph.filesz)
           /\ cmd' = [cmd EXCEPT !.i = @ + 1, !.out = IF ph.load THEN Append(@, g) ELSE @]
           /\ UNCHANGED <<cpio, last>> /\ Stays /\ SameProc
  <2>1. cmd'.name = "load" /\ cmd'.slot = cmd.slot /\ cmd'.out = out /\ cmd'.i = cmd.i + 1
    BY <1>1, <1>2, <1>7 DEF Fields
  <2>2. Loading(k, out, cmd.i + 1)
    BY <1>4, <1>7
  <2> HIDE DEF out
  <2> QED BY <1>1, <1>7, <2>1, <2>2, LoadGoesOn DEF k
<1> QED BY <1>4, <1>5, <1>6, <1>7, Zenon

LEMMA StartShown == FInv /\ BInv /\ Start => BInv'
<1> SUFFICES ASSUME FInv, BInv, Start PROVE BInv'
  OBVIOUS
<1> DEFINE k == hdr[cmd.slot]
           n == Len(Disk[k].elf.ph)
<1>1. /\ Steps /\ cmd.name = "load" /\ cmd.slot # 0 /\ cmd.i = Len(Elf.ph) + 1
      /\ cmd' = [cmd EXCEPT !.name = "program", !.slot = 0] /\ pslot' = cmd.slot
      /\ busy' = busy /\ hdr' = hdr /\ af' = af /\ last' = last /\ dead' = dead
  BY DEF Start, In, Steps, Stays, Runs, cpio
<1>2. /\ Mounted /\ k \in 1 .. Len(Disk) /\ Elf = Disk[k].elf
      /\ Loading(k, cmd.out, cmd.i) /\ DOMAIN cmd = Fields
  BY <1>1, LoadFacts
<1>3. n \in Nat /\ cmd.i = n + 1
  BY <1>1, <1>2, SegTypes, Zenon
<1> HIDE DEF n, k
<1>4. IsExec(k) /\ Fine(k, n) /\ Taken(k, cmd.out, n)
  <2>1. cmd.i > 0 /\ cmd.i - 1 = n
    BY <1>3
  <2> QED BY <1>2, <2>1, Zenon DEF Loading
<1>5. cmd'.name = "program" /\ cmd'.out = cmd.out
  BY <1>1, <1>2 DEF Fields
<1>6. Does(cmd', af', hdr', pslot')
  BY <1>1, <1>4, <1>5, Zenon DEF Does, k, n
<1> QED BY <1>1, <1>6, PlainStep

LEMMA ProcessCloseShown == FInv /\ BInv /\ process_close => BInv'
<1> SUFFICES ASSUME FInv, BInv, process_close PROVE BInv'
  OBVIOUS
<1>1. /\ Steps /\ cmd.name = "program" /\ Ends("ok")
      /\ busy' \subseteq busy /\ hdr' = hdr /\ af' = af /\ dead' = dead
  BY DEF process_close, In, Steps, Closes
<1> QED BY <1>1, EndsPlain

LEMMA TickShown == FInv /\ BInv /\ Tick => BInv'
<1> SUFFICES ASSUME FInv, BInv, Tick PROVE BInv'
  OBVIOUS
<1>1. /\ Steps /\ cmd' = Idle /\ busy' = busy /\ hdr' = hdr /\ af' = af
      /\ last' = last /\ dead' = dead
  BY DEF Tick, Steps, cpio
<1> QED BY <1>1, DoesIdle, PlainStep

\* Before and at the end of the boot no command has run and nothing is open.
LEMMA QuietBoot ==
    ASSUME BInv, booted # "up", UNCHANGED <<cpio, cmd, last, dead>>, BootOnce'
    PROVE  BInv'
<1>1. cmd' = Idle /\ last' = Idle /\ dead' = "no" /\ busy' = busy /\ hdr' = hdr /\ af' = af
  BY DEF BInv, BootOnce, cpio
<1>2. busy = {}
  <2>1. vfs_mount_list = <<>> /\ <<>> # <<1>>
    BY DEF BInv, BootOnce
  <2> QED BY <2>1, Zenon DEF BInv, OpenOn, Mounted
<1>3. OpenOn'
  BY <1>1, <1>2, Zenon DEF BInv, OpenOn
<1>4. cmd'.name = "idle" /\ last'.name = "idle"
  BY <1>1 DEF Idle
<1>5. Doing' /\ Died'
  BY <1>1, <1>4, Zenon DEF Doing, Does, Died
<1>6. ListingExact' /\ ShownAll'
  BY <1>4, Zenon DEF ListingExact, ShownAll
<1> QED BY <1>3, <1>5, <1>6 DEF BInv

LEMMA FirstOf ==
    ASSUME NEW n \in Nat \ {0}, NEW S, S = 1 .. n
    PROVE  (CHOOSE d \in S : \A e \in S : d <= e) = 1
<1>1. \A x \in S : (\A e \in S : x <= e) <=> x = 1
  OBVIOUS
<1>2. 1 \in S
  OBVIOUS
<1> QED BY <1>1, <1>2

LEMMA MountShown ==
    ASSUME BInv, NEW a \in DOMAIN Archives \cup {NoData}, mount_initrd(a)
    PROVE  BInv'
<1> DEFINE d == ramdisk_create(ramdisks, a)
           s == sb_alloc(superblocks)
<1>1. /\ booted = "drivers" /\ booted' = "up"
      /\ UNCHANGED <<cpio, cmd, last, dead>>
      /\ IF d = 0 THEN vfs_mount_list' = vfs_mount_list
         ELSE /\ ramdisks' = [ramdisks EXCEPT ![d] = a]
              /\ fs_mountdev(d, "cpiofs", ROOTDIR, cpio_sb_open(a))
  BY DEF mount_initrd
<1>2. /\ ramdisks = [x \in 1 .. RAMDISKS_MAX |-> NoData]
      /\ superblocks = [x \in 1 .. SB_MAX |-> NoSb] /\ vfs_mount_list = <<>>
  BY <1>1 DEF BInv, BootOnce
<1>3. d = 0 \/ (d = 1 /\ a \in DOMAIN Archives)
  <2> DEFINE free == {x \in DOMAIN ramdisks : ramdisks[x] = NoData}
  <2>1. free = 1 .. RAMDISKS_MAX
    BY <1>2
  <2>2. d = IF a = NoData \/ free = {} THEN 0 ELSE CHOOSE x \in free : \A e \in free : x <= e
    BY Zenon DEF ramdisk_create
  <2> HIDE DEF free
  <2>3. (CHOOSE x \in free : \A e \in free : x <= e) = 1
    BY <2>1, FirstOf, VfsAssumption
  <2> QED BY <2>2, <2>3, Zenon
<1>4. s = 1
  <2> DEFINE free == {x \in DOMAIN superblocks : superblocks[x].fs = "none"}
  <2>1. free = 1 .. SB_MAX
    BY <1>2 DEF NoSb
  <2>2. s = IF free = {} THEN 0 ELSE CHOOSE x \in free : \A e \in free : x <= e
    BY Zenon DEF sb_alloc
  <2> HIDE DEF free
  <2>3. (CHOOSE x \in free : \A e \in free : x <= e) = 1
    BY <2>1, FirstOf, VfsAssumption
  <2>4. free # {}
    BY <2>1, VfsAssumption
  <2> QED BY <2>2, <2>3, <2>4, Zenon
<1> HIDE DEF d, s
<1>5. vfs_mount_list' = <<>> \/ Mounted'
  <2>1. CASE d = 0
    BY <1>1, <1>2, <2>1
  <2>2. CASE d = 1 /\ a \in DOMAIN Archives
    <3> DEFINE ok == s # 0 /\ "cpiofs" \in fs_drivers /\ "ramdisk" \in chrdev_drivers
                     /\ cpio_sb_open(a)
    <3>0. d # 0
      BY <2>2
    <3>1. /\ superblocks' = IF ok THEN [superblocks EXCEPT ![s] =
                                   [fs |-> "cpiofs", mpath |-> ROOTDIR, disk |-> d]]
                            ELSE superblocks
          /\ vfs_mount_list' = IF ok THEN Append(vfs_mount_list, s) ELSE vfs_mount_list
          /\ ramdisks' = [ramdisks EXCEPT ![d] = a]
      BY <1>1, <3>0, Zenon DEF fs_mountdev, s
    <3> HIDE DEF ok
    <3>2. CASE ok
      <4>1. vfs_mount_list' = <<1>>
        BY <1>2, <1>4, <3>1, <3>2
      <4>2. ramdisks'[1] = a
        BY <1>2, <2>2, <3>1, VfsAssumption
      <4>3. superblocks' = [superblocks EXCEPT ![1] =
                               [fs |-> "cpiofs", mpath |-> ROOTDIR, disk |-> 1]]
        BY <1>4, <2>2, <3>1, <3>2, Zenon
      <4>4. superblocks'[1] = [fs |-> "cpiofs", mpath |-> ROOTDIR, disk |-> 1]
        BY <1>2, <4>3, VfsAssumption
      <4> QED BY <2>2, <4>1, <4>2, <4>4 DEF Mounted
    <3>3. CASE ~ok
      BY <1>2, <3>1, <3>3
    <3> QED BY <3>2, <3>3
  <2> QED BY <1>3, <2>1, <2>2
<1>6. BootOnce'
  BY <1>1, <1>5, Zenon DEF BootOnce
<1> QED BY <1>1, <1>6, QuietBoot

LEMMA DriversShown == BInv /\ init_drivers => BInv'
<1> SUFFICES ASSUME BInv, init_drivers PROVE BInv'
  OBVIOUS
<1>1. /\ booted = "off" /\ booted' = "drivers" /\ UNCHANGED <<cpio, cmd, last, dead>>
      /\ UNCHANGED <<ramdisks, superblocks, vfs_mount_list>>
  BY DEF init_drivers
<1>2. BootOnce'
  BY <1>1, Zenon DEF BInv, BootOnce
<1> QED BY <1>1, <1>2, QuietBoot

LEMMA InitShown == Init => BInv
<1> SUFFICES ASSUME Init PROVE BInv
  OBVIOUS
<1>1. /\ cmd = Idle /\ last = Idle /\ dead = "no" /\ busy = {}
      /\ DOMAIN hdr = CSlots /\ DOMAIN af = CSlots
      /\ cmd.name = "idle" /\ last.name = "idle"
  BY DEF Init, CpioInit, Idle
<1>2. BootOnce /\ OpenOn
  BY <1>1, Zenon DEF Init, VfsInit, BootOnce, OpenOn
<1>3. Doing /\ Died
  BY <1>1, Zenon DEF Doing, Does, Died
<1>4. ListingExact /\ ShownAll
  BY <1>1, Zenon DEF ListingExact, ShownAll
<1> QED BY <1>2, <1>3, <1>4 DEF BInv

LEMMA StutterShown == BInv /\ UNCHANGED vars => BInv'
<1> SUFFICES ASSUME BInv, UNCHANGED vars PROVE BInv'
  OBVIOUS
<1>1. /\ UNCHANGED vfs /\ busy' = busy /\ hdr' = hdr /\ af' = af /\ pslot' = pslot
      /\ cmd' = cmd /\ last' = last /\ dead' = dead /\ booted' = booted
      /\ ramdisks' = ramdisks /\ superblocks' = superblocks /\ vfs_mount_list' = vfs_mount_list
  BY DEF vars, cpio, fvars, vfs
<1>2. BootOnce'
  BY <1>1, SameDisk, Zenon DEF BInv, BootOnce
<1>3. OpenOn'
  BY <1>1, OpenKept DEF BInv, OpenOn
<1>4. Doing'
  BY <1>1, DoesSame, Zenon DEF BInv, Doing
<1>5. Died'
  <2>1. \A k : Outcome(k)' = Outcome(k)
    BY <1>1, SameGiven
  <2>2. Outcome(hdr[cmd.slot])' = Outcome(hdr[cmd.slot])
    BY <1>1, <2>1
  <2> QED BY <1>1, <2>2, Zenon DEF BInv, Died
<1>6. ListingExact' /\ ShownAll'
  BY <1>1, LastKept DEF BInv
<1> QED BY <1>2, <1>3, <1>4, <1>5, <1>6 DEF BInv

\* BInv holds of every state: what is mounted, which entry each open file is of,
\* and what the command that runs, and the one before it, have read.
THEOREM FilesReadInductive ==
    ASSUME MAX_CPIO_OPEN >= 3, PATH_MAX >= 2
    PROVE  Spec => []BInv
<1>1. FInv /\ BInv /\ Next => BInv'
  <2> SUFFICES ASSUME FInv, BInv, Next PROVE BInv'
    OBVIOUS
  <2>1. CASE Command
    <3>1. CASE \E n \in Names, c \in {"ls", "stat", "xhead"} :
                  CommandOpens(c, n) \/ CommandFails(c, n)
      <4>1. PICK n \in Names, c \in {"ls", "stat", "xhead"} :
                CommandOpens(c, n) \/ CommandFails(c, n)
        BY <3>1
      <4>2. n \in Seq(STRING)
        BY FilesAssumption
      <4> QED BY <4>1, <4>2, CommandOpensShown, CommandFailsShown
    <3>2. CASE \E n \in Names \ {NULL} : RunProgram(n)
      BY <3>2, RunProgramShown
    <3> QED BY <2>1, <3>1, <3>2, LsShown, StatShown, XheadShown DEF Command
  <2>2. CASE Program
    BY <2>2, ProbeShown, LoadBeginsShown, LoadHeaderShown, LoadSegmentShown, StartShown,
       ProcessCloseShown DEF Program
  <2>3. CASE init_drivers
    BY <2>3, DriversShown
  <2>4. CASE \E a \in DOMAIN Archives \cup {NoData} : mount_initrd(a)
    BY <2>4, MountShown
  <2>5. CASE Tick
    BY <2>5, TickShown
  <2> QED BY <2>1, <2>2, <2>3, <2>4, <2>5 DEF Next
<1>2. BInv /\ UNCHANGED vars => BInv'
  BY StutterShown
<1> QED BY <1>1, <1>2, InitShown, FilesInductive, PTL DEF Spec

\* Whatever the archive and the name typed, ls of a directory in an archive that
\* can be walked to its end lists, in order and once each, the entries behind it
\* whose paths begin with its path, and ls of anything else is an error
\* (cpiofs.c 401-438, kshell.c).
THEOREM ListingAlwaysExact ==
    ASSUME MAX_CPIO_OPEN >= 3, PATH_MAX >= 2
    PROVE  Spec => []ListingExact
<1>1. BInv => ListingExact
  BY DEF BInv
<1> QED BY <1>1, FilesReadInductive, PTL

\* xhead shows the file's first 160 bytes and no other, a program that runs was
\* loaded from exactly its segments' bytes, and loading stops the kernel exactly
\* when the file's headers or segments make it (elf.c 90-160, cpiofs.c 378-399).
THEOREM BytesAlwaysExact ==
    ASSUME MAX_CPIO_OPEN >= 3, PATH_MAX >= 2
    PROVE  Spec => []BytesExact
<1>1. FInv /\ BInv => BytesExact
  <2> SUFFICES ASSUME FInv, BInv PROVE BytesExact
    OBVIOUS
  <2>1. last.name = "xhead" /\ last.err = "ok" =>
          LET k == EntryOf(last.arg, ROOTDIR)
              shown == Min2(Disk[k].size, ROWS * ROWBYTES)
          IN  last.out = [r \in 1 .. (shown + ROWBYTES - 1) \div ROWBYTES |->
                  <<DataOff(k) + (r - 1) * ROWBYTES, Min2(ROWBYTES, shown - (r - 1) * ROWBYTES)>>]
    BY Zenon DEF BInv, ShownAll
  <2>2. cmd.name = "load" /\ dead # "no" => dead = Outcome(hdr[cmd.slot])
    BY Zenon DEF BInv, Died
  <2>3. ASSUME cmd.name = "program"
        PROVE  /\ LET k == hdr[pslot]
                      ph == Disk[k].elf.ph
                  IN  \E f \in [1 .. Len(cmd.out) -> 1 .. Len(ph)] :
                        /\ Ascends(f, {j \in 1 .. Len(ph) : ph[j].load})
                        /\ \A m \in 1 .. Len(cmd.out) :
                              cmd.out[m] = <<DataOff(k) + ph[f[m]].off, ph[f[m]].filesz>>
               /\ Outcome(hdr[pslot]) = "no"
    <3>1. pslot \in busy
      BY <2>3 DEF FInv, Held, Stage
    <3>2. PICK k : k = hdr[pslot]
      OBVIOUS
    <3>3. /\ Mounted /\ k \in 1 .. Len(Disk) /\ IsExec(k)
          /\ Fine(k, Len(Disk[k].elf.ph)) /\ Taken(k, cmd.out, Len(Disk[k].elf.ph))
      BY <2>3, <3>1, <3>2, Zenon DEF BInv, OpenOn, Doing, Does
    <3>4. Outcome(k) = "no"
      BY <3>3, OutcomeNone
    <3> QED BY <3>2, <3>3, <3>4, Zenon DEF Taken
  <2> QED BY <2>1, <2>2, <2>3, Zenon DEF BytesExact
<1> QED BY <1>1, FilesInductive, FilesReadInductive, PTL
=============================================================================
