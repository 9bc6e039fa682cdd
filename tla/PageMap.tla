------------------------------- MODULE PageMap ------------------------------
(***************************************************************************)
(* Two-level page maps (kernel/pagemap.c, cpu_pagemap.c) and their use in  *)
(* process_load_path and process_close.  Tables are taken from a pool of   *)
(* PHYSPAGES_MAX pages.  Mapping and unmapping advance one entry per step, *)
(* so that the first timer tick, which replaces the boot shell, can find   *)
(* them half-done.  Sizes wrap like size_t: WORD is what one directory of  *)
(* Entries tables of Entries pages covers, 2^32 for the CPU.               *)
(***************************************************************************)
EXTENDS Integers, Sequences, FiniteSets

CONSTANTS
    PHYSPAGES_MAX,
    Entries, PAGESZ,    \* entries of a table (1 << idx_bits), bytes of a page
    KMAP_MAX,           \* the kernel's pages are 0 .. KMAP_MAX - 1
    USTACK_DFLT, StackPages,
    Programs,           \* sequences of loadable segments [vp, n, w]
    MaxLoads            \* bound: programs loaded

ASSUME PageMapAssumption ==
    /\ {PHYSPAGES_MAX, Entries, PAGESZ, KMAP_MAX, USTACK_DFLT, StackPages, MaxLoads} \subseteq Nat
    /\ PAGESZ > 1 /\ StackPages <= USTACK_DFLT

\* n pages from page vp lie in the directory, above the kernel's.
AboveKernel(vp, n) == vp >= KMAP_MAX /\ n >= 1 /\ vp + n <= Entries * Entries
\* The kernel's pages lie below the stack and below where programs are linked
\* (abi.h 10-13, configure 112-113); no segment is empty.
ASSUME MemoryAssumption ==
    /\ KMAP_MAX \in 1 .. Entries * Entries
    /\ AboveKernel(USTACK_DFLT - StackPages, StackPages)
    /\ \A prog \in Programs :
          /\ prog \in Seq([vp : Nat, n : Nat, w : BOOLEAN])
          /\ \A k \in 1 .. Len(prog) : AboveKernel(prog[k].vp, prog[k].n)

Pages == 1 .. PHYSPAGES_MAX
Idx == 0 .. Entries - 1
kernel_addrspc == 0
Spaces == 0 .. MaxLoads                     \* the kernel's, and one per load
WORD == Entries * Entries * PAGESZ
SIZE_MAX == WORD - 1

VARIABLES
    physpages,  \* pages of the pool in use
    tbl,        \* their contents
    root_entry, \* of each space: its directory, 0 for none
    cr3,        \* the directory in use, 0 while paging is off
    op,         \* the mapping or unmapping that runs
    pc,         \* where the loader stands
    load,       \* program and space of the load
    boot,       \* the boot shell runs, with interrupts enabled
    lost        \* space of the load that the first tick abandoned, or the kernel's

vars == <<physpages, tbl, root_entry, cr3, op, pc, load, boot, lost>>

NoEntry == [p |-> FALSE, to |-> 0, w |-> FALSE, u |-> FALSE]
NoOp == [kind |-> "none"]
pme_pack(to, f) == [p |-> TRUE, to |-> to, w |-> f.w, u |-> f.u]
pme_set_flags(e, f) == [e EXCEPT !.w = @ \/ f.w, !.u = @ \/ f.u]
KFLAGS == [w |-> FALSE, u |-> FALSE]

\* addrspc_map of n pages from page vp, each to itself.
addrspc_map(sp, vp, n, f) == op' = [kind |-> "map", sp |-> sp, vp |-> vp, n |-> n, f |-> f]
addrspc_init(sp) == addrspc_map(sp, 0, KMAP_MAX, KFLAGS)
\* addrspc_cleanup: unmap from address 0, size SIZE_MAX; i and j are offsets[].
addrspc_cleanup(sp) == op' = [kind |-> "unmap", sp |-> sp, i |-> 0, j |-> 0, size |-> SIZE_MAX]

Init ==
    /\ physpages = {} /\ tbl = [g \in Pages |-> [k \in Idx |-> NoEntry]]
    /\ root_entry = [s \in Spaces |-> 0]
    /\ cr3 = 0 /\ op = NoOp
    /\ pc = "off" /\ load = [sp |-> kernel_addrspc, prog |-> <<>>, i |-> 0] /\ boot = TRUE /\ lost = kernel_addrspc

Memory == <<physpages, tbl, root_entry>>
Loader == <<pc, load, boot, lost>>
Quiet == op = NoOp

-----------------------------------------------------------------------------
(* addrspc_map_recursive, one entry at a time *)

Mapping == op.kind = "map"
Dir == root_entry[op.sp]
DirIdx(vp) == vp \div Entries
TblIdx(vp) == vp % Entries
DirEntry == tbl[Dir][DirIdx(op.vp)]

\* Bug: whether the page is in use is not looked at.
physpage_first(g) == \A h \in Pages \ physpages : g <= h
physpage_alloc(g) == g \in Pages \ physpages /\ \A h \in Pages \ physpages : g <= h
TakePage(g) == physpage_alloc(g) /\ physpages' = physpages \cup {g}
Cleared(g) == [tbl EXCEPT ![g] = [k \in Idx |-> NoEntry]]

NewDirectory ==
    /\ Mapping /\ Dir = 0
    /\ \E g \in Pages :
          TakePage(g) /\ tbl' = Cleared(g) /\ root_entry' = [root_entry EXCEPT ![op.sp] = g]
    /\ UNCHANGED <<cr3, op, Loader>>

NewTable ==
    /\ Mapping /\ Dir # 0 /\ ~DirEntry.p
    /\ \E g \in Pages :
          /\ TakePage(g)
          /\ tbl' = [Cleared(g) EXCEPT ![Dir][DirIdx(op.vp)] = pme_pack(g, op.f)]
    /\ UNCHANGED <<root_entry, cr3, op, Loader>>

\* Bug: flags of an earlier mapping of the page are kept.
NewPmeOr(old, vp, f) == IF old.p THEN pme_set_flags(old, f) ELSE pme_pack(vp, f)
\* What a page's entry becomes.
NewPme(old, vp, f) == pme_pack(vp, f)

MapPage ==
    LET t == DirEntry.to
        old == tbl[t][TblIdx(op.vp)]
    IN  /\ Mapping /\ Dir # 0 /\ DirEntry.p
        /\ tbl' = [tbl EXCEPT ![Dir][DirIdx(op.vp)] = pme_set_flags(@, op.f),
                              ![t][TblIdx(op.vp)] = NewPme(old, op.vp, op.f)]
        /\ op' = IF op.n = 1 THEN NoOp ELSE [op EXCEPT !.vp = @ + 1, !.n = @ - 1]
        /\ UNCHANGED <<physpages, root_entry, cr3, Loader>>

\* No page is left for a directory or a table.
OutOfPages == Mapping /\ physpages = Pages /\ (Dir # 0 => ~DirEntry.p)

-----------------------------------------------------------------------------
(* addrspc_unmap_recursive *)

Unmapping == op.kind = "unmap"
\* pme_coversz(lvl) for levels 1 and 2: what the whole table of the entry covers.
pme_coversz == <<WORD % WORD, Entries * PAGESZ>>
Less(size, n) == size - IF n < size THEN n ELSE size
Empty(g) == \A k \in Idx : ~tbl[g][k].p
InDir == Unmapping /\ Dir \in physpages /\ op.i < Entries /\ op.size > 0
UTable == tbl[Dir][op.i].to
InTable == InDir /\ tbl[Dir][op.i].p /\ op.j < Entries /\ op.size > 0

SkipTable ==
    /\ InDir /\ ~tbl[Dir][op.i].p
    /\ op' = [op EXCEPT !.i = @ + 1, !.size = Less(@, pme_coversz[1])]
    /\ UNCHANGED <<Memory, cr3, Loader>>

UnmapPage ==
    /\ InTable
    /\ \/ /\ tbl[UTable][op.j].p
          /\ tbl' = [tbl EXCEPT ![UTable][op.j].p = FALSE]
          /\ op' = [op EXCEPT !.j = @ + 1, !.size = (@ - PAGESZ) % WORD]
       \/ /\ ~tbl[UTable][op.j].p
          /\ op' = [op EXCEPT !.j = @ + 1, !.size = Less(@, pme_coversz[2])]
          /\ UNCHANGED tbl
    /\ UNCHANGED <<physpages, root_entry, cr3, Loader>>

\* Bug: the page of an emptied table is not given back.
physpage_keep(g) == physpages
physpage_free(g) == physpages \ {g}

\* The loop over a table has ended at its last entry or with size 0.
LeaveTable ==
    /\ Unmapping /\ Dir \in physpages /\ op.i < Entries /\ tbl[Dir][op.i].p
    /\ op.j > 0 /\ (op.j = Entries \/ op.size = 0)
    /\ IF Empty(UTable)
       THEN physpages' = physpage_free(UTable) /\ tbl' = [tbl EXCEPT ![Dir][op.i].p = FALSE]
       ELSE UNCHANGED <<physpages, tbl>>
    /\ op' = [op EXCEPT !.i = @ + 1, !.j = 0]
    /\ UNCHANGED <<root_entry, cr3, Loader>>

\* The root entry has no present bit: it stays as it was.  A space without a
\* directory, or whose directory was freed before, has nothing to do.
LeaveDirectory ==
    /\ Unmapping /\ op.j = 0
    /\ Dir \notin physpages \/ op.i = Entries \/ op.size = 0
    /\ physpages' = IF Dir \in physpages /\ Empty(Dir) THEN physpage_free(Dir) ELSE physpages
    /\ op' = NoOp
    /\ UNCHANGED <<tbl, root_entry, cr3, Loader>>

-----------------------------------------------------------------------------
(* Boot, load and close *)

init_pm ==
    /\ pc = "off" /\ pc' = "init_pm"
    /\ addrspc_init(kernel_addrspc)
    /\ UNCHANGED <<Memory, cr3, load, boot, lost>>

init_cpu_pm ==
    /\ pc = "init_pm" /\ Quiet
    /\ cr3' = root_entry[kernel_addrspc]
    /\ pc' = "prompt"
    /\ UNCHANGED <<Memory, op, load, boot, lost>>

process_load_path(prog) ==
    /\ pc = "prompt" /\ load.sp < MaxLoads
    /\ load' = [sp |-> load.sp + 1, prog |-> prog, i |-> 0]
    /\ addrspc_init(load'.sp)
    /\ pc' = "init"
    /\ UNCHANGED <<Memory, cr3, boot, lost>>

LoadStack ==
    /\ pc = "init" /\ Quiet
    /\ cr3' = root_entry[load.sp]
    /\ addrspc_map(load.sp, USTACK_DFLT - StackPages, StackPages, [w |-> TRUE, u |-> TRUE])
    /\ pc' = "load"
    /\ UNCHANGED <<Memory, load, boot, lost>>

LoadSegment ==
    LET seg == load.prog[load.i + 1]
    IN  /\ pc = "load" /\ Quiet /\ load.i < Len(load.prog)
        /\ addrspc_map(load.sp, seg.vp, seg.n, [w |-> seg.w, u |-> TRUE])
        /\ load' = [load EXCEPT !.i = @ + 1]
        /\ UNCHANGED <<Memory, cr3, pc, boot, lost>>

LoadDone ==
    /\ pc = "load" /\ Quiet /\ load.i = Len(load.prog)
    /\ pc' = "run"
    /\ UNCHANGED <<Memory, cr3, op, load, boot, lost>>

\* The error path: before CR3 is set, or after it.  The file may also be
\* missing or no program.
LoadFails ==
    /\ pc \in {"init", "load"}
    /\ OutOfPages \/ (pc = "load" /\ Quiet)
    /\ addrspc_cleanup(load.sp)
    /\ pc' = IF pc = "init" THEN "run" ELSE "undefined"
    /\ UNCHANGED <<Memory, cr3, load, boot, lost>>

\* Bug: the address space is taken apart before another one is in CR3.
process_close_late ==
    /\ pc = "run" /\ Quiet
    /\ addrspc_cleanup(load.sp)
    /\ pc' = "closed" /\ boot' = FALSE
    /\ UNCHANGED <<Memory, cr3, load, lost>>

\* The program has run, or could not.
process_close ==
    /\ pc = "run" /\ Quiet
    /\ cr3' = root_entry[kernel_addrspc]
    /\ addrspc_cleanup(load.sp)
    /\ pc' = "closed" /\ boot' = FALSE
    /\ UNCHANGED <<Memory, load, lost>>

Closed ==
    /\ pc = "closed" /\ Quiet
    /\ pc' = "prompt"
    /\ UNCHANGED <<Memory, cr3, op, load, boot, lost>>

\* The first tick, while the boot shell is at its prompt or loads a program.
Tick ==
    /\ boot /\ pc \in {"prompt", "init", "load"}
    /\ boot' = FALSE /\ pc' = "prompt" /\ op' = NoOp
    /\ lost' = IF pc = "prompt" THEN lost ELSE load.sp
    /\ UNCHANGED <<Memory, cr3, load>>

Next ==
    \/ NewDirectory \/ NewTable \/ MapPage
    \/ SkipTable \/ UnmapPage \/ LeaveTable \/ LeaveDirectory
    \/ init_pm \/ init_cpu_pm \/ (\E prog \in Programs : process_load_path(prog))
    \/ LoadStack \/ LoadSegment \/ LoadDone \/ LoadFails \/ process_close \/ Closed \/ Tick

Spec == Init /\ [][Next]_vars

-----------------------------------------------------------------------------
VPages == 0 .. Entries * Entries - 1
Reach(dir, vp) ==
    LET d == tbl[dir][DirIdx(vp)]
        e == tbl[d.to][TblIdx(vp)]
    IN  IF dir \in physpages /\ d.p /\ d.to \in physpages /\ e.p
        THEN [p |-> TRUE, to |-> e.to, w |-> d.w /\ e.w, u |-> d.u /\ e.u] ELSE NoEntry

KernelIn(dir) ==
    \A vp \in 0 .. KMAP_MAX - 1 : Reach(dir, vp) = pme_pack(vp, KFLAGS)

(* Whatever is in CR3 maps the kernel's pages, to themselves and out of    *)
(* the reach of user mode, through every load, close and abandoned load;   *)
(* the one way to lose them is a load that fails after pm_set_root, which  *)
(* always ends without them (process.c 90, 144, 152).                      *)
KernelMapped ==
    /\ cr3 # 0 /\ pc # "undefined" => KernelIn(cr3)
    /\ pc = "undefined" /\ Quiet => ~KernelIn(cr3)

Live == {kernel_addrspc, lost} \cup IF pc \in {"init", "load", "run"} THEN {load.sp} ELSE {}

\* The pages a space has, each with the place that leads to it.
Links(s) ==
    LET d == root_entry[s]
    IN  IF d \in physpages
        THEN {<<s, Entries, d>>} \cup {<<s, k, tbl[d][k].to>> : k \in {k \in Idx : tbl[d][k].p}}
        ELSE {}

(* Every directory and table of a live address space is a page of the pool *)
(* that is in use, and no page is used twice, by one space or by two, also *)
(* in the middle of mapping and unmapping and after an abandoned load      *)
(* (pagemap.c 20-38, 94-111, 184-208).                                     *)
PagesApart ==
    pc # "undefined" =>
        \A a, b \in UNION {Links(s) : s \in Live} : a[3] \in physpages /\ (a[3] = b[3] => a = b)

(* Between operations no page is in use but the directories and tables of  *)
(* the live address spaces, and a program whose address space could not be *)
(* made has none: closing a program gives all its pages back although the  *)
(* sizes addrspc_unmap counts with are wrong, and unmapping a space twice  *)
(* frees nothing twice (pagemap.c 57-61, 146-208).                         *)
TablesAccounted ==
    Quiet /\ pc # "undefined" =>
        /\ physpages = {a[3] : a \in UNION {Links(s) : s \in Live}}
        /\ pc = "run" /\ cr3 # root_entry[load.sp] => root_entry[load.sp] \notin physpages

Stack == (USTACK_DFLT - StackPages) .. (USTACK_DFLT - 1)
SegsAt(vp) == {k \in 1 .. Len(load.prog) : vp \in load.prog[k].vp .. load.prog[k].vp + load.prog[k].n - 1}

(* A program that runs sees exactly its stack and its segments, each page  *)
(* writable just if the last segment that touches it is (process.c 99-135, *)
(* pagemap.c 77-144).                                                      *)
PermissionsExact ==
    pc = "run" /\ Quiet /\ cr3 = root_entry[load.sp] =>
        \A vp \in VPages \ 0 .. KMAP_MAX - 1 :
            LET s == SegsAt(vp)
                w == IF s = {} THEN TRUE ELSE load.prog[CHOOSE k \in s : \A j \in s : j <= k].w
            IN  Reach(root_entry[load.sp], vp) =
                    IF vp \in Stack \/ s # {} THEN pme_pack(vp, [w |-> w, u |-> TRUE]) ELSE NoEntry
=============================================================================
