---------------------------- MODULE PageMapProofs ---------------------------
(***************************************************************************)
(* TLAPS proofs about the page maps: whatever is in CR3 maps the kernel,   *)
(* no page of the pool is used twice, and a program that runs sees its     *)
(* stack and its segments with their permissions; for every size of the    *)
(* tables and of the pool and for all programs linked above the kernel.    *)
(* Closing a program gives all its pages back, in the code's layout.       *)
(***************************************************************************)
EXTENDS PageMap, WellFoundedInduction, TLAPS

Flags == [w : BOOLEAN, u : BOOLEAN]
PEntry == [p : BOOLEAN, to : Nat, w : BOOLEAN, u : BOOLEAN]
Segment == [vp : Nat, n : Nat, w : BOOLEAN]
Tables == [Pages -> [Idx -> PEntry]]
MapOps == [kind : {"map"}, sp : Spaces, vp : Nat, n : Nat, f : Flags]
Loads == [sp : Spaces, prog : Seq(Segment), i : Nat]
UnmapOps == [kind : {"unmap"}, sp : Spaces, i : Nat, j : Nat, size : Nat]

MTyped ==
    /\ physpages \in SUBSET Pages /\ tbl \in Tables
    /\ root_entry \in [Spaces -> Pages \cup {0}] /\ cr3 \in Pages \cup {0}
    /\ op = NoOp \/ op \in MapOps \/ op \in UnmapOps
    /\ pc \in {"off", "init_pm", "prompt", "init", "load", "run", "closed", "undefined"}
    /\ load \in Loads
    /\ boot \in BOOLEAN /\ lost \in Spaces

-----------------------------------------------------------------------------
(* The order of things: which operation runs where, on which space. *)

Off == pc \in {"off", "init_pm"}
Loading == pc \in {"init", "load", "run", "closed", "undefined"}

\* The stack, and the segments of the program, in the order they are mapped.
Region(ld, k) == IF k = 0 THEN [vp |-> USTACK_DFLT - StackPages, n |-> StackPages, w |-> TRUE]
                 ELSE ld.prog[k]
RegionEnd(ld, k) == Region(ld, k).vp + Region(ld, k).n

Control ==
    /\ Off => load.sp = 0 /\ lost = 0 /\ cr3 = 0
    /\ lost <= load.sp /\ (boot => lost = kernel_addrspc)
    /\ Loading => lost < load.sp
    /\ \A k \in 1 .. Len(load.prog) : AboveKernel(load.prog[k].vp, load.prog[k].n)
    /\ load.i <= Len(load.prog)
    /\ pc = "init" => load.i = 0
    /\ pc = "off" \/ pc = "prompt" => Quiet
    /\ Mapping => \/ pc = "init_pm" /\ op.sp = kernel_addrspc
                  \/ pc \in {"init", "load"} /\ op.sp = load.sp
    /\ Mapping /\ pc # "load" => op.f = KFLAGS /\ op.n >= 1 /\ op.vp + op.n = KMAP_MAX
    /\ Mapping /\ pc = "load" =>
          /\ op.f = [w |-> Region(load, load.i).w, u |-> TRUE] /\ op.n >= 1
          /\ op.vp >= Region(load, load.i).vp /\ op.vp + op.n = RegionEnd(load, load.i)
    /\ Unmapping => pc \in {"run", "closed", "undefined"} /\ op.sp = load.sp

\* Directories of spaces that are not taken apart are in use; the spaces to
\* come have none.
Roots ==
    /\ \A s \in Spaces : s > load.sp => root_entry[s] = 0
    /\ pc = "off" => root_entry[kernel_addrspc] = 0
    /\ \A s \in {kernel_addrspc, lost} : root_entry[s] \in physpages \cup {0}
    /\ pc \in {"init_pm", "init", "load"} => root_entry[load.sp] \in physpages \cup {0}
    /\ pc = "load" => root_entry[load.sp] \in physpages
    /\ pc \in {"init_pm", "init"} /\ root_entry[load.sp] = 0 => Mapping /\ op.vp = 0

-----------------------------------------------------------------------------
(* Who has which page, of pages P with contents T and directories R: place *)
(* Entries of a space is its directory, places 0 .. Entries - 1 its tables.*)

Kept == {kernel_addrspc, lost, load.sp}
Has(P, T, R, s, k) == R[s] \in P /\ (k = Entries \/ T[R[s]][k].p)
At(T, R, s, k) == IF k = Entries THEN R[s] ELSE T[R[s]][k].to
OwnedM(P, T, R, K) ==
    \A s, t \in K, k, l \in 0 .. Entries :
        Has(P, T, R, s, k) =>
            /\ At(T, R, s, k) \in P
            /\ Has(P, T, R, t, l) /\ At(T, R, s, k) = At(T, R, t, l) => s = t /\ k = l
Owned == OwnedM(physpages, tbl, root_entry, Kept)

-----------------------------------------------------------------------------
(* What CR3 holds. *)

ReachM(P, T, d, vp) ==
    LET e == T[d][DirIdx(vp)]
        g == T[e.to][TblIdx(vp)]
    IN  IF d \in P /\ e.p /\ e.to \in P /\ g.p
        THEN [p |-> TRUE, to |-> g.to, w |-> e.w /\ g.w, u |-> e.u /\ g.u] ELSE NoEntry
MapsKernel(P, T, d) == \A vp \in 0 .. KMAP_MAX - 1 : ReachM(P, T, d, vp) = pme_pack(vp, KFLAGS)

OwnCr3 == pc = "load" \/ (pc = "run" /\ cr3 = root_entry[load.sp])
Cr3Kept ==
    ~Off /\ pc # "undefined" =>
        /\ MapsKernel(physpages, tbl, root_entry[kernel_addrspc])
        /\ IF OwnCr3 THEN /\ cr3 = root_entry[load.sp] /\ cr3 \in physpages
                          /\ pc = "run" => Quiet /\ load.i = Len(load.prog)
           ELSE /\ cr3 \in {root_entry[kernel_addrspc], root_entry[lost]}
                /\ MapsKernel(physpages, tbl, cr3)

\* A load that fails with its space in CR3 begins with the kernel's first page.
Undef ==
    pc = "undefined" =>
        /\ cr3 = root_entry[load.sp] /\ ~Mapping
        /\ \/ /\ Unmapping /\ op.i = 0 /\ op.j = 0 /\ op.size = SIZE_MAX
              /\ MapsKernel(physpages, tbl, cr3)
           \/ ~ReachM(physpages, tbl, cr3, 0).p

-----------------------------------------------------------------------------
(* The space that is being made: its directory d has every page mapped     *)
(* that has come up so far, as the last one that mapped it has said.       *)

PageEntry(T, d, vp) == T[T[d][DirIdx(vp)].to][TblIdx(vp)]
Mapped(T, d, vp) == T[d][DirIdx(vp)].p /\ PageEntry(T, d, vp).p
MappedAs(T, d, vp, f) == Mapped(T, d, vp) /\ PageEntry(T, d, vp) = pme_pack(vp, f)

\* The flags of a table's entry include those of its pages.
Includes(e, g) == (g.w => e.w) /\ (g.u => e.u)
Dominates(T, d) ==
    \A k, j \in Idx : T[d][k].p /\ T[T[d][k].to][j].p => Includes(T[d][k], T[T[d][k].to][j])

\* The kernel's pages are mapped up to front, and no other.
KernelPages(T, d, front) ==
    \A vp \in 0 .. KMAP_MAX - 1 :
        IF vp < front THEN MappedAs(T, d, vp, KFLAGS) ELSE ~Mapped(T, d, vp)
NoUser(T, d) == \A vp \in KMAP_MAX .. Entries * Entries - 1 : ~Mapped(T, d, vp)

\* Region k has mapped page vp; the last one has come to page front.
Done(ld, front, k, vp) ==
    vp >= Region(ld, k).vp /\ vp < RegionEnd(ld, k) /\ (k < ld.i \/ vp < front)
LastDone(ld, front, k, vp) ==
    Done(ld, front, k, vp) /\ \A j \in k + 1 .. ld.i : ~Done(ld, front, j, vp)
UserPages(T, d, ld, front) ==
    \A vp \in KMAP_MAX .. Entries * Entries - 1 :
        /\ (\A k \in 0 .. ld.i : ~Done(ld, front, k, vp)) => ~Mapped(T, d, vp)
        /\ \A k \in 0 .. ld.i : LastDone(ld, front, k, vp) =>
                MappedAs(T, d, vp, [w |-> Region(ld, k).w, u |-> TRUE])

KFront == IF Mapping /\ pc # "load" THEN op.vp ELSE KMAP_MAX
UFront == IF Mapping THEN op.vp ELSE Entries * Entries
BuiltM(T, d) ==
    /\ Dominates(T, d) /\ KernelPages(T, d, KFront)
    /\ IF pc \in {"init_pm", "init"} THEN NoUser(T, d) ELSE UserPages(T, d, load, UFront)
Making == pc \in {"init_pm", "init"} \/ OwnCr3
Built == Making /\ root_entry[load.sp] # 0 => BuiltM(tbl, root_entry[load.sp])

MInv == MTyped /\ Control /\ Roots /\ Owned /\ Cr3Kept /\ Undef /\ Built

-----------------------------------------------------------------------------
(* Constants. *)

LEMMA Sizes ==
    /\ Entries \in Nat /\ Entries >= 1 /\ KMAP_MAX \in Nat /\ KMAP_MAX >= 1
    /\ KMAP_MAX <= Entries * Entries /\ Entries * Entries \in Nat
    /\ Entries \notin Idx /\ Idx \subseteq 0 .. Entries /\ Entries \in 0 .. Entries
    /\ MaxLoads \in Nat /\ PHYSPAGES_MAX \in Nat
<1>1. Entries \in Nat /\ KMAP_MAX \in Nat /\ MaxLoads \in Nat /\ PHYSPAGES_MAX \in Nat
      /\ KMAP_MAX \in 1 .. Entries * Entries
  BY PageMapAssumption, MemoryAssumption
<1>2. Entries * Entries \in Nat /\ Entries # 0
  BY <1>1
<1> QED BY <1>1, <1>2 DEF Idx

LEMMA PagesSpaces ==
    /\ 0 \notin Pages /\ kernel_addrspc = 0 /\ kernel_addrspc \in Spaces
    /\ \A s \in Spaces : s \in Nat
    /\ Pages \subseteq Nat
BY Sizes DEF Pages, Spaces, kernel_addrspc

LEMMA SizeMax == SIZE_MAX \in Nat /\ SIZE_MAX > 0 /\ WORD \in Nat /\ WORD > 0
<1>1. PICK m \in Nat : m = Entries * Entries /\ m >= 1
  BY Sizes
<1>2. PAGESZ \in Nat /\ PAGESZ > 1
  BY PageMapAssumption
<1>3. m * PAGESZ \in Nat /\ m * PAGESZ > 1
  BY <1>1, <1>2
<1> QED BY <1>1, <1>3 DEF SIZE_MAX, WORD

\* A page number is the pair of its places in directory and table.
LEMMA Places ==
    ASSUME NEW vp \in VPages
    PROVE  DirIdx(vp) \in Idx /\ TblIdx(vp) \in Idx
<1>1. vp \in Nat /\ vp < Entries * Entries
  BY Sizes DEF VPages
<1>2. vp % Entries \in 0 .. Entries - 1 /\ vp \div Entries \in Nat
  BY <1>1, Sizes
<1>3. vp \div Entries < Entries
  BY <1>1, Sizes
<1> QED BY <1>2, <1>3, Sizes DEF DirIdx, TblIdx, Idx

LEMMA PlacesApart ==
    ASSUME NEW v \in VPages, NEW w \in VPages, DirIdx(v) = DirIdx(w), TblIdx(v) = TblIdx(w)
    PROVE  v = w
<1>1. v \in Nat /\ w \in Nat
  BY Sizes DEF VPages
<1>2. /\ v = (Entries * (v \div Entries)) + (v % Entries)
      /\ w = (Entries * (w \div Entries)) + (w % Entries)
  BY <1>1, Sizes
<1> QED BY <1>2 DEF DirIdx, TblIdx

LEMMA KernelVPages == \A vp \in 0 .. KMAP_MAX - 1 : vp \in VPages
BY Sizes DEF VPages

LEMMA UserVPages == \A vp \in KMAP_MAX .. Entries * Entries - 1 : vp \in VPages
BY Sizes DEF VPages

-----------------------------------------------------------------------------
(* A step on space c leaves the pages of the other spaces alone. *)

Mine(P, T, R, c, x) == \E k \in 0 .. Entries : Has(P, T, R, c, k) /\ At(T, R, c, k) = x
\* Of the pages P with contents T, those that c does not have are in P2 and T2 as they were.
Spared(P, T, R, c, P2, T2) == \A x \in P : ~Mine(P, T, R, c, x) => x \in P2 /\ T2[x] = T[x]

\* Directory d and its tables are as they were.
Untouched(P, T, P2, T2, d) ==
    /\ d \in P2 /\ T2[d] = T[d]
    /\ \A k \in Idx : T[d][k].p =>
          T[d][k].to \in P /\ T[d][k].to \in P2 /\ T2[T[d][k].to] = T[T[d][k].to]

LEMMA OwnedPlace ==
    ASSUME NEW P, NEW T, NEW R, NEW K, OwnedM(P, T, R, K), NEW s \in K, R[s] \in P
    PROVE  \A k \in Idx : T[R[s]][k].p => T[R[s]][k].to \in P /\ T[R[s]][k].to # R[s]
<1> SUFFICES ASSUME NEW k \in Idx, T[R[s]][k].p
             PROVE  T[R[s]][k].to \in P /\ T[R[s]][k].to # R[s]
  OBVIOUS
<1>1. k \in 0 .. Entries /\ k # Entries /\ Entries \in 0 .. Entries
  BY Sizes
<1>2. Has(P, T, R, s, k) /\ Has(P, T, R, s, Entries)
  BY <1>1 DEF Has
<1>3. At(T, R, s, k) = T[R[s]][k].to /\ At(T, R, s, Entries) = R[s]
  BY <1>1 DEF At
<1>4. At(T, R, s, k) \in P
  BY <1>1, <1>2 DEF OwnedM
<1>5. At(T, R, s, k) = At(T, R, s, Entries) => k = Entries
  BY <1>1, <1>2 DEF OwnedM
<1> QED BY <1>1, <1>3, <1>4, <1>5

LEMMA NotMine ==
    ASSUME NEW P, NEW T, NEW R, NEW K, OwnedM(P, T, R, K), NEW c \in K, NEW s \in K, s # c, R[s] \in P
    PROVE  /\ ~Mine(P, T, R, c, R[s])
           /\ \A k \in Idx : T[R[s]][k].p => ~Mine(P, T, R, c, T[R[s]][k].to)
<1>1. \A k \in 0 .. Entries : Has(P, T, R, s, k) => ~Mine(P, T, R, c, At(T, R, s, k))
  BY DEF Mine, OwnedM
<1>2. Has(P, T, R, s, Entries) /\ At(T, R, s, Entries) = R[s]
  BY DEF Has, At
<1>3. ASSUME NEW k \in Idx, T[R[s]][k].p
      PROVE  k \in 0 .. Entries /\ Has(P, T, R, s, k) /\ At(T, R, s, k) = T[R[s]][k].to
  BY <1>3, Sizes DEF Has, At
<1> QED BY <1>1, <1>2, <1>3, Sizes

LEMMA OthersFrame ==
    ASSUME NEW P, NEW T, NEW R, NEW K, NEW P2, NEW T2, OwnedM(P, T, R, K),
           NEW c \in K, NEW s \in K, s # c, R[s] \in P,
           Spared(P, T, R, c, P2, T2)
    PROVE  Untouched(P, T, P2, T2, R[s])
<1>1. ~Mine(P, T, R, c, R[s]) /\ \A k \in Idx : T[R[s]][k].p => ~Mine(P, T, R, c, T[R[s]][k].to)
  BY NotMine
<1>2. \A k \in Idx : T[R[s]][k].p => T[R[s]][k].to \in P
  BY OwnedPlace
<1> QED BY <1>1, <1>2 DEF Spared, Untouched

LEMMA MapsKernelIn ==
    ASSUME NEW P, NEW T, NEW d, MapsKernel(P, T, d)
    PROVE  d \in P /\ T[d][0].p /\ T[d][0].to \in P /\ T[T[d][0].to][0].p
<1>1. 0 \in 0 .. KMAP_MAX - 1 /\ DirIdx(0) = 0 /\ TblIdx(0) = 0
  BY Sizes DEF DirIdx, TblIdx
<1>2. ReachM(P, T, d, 0) = pme_pack(0, KFLAGS)
  BY <1>1 DEF MapsKernel
<1>3. ReachM(P, T, d, 0).p
  BY <1>2 DEF pme_pack
<1> QED BY <1>1, <1>3 DEF ReachM, NoEntry

LEMMA KernelFrame ==
    ASSUME NEW P, NEW T, NEW R, NEW K, NEW P2, NEW T2, OwnedM(P, T, R, K),
           NEW c \in K, NEW s \in K, s # c, MapsKernel(P, T, R[s]),
           Spared(P, T, R, c, P2, T2)
    PROVE  MapsKernel(P2, T2, R[s])
<1>1. R[s] \in P
  BY MapsKernelIn
<1>2. Untouched(P, T, P2, T2, R[s])
  BY <1>1, OthersFrame, Zenon
<1> SUFFICES ASSUME NEW vp \in 0 .. KMAP_MAX - 1
             PROVE  ReachM(P2, T2, R[s], vp) = pme_pack(vp, KFLAGS)
  BY DEF MapsKernel
<1>3. ReachM(P, T, R[s], vp) = pme_pack(vp, KFLAGS)
  BY DEF MapsKernel
<1>4. DirIdx(vp) \in Idx
  BY Places, KernelVPages
<1>5. ReachM(P, T, R[s], vp).p
  BY <1>3 DEF pme_pack
<1>6. T[R[s]][DirIdx(vp)].p
  BY <1>5 DEF ReachM, NoEntry
<1>7. ReachM(P2, T2, R[s], vp) = ReachM(P, T, R[s], vp)
  BY <1>1, <1>2, <1>4, <1>6, Zenon DEF ReachM, Untouched
<1> QED BY <1>3, <1>7

LEMMA OwnedStep ==
    ASSUME NEW P, NEW T, NEW R, NEW K, NEW P2, NEW T2, NEW R2, OwnedM(P, T, R, K), NEW c \in K,
           Spared(P, T, R, c, P2, T2),
           0 \notin P2, \A s \in K : s # c => R2[s] = R[s] /\ R[s] \in P \cup {0},
           \A k \in 0 .. Entries : Has(P2, T2, R2, c, k) =>
                 At(T2, R2, c, k) \in P2 /\ (At(T2, R2, c, k) \notin P \/ Mine(P, T, R, c, At(T2, R2, c, k))),
           \A k, l \in 0 .. Entries :
                 Has(P2, T2, R2, c, k) /\ Has(P2, T2, R2, c, l) /\ At(T2, R2, c, k) = At(T2, R2, c, l) => k = l
    PROVE  OwnedM(P2, T2, R2, K)
<1>1. ASSUME NEW s \in K, s # c, NEW k \in 0 .. Entries, Has(P2, T2, R2, s, k)
      PROVE  /\ Has(P, T, R, s, k) /\ At(T2, R2, s, k) = At(T, R, s, k)
             /\ At(T, R, s, k) \in P /\ At(T, R, s, k) \in P2 /\ ~Mine(P, T, R, c, At(T, R, s, k))
  <2>1. R2[s] = R[s] /\ R[s] \in P
    BY <1>1 DEF Has
  <2>2. Untouched(P, T, P2, T2, R[s])
    BY <1>1, <2>1, OthersFrame
  <2>3. Has(P, T, R, s, k) /\ At(T2, R2, s, k) = At(T, R, s, k)
    BY <1>1, <2>1, <2>2 DEF Has, At, Untouched
  <2>4. At(T, R, s, k) \in P /\ ~Mine(P, T, R, c, At(T, R, s, k))
    BY <1>1, <2>3 DEF OwnedM, Mine
  <2> QED BY <2>3, <2>4 DEF Spared
<1> SUFFICES ASSUME NEW s \in K, NEW t \in K, NEW k \in 0 .. Entries, NEW l \in 0 .. Entries,
                    Has(P2, T2, R2, s, k)
             PROVE  /\ At(T2, R2, s, k) \in P2
                    /\ Has(P2, T2, R2, t, l) /\ At(T2, R2, s, k) = At(T2, R2, t, l) => s = t /\ k = l
  BY DEF OwnedM
<1>2. CASE s = c /\ t = c
  BY <1>2
<1>3. CASE s = c /\ t # c
  BY <1>1, <1>3
<1>4. CASE s # c /\ t = c
  BY <1>1, <1>4
<1>5. CASE s # c /\ t # c
  <2>1. At(T2, R2, s, k) \in P2
    BY <1>1, <1>5
  <2>2. ASSUME Has(P2, T2, R2, t, l), At(T2, R2, s, k) = At(T2, R2, t, l) PROVE s = t /\ k = l
    <3>1. Has(P, T, R, s, k) /\ Has(P, T, R, t, l) /\ At(T, R, s, k) = At(T, R, t, l)
      BY <1>1, <1>5, <2>2
    <3> QED BY <3>1 DEF OwnedM
  <2> QED BY <2>1, <2>2
<1> QED BY <1>2, <1>3, <1>4, <1>5

-----------------------------------------------------------------------------
(* What a step of addrspc_map does to the space that is being made. *)

\* The pages that directory d maps are as they were, but for page v.
SameBut(T, T2, d, v) ==
    \A vp \in VPages : vp # v =>
        /\ Mapped(T2, d, vp) <=> Mapped(T, d, vp)
        /\ Mapped(T, d, vp) => PageEntry(T2, d, vp) = PageEntry(T, d, vp)
\* The tables of directory d are pages of P, other than d and apart.
TablesApart(P, T, d) ==
    /\ \A k \in Idx : T[d][k].p => T[d][k].to \in P /\ T[d][k].to # d
    /\ \A k, l \in Idx : T[d][k].p /\ T[d][l].p /\ T[d][k].to = T[d][l].to => k = l

LEMMA OwnedTables ==
    ASSUME NEW P, NEW T, NEW R, NEW K, OwnedM(P, T, R, K), NEW s \in K, R[s] \in P
    PROVE  TablesApart(P, T, R[s])
<1>1. \A k \in Idx : T[R[s]][k].p => T[R[s]][k].to \in P /\ T[R[s]][k].to # R[s]
  BY OwnedPlace
<1>2. ASSUME NEW k \in Idx, NEW l \in Idx, T[R[s]][k].p, T[R[s]][l].p, T[R[s]][k].to = T[R[s]][l].to
      PROVE  k = l
  <2>1. k \in 0 .. Entries /\ l \in 0 .. Entries /\ k # Entries /\ l # Entries
    BY Sizes
  <2>2. /\ Has(P, T, R, s, k) /\ At(T, R, s, k) = T[R[s]][k].to
        /\ Has(P, T, R, s, l) /\ At(T, R, s, l) = T[R[s]][l].to
    BY <1>2, <2>1 DEF Has, At
  <2> QED BY <1>2, <2>1, <2>2 DEF OwnedM
<1> QED BY <1>1, <1>2 DEF TablesApart

\* MapPage, with the contents before and after.
Writes(T, T2, d, vp, f) ==
    T2 = [T EXCEPT ![d][DirIdx(vp)] = pme_set_flags(@, f),
                   ![T[d][DirIdx(vp)].to][TblIdx(vp)] = pme_pack(vp, f)]

\* Where it has written.
Written(T, T2, d, vp, f) ==
    /\ T2[d][DirIdx(vp)] = pme_set_flags(T[d][DirIdx(vp)], f)
    /\ \A k \in Idx : k # DirIdx(vp) => T2[d][k] = T[d][k]
    /\ T2[T[d][DirIdx(vp)].to][TblIdx(vp)] = pme_pack(vp, f)
    /\ \A j \in Idx : j # TblIdx(vp) => T2[T[d][DirIdx(vp)].to][j] = T[T[d][DirIdx(vp)].to][j]
    /\ \A x \in Pages : x # d /\ x # T[d][DirIdx(vp)].to => T2[x] = T[x]

LEMMA WritesWhere ==
    ASSUME NEW P \in SUBSET Pages, NEW T \in Tables, NEW T2, NEW d \in P, NEW vp \in VPages, NEW f \in Flags,
           TablesApart(P, T, d), T[d][DirIdx(vp)].p, Writes(T, T2, d, vp, f)
    PROVE  T2 \in Tables /\ Written(T, T2, d, vp, f)
<1> DEFINE k0 == DirIdx(vp)
           j0 == TblIdx(vp)
           t == T[d][k0].to
           T1 == [T EXCEPT ![d][k0] = pme_set_flags(@, f)]
<1>1. k0 \in Idx /\ j0 \in Idx /\ d \in Pages
  BY Places
<1>2. t \in Pages /\ t # d
  BY <1>1 DEF TablesApart
<1>3. T[d][k0] \in PEntry /\ T[d] \in [Idx -> PEntry] /\ T[t] \in [Idx -> PEntry]
  BY <1>1, <1>2 DEF Tables
<1>4. pme_set_flags(T[d][k0], f) \in PEntry
  BY <1>3 DEF PEntry, Flags, pme_set_flags
<1>5. vp \in Nat
  BY Sizes DEF VPages
<1>6. pme_pack(vp, f) \in PEntry
  BY <1>5 DEF PEntry, Flags, pme_pack
<1>7. /\ T1 \in Tables /\ T1[d][k0] = pme_set_flags(T[d][k0], f) /\ T1[t] = T[t]
      /\ \A k \in Idx : k # k0 => T1[d][k] = T[d][k]
      /\ \A x \in Pages : x # d => T1[x] = T[x]
  BY <1>1, <1>2, <1>3, <1>4 DEF Tables
<1>8. T2 = [T1 EXCEPT ![t][j0] = pme_pack(vp, f)]
  BY DEF Writes
<1> HIDE DEF T1, k0, j0, t
<1>9. /\ T2 \in Tables /\ T2[t][j0] = pme_pack(vp, f)
      /\ \A j \in Idx : j # j0 => T2[t][j] = T1[t][j]
      /\ \A x \in Pages : x # t => T2[x] = T1[x]
  BY <1>1, <1>2, <1>6, <1>7, <1>8 DEF Tables
<1>10. T2[d] = T1[d] /\ \A j \in Idx : j # j0 => T2[t][j] = T[t][j]
  BY <1>1, <1>2, <1>7, <1>9
<1> QED BY <1>1, <1>2, <1>7, <1>9, <1>10 DEF Written, k0, j0, t

LEMMA WritesPages ==
    ASSUME NEW P \in SUBSET Pages, NEW T \in Tables, NEW T2, NEW d \in P, NEW v \in VPages, NEW f \in Flags,
           TablesApart(P, T, d), T[d][DirIdx(v)].p, Writes(T, T2, d, v, f)
    PROVE  SameBut(T, T2, d, v) /\ MappedAs(T2, d, v, f)
<1> DEFINE k0 == DirIdx(v)
           t == T[d][k0].to
<1>1. /\ T2[d][k0] = pme_set_flags(T[d][k0], f)
      /\ \A k \in Idx : k # k0 => T2[d][k] = T[d][k]
      /\ T2[t][TblIdx(v)] = pme_pack(v, f)
      /\ \A j \in Idx : j # TblIdx(v) => T2[t][j] = T[t][j]
      /\ \A x \in Pages : x # d /\ x # t => T2[x] = T[x]
  <2>1. Written(T, T2, d, v, f)
    BY WritesWhere
  <2> QED BY <2>1 DEF Written
<1>2. k0 \in Idx /\ TblIdx(v) \in Idx /\ T[d][k0] \in PEntry
  BY Places DEF Tables
<1>3. T2[d][k0].p = T[d][k0].p /\ T2[d][k0].to = t
  BY <1>1, <1>2 DEF pme_set_flags, PEntry
<1> HIDE DEF k0, t
<1>4. MappedAs(T2, d, v, f)
  BY <1>1, <1>3 DEF MappedAs, Mapped, PageEntry, pme_pack, k0
<1>5. ASSUME NEW vp \in VPages, vp # v
      PROVE  /\ Mapped(T2, d, vp) <=> Mapped(T, d, vp)
             /\ Mapped(T, d, vp) => PageEntry(T2, d, vp) = PageEntry(T, d, vp)
  <2>1. DirIdx(vp) \in Idx /\ TblIdx(vp) \in Idx
    BY Places
  <2>2. T2[d][DirIdx(vp)].p = T[d][DirIdx(vp)].p /\ T2[d][DirIdx(vp)].to = T[d][DirIdx(vp)].to
    BY <1>1, <1>3, <2>1 DEF t
  <2>3. ASSUME T[d][DirIdx(vp)].p PROVE PageEntry(T2, d, vp) = PageEntry(T, d, vp)
    <3>1. T[d][DirIdx(vp)].to \in Pages /\ T[d][DirIdx(vp)].to # d
      BY <2>1, <2>3 DEF TablesApart
    <3>2. CASE T[d][DirIdx(vp)].to = t
      <4>1. DirIdx(vp) = DirIdx(v)
        BY <1>2, <2>1, <2>3, <3>2 DEF TablesApart, k0, t
      <4>2. TblIdx(vp) # TblIdx(v)
        BY <1>5, <4>1, PlacesApart
      <4> QED BY <1>1, <2>1, <2>2, <3>2, <4>2 DEF PageEntry
    <3>3. CASE T[d][DirIdx(vp)].to # t
      BY <1>1, <2>2, <3>1, <3>3 DEF PageEntry
    <3> QED BY <3>2, <3>3
  <2> QED BY <2>2, <2>3 DEF Mapped
<1> QED BY <1>4, <1>5 DEF SameBut

LEMMA WritesDominates ==
    ASSUME NEW P \in SUBSET Pages, NEW T \in Tables, NEW T2, NEW d \in P, NEW v \in VPages, NEW f \in Flags,
           TablesApart(P, T, d), T[d][DirIdx(v)].p, Writes(T, T2, d, v, f), Dominates(T, d)
    PROVE  Dominates(T2, d)
<1> DEFINE k0 == DirIdx(v)
           t == T[d][k0].to
<1>1. /\ T2[d][k0] = pme_set_flags(T[d][k0], f)
      /\ \A k \in Idx : k # k0 => T2[d][k] = T[d][k]
      /\ T2[t][TblIdx(v)] = pme_pack(v, f)
      /\ \A j \in Idx : j # TblIdx(v) => T2[t][j] = T[t][j]
      /\ \A x \in Pages : x # d /\ x # t => T2[x] = T[x]
  <2>1. Written(T, T2, d, v, f)
    BY WritesWhere
  <2> QED BY <2>1 DEF Written
<1>2. k0 \in Idx /\ TblIdx(v) \in Idx /\ T[d][k0] \in PEntry
  BY Places DEF Tables
<1>3. /\ T2[d][k0].p = T[d][k0].p /\ T2[d][k0].to = t
      /\ T2[d][k0].w = (T[d][k0].w \/ f.w) /\ T2[d][k0].u = (T[d][k0].u \/ f.u)
  BY <1>1, <1>2 DEF pme_set_flags, PEntry
<1> SUFFICES ASSUME NEW k \in Idx, NEW j \in Idx, T2[d][k].p, T2[T2[d][k].to][j].p
             PROVE  Includes(T2[d][k], T2[T2[d][k].to][j])
  BY DEF Dominates
<1>4. CASE k = k0
  <2>1. CASE j = TblIdx(v)
    <3>1. T2[T2[d][k].to][j] = pme_pack(v, f)
      BY <1>1, <1>3, <1>4, <2>1
    <3>2. T2[T2[d][k].to][j].w = f.w /\ T2[T2[d][k].to][j].u = f.u
      BY <3>1 DEF pme_pack
    <3> QED BY <1>3, <1>4, <3>2, Zenon DEF Includes
  <2>2. CASE j # TblIdx(v)
    <3>1. T2[t][j] = T[t][j] /\ T[d][k0].p /\ T[t][j].p
      BY <1>1, <1>3, <1>4, <2>2
    <3>2. Includes(T[d][k0], T[t][j])
      BY <1>2, <3>1 DEF Dominates
    <3> QED BY <1>3, <1>4, <3>1, <3>2 DEF Includes
  <2> QED BY <2>1, <2>2
<1>5. CASE k # k0
  <2>1. T2[d][k] = T[d][k] /\ T[d][k].p
    BY <1>1, <1>5
  <2>2. T[d][k].to \in Pages /\ T[d][k].to # d /\ T[d][k].to # t
    BY <1>2, <1>5, <2>1 DEF TablesApart
  <2>3. T2[T[d][k].to] = T[T[d][k].to]
    BY <1>1, <2>2
  <2> QED BY <2>1, <2>3 DEF Dominates
<1> QED BY <1>4, <1>5

\* NewDirectory and NewTable clear page g, NewTable enters it in directory d.
Clears(T, T2, g) == T2 = [T EXCEPT ![g] = [k \in Idx |-> NoEntry]]
Enters(T, T2, d, k, g, f) == \E T1 : Clears(T, T1, g) /\ T2 = [T1 EXCEPT ![d][k] = pme_pack(g, f)]

LEMMA ClearsWhere ==
    ASSUME NEW T \in Tables, NEW T2, NEW g \in Pages, Clears(T, T2, g)
    PROVE  T2 \in Tables /\ (\A k \in Idx : ~T2[g][k].p) /\ \A x \in Pages : x # g => T2[x] = T[x]
BY DEF Clears, Tables, PEntry, NoEntry

Entered(T, T2, d, k, g, f) ==
    /\ T2[d][k] = pme_pack(g, f)
    /\ \A l \in Idx : l # k => T2[d][l] = T[d][l]
    /\ \A l \in Idx : ~T2[g][l].p
    /\ \A x \in Pages : x # d /\ x # g => T2[x] = T[x]

LEMMA EntersWhere ==
    ASSUME NEW T \in Tables, NEW T2, NEW d \in Pages, NEW g \in Pages, g # d, NEW k \in Idx, NEW f \in Flags,
           Enters(T, T2, d, k, g, f)
    PROVE  T2 \in Tables /\ Entered(T, T2, d, k, g, f)
<1>1. PICK T1 : Clears(T, T1, g) /\ T2 = [T1 EXCEPT ![d][k] = pme_pack(g, f)]
  BY DEF Enters
<1>2. T1 \in Tables /\ (\A l \in Idx : ~T1[g][l].p) /\ \A x \in Pages : x # g => T1[x] = T[x]
  BY <1>1, ClearsWhere
<1>3. pme_pack(g, f) \in PEntry
  BY PagesSpaces DEF PEntry, Flags, pme_pack
<1>4. /\ T2 \in Tables /\ T2[d][k] = pme_pack(g, f)
      /\ \A l \in Idx : l # k => T2[d][l] = T1[d][l]
      /\ \A x \in Pages : x # d => T2[x] = T1[x]
  BY <1>1, <1>2, <1>3 DEF Tables
<1> QED BY <1>2, <1>4 DEF Entered

LEMMA EntersPages ==
    ASSUME NEW P \in SUBSET Pages, NEW T \in Tables, NEW T2, NEW d \in P, NEW g \in Pages \ P, NEW k \in Idx,
           NEW f \in Flags, TablesApart(P, T, d), ~T[d][k].p, Enters(T, T2, d, k, g, f)
    PROVE  SameBut(T, T2, d, -1) /\ (Dominates(T, d) => Dominates(T2, d))
<1>1. /\ T2[d][k] = pme_pack(g, f)
      /\ \A l \in Idx : l # k => T2[d][l] = T[d][l]
      /\ \A l \in Idx : ~T2[g][l].p
      /\ \A x \in Pages : x # d /\ x # g => T2[x] = T[x]
  <2>1. Entered(T, T2, d, k, g, f)
    BY EntersWhere
  <2> QED BY <2>1 DEF Entered
<1>2. T2[d][k].p /\ T2[d][k].to = g
  BY <1>1 DEF pme_pack
<1>3. ASSUME NEW l \in Idx, l # k, T[d][l].p
      PROVE  T2[d][l] = T[d][l] /\ T2[T[d][l].to] = T[T[d][l].to]
  BY <1>1, <1>3 DEF TablesApart
<1>4. ASSUME NEW vp \in VPages
      PROVE  /\ Mapped(T2, d, vp) <=> Mapped(T, d, vp)
             /\ Mapped(T, d, vp) => PageEntry(T2, d, vp) = PageEntry(T, d, vp)
  <2>1. DirIdx(vp) \in Idx /\ TblIdx(vp) \in Idx
    BY Places
  <2>2. CASE DirIdx(vp) = k
    BY <1>1, <1>2, <2>1, <2>2 DEF Mapped, PageEntry
  <2>3. CASE DirIdx(vp) # k
    BY <1>1, <1>3, <2>1, <2>3 DEF Mapped, PageEntry
  <2> QED BY <2>2, <2>3
<1>5. ASSUME Dominates(T, d), NEW l \in Idx, NEW j \in Idx, T2[d][l].p, T2[T2[d][l].to][j].p
      PROVE  Includes(T2[d][l], T2[T2[d][l].to][j])
  <2>1. l # k
    BY <1>1, <1>2, <1>5
  <2>2. T2[d][l] = T[d][l] /\ T[d][l].p
    BY <1>1, <1>5, <2>1
  <2>3. T2[T[d][l].to] = T[T[d][l].to]
    BY <1>3, <2>1, <2>2
  <2> QED BY <1>5, <2>2, <2>3 DEF Dominates
<1>6. Dominates(T, d) => Dominates(T2, d)
  BY <1>5 DEF Dominates
<1> QED BY <1>4, <1>6 DEF SameBut

LEMMA ClearsPages ==
    ASSUME NEW T \in Tables, NEW T2, NEW g \in Pages, Clears(T, T2, g)
    PROVE  Dominates(T2, g) /\ KernelPages(T2, g, 0) /\ NoUser(T2, g)
<1>1. \A k \in Idx : ~T2[g][k].p
  BY ClearsWhere
<1>2. \A vp \in VPages : ~Mapped(T2, g, vp)
  BY <1>1, Places DEF Mapped
<1>3. KernelPages(T2, g, 0)
  BY <1>2, KernelVPages, Sizes DEF KernelPages
<1> QED BY <1>1, <1>2, <1>3, UserVPages DEF Dominates, NoUser

-----------------------------------------------------------------------------
(* The fronts. *)

LEMMA SameMappedAs ==
    ASSUME NEW T, NEW T2, NEW d, NEW v, SameBut(T, T2, d, v), NEW vp \in VPages, vp # v, NEW f
    PROVE  MappedAs(T, d, vp, f) => MappedAs(T2, d, vp, f)
BY DEF SameBut, MappedAs

LEMMA KernelPagesKept ==
    ASSUME NEW T, NEW T2, NEW d, NEW v, SameBut(T, T2, d, v), v \notin 0 .. KMAP_MAX - 1, NEW front,
           KernelPages(T, d, front)
    PROVE  KernelPages(T2, d, front)
<1> SUFFICES ASSUME NEW vp \in 0 .. KMAP_MAX - 1
             PROVE  IF vp < front THEN MappedAs(T2, d, vp, KFLAGS) ELSE ~Mapped(T2, d, vp)
  BY DEF KernelPages
<1>1. vp \in VPages /\ vp # v
  BY KernelVPages
<1>2. IF vp < front THEN MappedAs(T, d, vp, KFLAGS) ELSE ~Mapped(T, d, vp)
  BY DEF KernelPages
<1>3. MappedAs(T, d, vp, KFLAGS) => MappedAs(T2, d, vp, KFLAGS)
  BY <1>1, SameMappedAs
<1>4. ~Mapped(T, d, vp) => ~Mapped(T2, d, vp)
  BY <1>1 DEF SameBut
<1> QED BY <1>2, <1>3, <1>4

LEMMA KernelPagesNext ==
    ASSUME NEW T, NEW T2, NEW d, NEW v \in Nat, SameBut(T, T2, d, v), MappedAs(T2, d, v, KFLAGS),
           KernelPages(T, d, v)
    PROVE  KernelPages(T2, d, v + 1)
<1> SUFFICES ASSUME NEW vp \in 0 .. KMAP_MAX - 1
             PROVE  IF vp < v + 1 THEN MappedAs(T2, d, vp, KFLAGS) ELSE ~Mapped(T2, d, vp)
  BY DEF KernelPages
<1>1. vp \in VPages /\ vp \in Nat
  BY KernelVPages, Sizes
<1>2. IF vp < v THEN MappedAs(T, d, vp, KFLAGS) ELSE ~Mapped(T, d, vp)
  BY DEF KernelPages
<1>3. CASE vp # v
  <2>1. MappedAs(T, d, vp, KFLAGS) => MappedAs(T2, d, vp, KFLAGS)
    BY <1>1, <1>3, SameMappedAs
  <2>2. ~Mapped(T, d, vp) => ~Mapped(T2, d, vp)
    BY <1>1, <1>3 DEF SameBut
  <2>3. (vp < v + 1) <=> (vp < v)
    BY <1>1, <1>3
  <2> QED BY <1>2, <2>1, <2>2, <2>3
<1>4. CASE vp = v
  BY <1>1, <1>4
<1> QED BY <1>3, <1>4

LEMMA NoUserKept ==
    ASSUME NEW T, NEW T2, NEW d, NEW v, SameBut(T, T2, d, v), v \notin KMAP_MAX .. Entries * Entries - 1,
           NoUser(T, d)
    PROVE  NoUser(T2, d)
BY UserVPages DEF NoUser, SameBut

LEMMA UserPagesKept ==
    ASSUME NEW T, NEW T2, NEW d, NEW v, SameBut(T, T2, d, v), v \notin KMAP_MAX .. Entries * Entries - 1,
           NEW ld, NEW front, UserPages(T, d, ld, front)
    PROVE  UserPages(T2, d, ld, front)
<1> SUFFICES ASSUME NEW vp \in KMAP_MAX .. Entries * Entries - 1
             PROVE  /\ (\A k \in 0 .. ld.i : ~Done(ld, front, k, vp)) => ~Mapped(T2, d, vp)
                    /\ \A k \in 0 .. ld.i : LastDone(ld, front, k, vp) =>
                            MappedAs(T2, d, vp, [w |-> Region(ld, k).w, u |-> TRUE])
  BY DEF UserPages
<1>1. vp \in VPages /\ vp # v
  BY UserVPages
<1>2. ~Mapped(T, d, vp) => ~Mapped(T2, d, vp)
  BY <1>1 DEF SameBut
<1>3. \A f : MappedAs(T, d, vp, f) => MappedAs(T2, d, vp, f)
  BY <1>1, SameMappedAs
<1> QED BY <1>2, <1>3 DEF UserPages

\* The regions are done with the same pages for two loads and fronts.
SameDone(ld, front, ld2, front2, vp) ==
    /\ \A k \in 0 .. ld.i : Done(ld2, front2, k, vp) <=> Done(ld, front, k, vp)
    /\ \A k \in 0 .. ld.i : Region(ld2, k) = Region(ld, k)
    /\ \A k \in ld.i + 1 .. ld2.i : ~Done(ld2, front2, k, vp)

LEMMA UserPageSame ==
    ASSUME NEW T, NEW d, NEW ld, NEW front, NEW ld2, NEW front2, NEW vp,
           ld.i \in Nat, ld2.i \in Nat, ld.i <= ld2.i, SameDone(ld, front, ld2, front2, vp),
           (\A k \in 0 .. ld.i : ~Done(ld, front, k, vp)) => ~Mapped(T, d, vp),
           \A k \in 0 .. ld.i : LastDone(ld, front, k, vp) =>
                MappedAs(T, d, vp, [w |-> Region(ld, k).w, u |-> TRUE])
    PROVE  /\ (\A k \in 0 .. ld2.i : ~Done(ld2, front2, k, vp)) => ~Mapped(T, d, vp)
           /\ \A k \in 0 .. ld2.i : LastDone(ld2, front2, k, vp) =>
                MappedAs(T, d, vp, [w |-> Region(ld2, k).w, u |-> TRUE])
<1>1. \A k \in 0 .. ld.i : k \in 0 .. ld2.i
  OBVIOUS
<1>2. (\A k \in 0 .. ld2.i : ~Done(ld2, front2, k, vp)) => ~Mapped(T, d, vp)
  BY <1>1 DEF SameDone
<1>3. ASSUME NEW k \in 0 .. ld2.i, LastDone(ld2, front2, k, vp)
      PROVE  MappedAs(T, d, vp, [w |-> Region(ld2, k).w, u |-> TRUE])
  <2>1. Done(ld2, front2, k, vp) /\ \A j \in k + 1 .. ld2.i : ~Done(ld2, front2, j, vp)
    BY <1>3 DEF LastDone
  <2>2. k \in 0 .. ld.i
    BY <2>1 DEF SameDone
  <2>3. \A j \in k + 1 .. ld.i : j \in k + 1 .. ld2.i /\ j \in 0 .. ld.i
    BY <2>2
  <2>4. LastDone(ld, front, k, vp)
    BY <2>1, <2>2, <2>3 DEF LastDone, SameDone
  <2> QED BY <2>2, <2>4 DEF SameDone
<1> QED BY <1>2, <1>3

LEMMA RegionType ==
    ASSUME NEW ld \in Loads, ld.i <= Len(ld.prog), NEW k \in 0 .. ld.i
    PROVE  /\ Region(ld, k) \in Segment
           /\ Region(ld, k).vp \in Nat /\ Region(ld, k).n \in Nat /\ RegionEnd(ld, k) \in Nat
<1>1. Region(ld, k) \in Segment
  <2>1. CASE k = 0
    BY <2>1, PageMapAssumption DEF Region, Segment
  <2>2. CASE k # 0
    BY <2>2 DEF Region, Loads
  <2> QED BY <2>1, <2>2
<1> QED BY <1>1 DEF Segment, RegionEnd

\* The page at the front is mapped, and the front moves on.
LEMMA UserPagesNext ==
    ASSUME NEW T, NEW T2, NEW d, NEW v \in KMAP_MAX .. Entries * Entries - 1, NEW ld \in Loads,
           ld.i <= Len(ld.prog), SameBut(T, T2, d, v),
           MappedAs(T2, d, v, [w |-> Region(ld, ld.i).w, u |-> TRUE]),
           v >= Region(ld, ld.i).vp, v < RegionEnd(ld, ld.i), UserPages(T, d, ld, v)
    PROVE  UserPages(T2, d, ld, v + 1)
<1>1. ld.i \in Nat /\ v \in Nat /\ ld.i \in 0 .. ld.i
  BY Sizes DEF Loads
<1> SUFFICES ASSUME NEW vp \in KMAP_MAX .. Entries * Entries - 1
             PROVE  /\ (\A k \in 0 .. ld.i : ~Done(ld, v + 1, k, vp)) => ~Mapped(T2, d, vp)
                    /\ \A k \in 0 .. ld.i : LastDone(ld, v + 1, k, vp) =>
                            MappedAs(T2, d, vp, [w |-> Region(ld, k).w, u |-> TRUE])
  BY DEF UserPages
<1>2. vp \in VPages /\ vp \in Nat
  BY UserVPages, Sizes
<1>3. CASE vp # v
  <2>1. SameDone(ld, v, ld, v + 1, vp)
    <3>1. (vp < v + 1) <=> (vp < v)
      BY <1>1, <1>2, <1>3
    <3> QED BY <1>1, <3>1 DEF SameDone, Done
  <2>2. /\ (\A k \in 0 .. ld.i : ~Done(ld, v, k, vp)) => ~Mapped(T, d, vp)
        /\ \A k \in 0 .. ld.i : LastDone(ld, v, k, vp) =>
                MappedAs(T, d, vp, [w |-> Region(ld, k).w, u |-> TRUE])
    BY DEF UserPages
  <2>3. /\ (\A k \in 0 .. ld.i : ~Done(ld, v + 1, k, vp)) => ~Mapped(T, d, vp)
        /\ \A k \in 0 .. ld.i : LastDone(ld, v + 1, k, vp) =>
                MappedAs(T, d, vp, [w |-> Region(ld, k).w, u |-> TRUE])
    BY <1>1, <2>1, <2>2, UserPageSame
  <2>4. ~Mapped(T, d, vp) => ~Mapped(T2, d, vp)
    BY <1>2, <1>3 DEF SameBut
  <2>5. \A f : MappedAs(T, d, vp, f) => MappedAs(T2, d, vp, f)
    BY <1>2, <1>3, SameMappedAs
  <2> QED BY <2>3, <2>4, <2>5
<1>4. CASE vp = v
  <2>1. Done(ld, v + 1, ld.i, vp)
    BY <1>1, <1>4 DEF Done
  <2>2. ASSUME NEW k \in 0 .. ld.i, LastDone(ld, v + 1, k, vp) PROVE k = ld.i
    <3>1. CASE k # ld.i
      <4>1. ld.i \in k + 1 .. ld.i
        BY <1>1, <3>1
      <4> QED BY <2>1, <2>2, <4>1 DEF LastDone
    <3> QED BY <3>1
  <2> QED BY <1>1, <1>4, <2>1, <2>2
<1> QED BY <1>3, <1>4

\* With the last page of its region mapped, nothing is left.
LEMMA UserPagesEnd ==
    ASSUME NEW T, NEW d, NEW ld \in Loads, ld.i <= Len(ld.prog), NEW front \in Nat,
           front = RegionEnd(ld, ld.i), UserPages(T, d, ld, front)
    PROVE  UserPages(T, d, ld, Entries * Entries)
<1>1. ld.i \in Nat /\ Entries * Entries \in Nat
  BY Sizes DEF Loads
<1> DEFINE last == Entries * Entries
<1>2. last \in Nat
  BY <1>1
<1> HIDE DEF last
<1> SUFFICES ASSUME NEW vp \in KMAP_MAX .. Entries * Entries - 1
             PROVE  /\ (\A k \in 0 .. ld.i : ~Done(ld, last, k, vp)) => ~Mapped(T, d, vp)
                    /\ \A k \in 0 .. ld.i : LastDone(ld, last, k, vp) =>
                            MappedAs(T, d, vp, [w |-> Region(ld, k).w, u |-> TRUE])
  BY DEF UserPages, last
<1>3. vp \in Nat /\ vp < last
  BY <1>1, Sizes DEF last
<1>4. ASSUME NEW k \in 0 .. ld.i PROVE Done(ld, last, k, vp) <=> Done(ld, front, k, vp)
  <2>1. k < ld.i \/ k = ld.i
    BY <1>1
  <2> QED BY <1>3, <2>1 DEF Done
<1>5. SameDone(ld, front, ld, last, vp)
  BY <1>1, <1>4 DEF SameDone
<1>6. /\ (\A k \in 0 .. ld.i : ~Done(ld, front, k, vp)) => ~Mapped(T, d, vp)
      /\ \A k \in 0 .. ld.i : LastDone(ld, front, k, vp) =>
            MappedAs(T, d, vp, [w |-> Region(ld, k).w, u |-> TRUE])
  BY DEF UserPages
<1>7. ld.i <= ld.i
  BY <1>1
<1> QED BY <1>1, <1>5, <1>6, <1>7, UserPageSame

\* The next segment begins, with nothing of it mapped.
LEMMA UserPagesSegment ==
    ASSUME NEW T, NEW d, NEW ld \in Loads, NEW ld2 \in Loads, ld2.prog = ld.prog, ld2.i = ld.i + 1,
           ld2.i <= Len(ld.prog), UserPages(T, d, ld, Entries * Entries)
    PROVE  UserPages(T, d, ld2, Region(ld2, ld2.i).vp)
<1> DEFINE last == Entries * Entries
           front == Region(ld2, ld2.i).vp
<1>1. ld.i \in Nat /\ ld2.i \in Nat /\ last \in Nat /\ ld2.i = ld.i + 1
  BY Sizes DEF Loads
<1>2. front \in Nat
  BY <1>1, RegionType
<1>3. \A k \in 0 .. ld.i : Region(ld2, k) = Region(ld, k) /\ RegionEnd(ld2, k) = RegionEnd(ld, k)
  BY DEF Region, RegionEnd
<1>4. \A vp \in KMAP_MAX .. Entries * Entries - 1 : vp \in Nat /\ vp < last
  BY Sizes
<1> HIDE DEF last
<1> SUFFICES ASSUME NEW vp \in KMAP_MAX .. Entries * Entries - 1
             PROVE  /\ (\A k \in 0 .. ld2.i : ~Done(ld2, front, k, vp)) => ~Mapped(T, d, vp)
                    /\ \A k \in 0 .. ld2.i : LastDone(ld2, front, k, vp) =>
                            MappedAs(T, d, vp, [w |-> Region(ld2, k).w, u |-> TRUE])
  BY DEF UserPages
<1> HIDE DEF front
<1>5. vp \in Nat /\ vp < last
  BY <1>4
<1>6. ASSUME NEW k \in 0 .. ld.i PROVE Done(ld2, front, k, vp) <=> Done(ld, last, k, vp)
  <2>1. k < ld2.i
    BY <1>1
  <2> QED BY <1>3, <1>5, <2>1 DEF Done
<1>7. ASSUME NEW k \in ld.i + 1 .. ld2.i PROVE ~Done(ld2, front, k, vp)
  <2>1. k = ld2.i /\ ~(k < ld2.i)
    BY <1>1
  <2> QED BY <1>2, <1>5, <2>1 DEF Done, front
<1>8. SameDone(ld, last, ld2, front, vp)
  BY <1>3, <1>6, <1>7 DEF SameDone
<1>9. /\ (\A k \in 0 .. ld.i : ~Done(ld, last, k, vp)) => ~Mapped(T, d, vp)
      /\ \A k \in 0 .. ld.i : LastDone(ld, last, k, vp) =>
            MappedAs(T, d, vp, [w |-> Region(ld, k).w, u |-> TRUE])
  BY DEF UserPages, last
<1>10. ld.i <= ld2.i
  BY <1>1
<1> QED BY <1>1, <1>8, <1>9, <1>10, UserPageSame

\* The stack begins, with no user page mapped.
LEMMA UserPagesStack ==
    ASSUME NEW T, NEW d, NEW ld \in Loads, ld.i = 0, NoUser(T, d)
    PROVE  UserPages(T, d, ld, USTACK_DFLT - StackPages)
<1>1. Region(ld, 0).vp = USTACK_DFLT - StackPages /\ USTACK_DFLT - StackPages \in Nat
  BY PageMapAssumption DEF Region
<1> SUFFICES ASSUME NEW vp \in KMAP_MAX .. Entries * Entries - 1
             PROVE  /\ ~Mapped(T, d, vp)
                    /\ \A k \in 0 .. ld.i : ~Done(ld, USTACK_DFLT - StackPages, k, vp)
  BY DEF UserPages, LastDone
<1>2. ~Mapped(T, d, vp)
  BY DEF NoUser
<1>3. ASSUME NEW k \in 0 .. ld.i PROVE ~Done(ld, USTACK_DFLT - StackPages, k, vp)
  <2>1. k = 0 /\ vp \in Nat
    BY Sizes
  <2> QED BY <1>1, <2>1 DEF Done
<1> QED BY <1>2, <1>3

\* With all kernel pages mapped a directory will do for CR3.
LEMMA BuiltMaps ==
    ASSUME NEW P, NEW T, NEW d \in P, TablesApart(P, T, d), KernelPages(T, d, KMAP_MAX)
    PROVE  MapsKernel(P, T, d)
<1> SUFFICES ASSUME NEW vp \in 0 .. KMAP_MAX - 1
             PROVE  ReachM(P, T, d, vp) = pme_pack(vp, KFLAGS)
  BY DEF MapsKernel
<1>1. DirIdx(vp) \in Idx
  BY Places, KernelVPages
<1>2. MappedAs(T, d, vp, KFLAGS)
  BY Sizes DEF KernelPages
<1>3. T[d][DirIdx(vp)].p /\ PageEntry(T, d, vp) = pme_pack(vp, KFLAGS)
  BY <1>2 DEF MappedAs, Mapped
<1>4. T[d][DirIdx(vp)].to \in P
  BY <1>1, <1>3 DEF TablesApart
<1>5. LET g == PageEntry(T, d, vp) IN g.p /\ g.to = vp /\ ~g.w /\ ~g.u
  BY <1>3 DEF pme_pack, KFLAGS
<1> DEFINE e == T[d][DirIdx(vp)]
           g == PageEntry(T, d, vp)
<1>6. ReachM(P, T, d, vp) = [p |-> TRUE, to |-> g.to, w |-> e.w /\ g.w, u |-> e.u /\ g.u]
  BY <1>3, <1>4, <1>5 DEF ReachM, PageEntry
<1>7. (e.w /\ g.w) = FALSE /\ (e.u /\ g.u) = FALSE /\ g.to = vp
  BY <1>5
<1>8. ReachM(P, T, d, vp) = [p |-> TRUE, to |-> vp, w |-> FALSE, u |-> FALSE]
  BY <1>6, <1>7, Zenon
<1>9. KFLAGS.w = FALSE /\ KFLAGS.u = FALSE
  BY DEF KFLAGS
<1> QED BY <1>8, <1>9, Zenon DEF pme_pack

-----------------------------------------------------------------------------
(* Types and the order of things. *)

LEMMA OpTypes ==
    ASSUME MTyped
    PROVE  /\ Mapping => /\ op \in MapOps /\ ~Unmapping /\ ~Quiet
                         /\ op.sp \in Spaces /\ op.vp \in Nat /\ op.n \in Nat /\ op.f \in Flags
           /\ Unmapping => /\ op \in UnmapOps /\ ~Mapping /\ ~Quiet
                           /\ op.sp \in Spaces /\ op.i \in Nat /\ op.j \in Nat /\ op.size \in Nat
           /\ Quiet => ~Mapping /\ ~Unmapping
           /\ Mapping \/ Unmapping \/ Quiet
BY DEF MTyped, Mapping, Unmapping, Quiet, NoOp, MapOps, UnmapOps

\* The operation that runs works on the space of the load.
LEMMA OpSpace ==
    ASSUME MTyped, Control, Mapping \/ Unmapping
    PROVE  op.sp = load.sp
BY DEF Control, Off, kernel_addrspc

LEMMA LoadTypes ==
    ASSUME MTyped, Control
    PROVE  /\ load \in Loads /\ load.sp \in Spaces /\ load.sp \in Nat /\ load.i \in Nat /\ load.prog \in Seq(Segment)
           /\ load.i <= Len(load.prog) /\ load.i \in 0 .. load.i
           /\ lost \in Spaces /\ lost \in Nat
<1>1. load \in Loads /\ lost \in Spaces /\ load.i <= Len(load.prog)
  BY DEF MTyped, Control
<1>2. load.sp \in Spaces /\ load.i \in Nat /\ load.prog \in Seq(Segment)
  BY <1>1 DEF Loads
<1>3. load.i \in 0 .. load.i
  BY <1>2
<1> QED BY <1>1, <1>2, <1>3, PagesSpaces

LEMMA RegionAbove ==
    ASSUME MTyped, Control, NEW k \in 0 .. load.i
    PROVE  /\ Region(load, k).vp \in Nat /\ Region(load, k).n \in Nat /\ RegionEnd(load, k) \in Nat
           /\ Region(load, k).vp >= KMAP_MAX /\ Region(load, k).n >= 1 /\ RegionEnd(load, k) <= Entries * Entries
<1>1. Region(load, k).vp \in Nat /\ Region(load, k).n \in Nat /\ RegionEnd(load, k) \in Nat
  BY LoadTypes, RegionType
<1>2. CASE k = 0
  BY <1>1, <1>2, MemoryAssumption DEF Region, RegionEnd, AboveKernel
<1>3. CASE k # 0
  <2>1. k \in 1 .. Len(load.prog)
    BY <1>3, LoadTypes
  <2>2. AboveKernel(load.prog[k].vp, load.prog[k].n)
    BY <2>1 DEF Control
  <2> QED BY <1>1, <1>3, <2>2 DEF Region, RegionEnd, AboveKernel
<1> QED BY <1>1, <1>2, <1>3

\* The page that comes up is one of the kernel's or one of the region's.
LEMMA MapVPage ==
    ASSUME MTyped, Control, Mapping
    PROVE  /\ op.vp \in VPages
           /\ pc # "load" => op.vp \in 0 .. KMAP_MAX - 1
           /\ pc = "load" => /\ op.vp \in KMAP_MAX .. Entries * Entries - 1
                             /\ op.vp >= Region(load, load.i).vp /\ op.vp < RegionEnd(load, load.i)
<1>1. op.vp \in Nat /\ op.n \in Nat
  BY OpTypes
<1>2. CASE pc # "load"
  <2>1. op.n >= 1 /\ op.vp + op.n = KMAP_MAX
    BY <1>2 DEF Control
  <2>2. op.vp \in 0 .. KMAP_MAX - 1
    BY <1>1, <2>1, Sizes
  <2> QED BY <1>2, <2>2, KernelVPages
<1>3. CASE pc = "load"
  <2>1. op.n >= 1 /\ op.vp >= Region(load, load.i).vp /\ op.vp + op.n = RegionEnd(load, load.i)
    BY <1>3 DEF Control
  <2>2. /\ Region(load, load.i).vp \in Nat /\ RegionEnd(load, load.i) \in Nat
        /\ Region(load, load.i).vp >= KMAP_MAX /\ RegionEnd(load, load.i) <= Entries * Entries
    BY RegionAbove, LoadTypes
  <2>3. op.vp < RegionEnd(load, load.i)
    BY <1>1, <2>1, <2>2
  <2>4. op.vp \in KMAP_MAX .. Entries * Entries - 1
    <3>1. Entries * Entries \in Nat /\ KMAP_MAX \in Nat
      BY Sizes
    <3> QED BY <1>1, <2>1, <2>2, <2>3, <3>1
  <2> QED BY <1>3, <2>1, <2>3, <2>4, UserVPages
<1> QED BY <1>2, <1>3

LEMMA Unmaps ==
    ASSUME MTyped, Control, Owned, Unmapping, Dir \in physpages
    PROVE  /\ Dir = root_entry[load.sp] /\ Dir \in Pages /\ TablesApart(physpages, tbl, Dir)
<1>1. op.sp = load.sp /\ load.sp \in Kept
  BY OpSpace DEF Kept
<1> QED BY <1>1, OwnedTables DEF Owned, Dir, MTyped

LEMMA TypedInit == Init => MTyped
<1> SUFFICES ASSUME Init PROVE MTyped
  OBVIOUS
<1>1. NoEntry \in PEntry
  BY DEF NoEntry, PEntry
<1>2. load \in Loads
  BY PagesSpaces DEF Init, Loads
<1>3. tbl \in Tables
  BY <1>1 DEF Init, Tables
<1>4. root_entry \in [Spaces -> Pages \cup {0}]
  BY DEF Init
<1> QED BY <1>2, <1>3, <1>4, PagesSpaces DEF Init, MTyped

\* The entries that unmapping writes keep their type.
BitCleared(T, T2, x, j) ==
    /\ \A y \in Pages : y # x => T2[y] = T[y]
    /\ \A k \in Idx : k # j => T2[x][k] = T[x][k]
    /\ T2[x][j].p = FALSE /\ T2[x][j].to = T[x][j].to
LEMMA ClearBit ==
    ASSUME NEW T \in Tables, NEW x \in Pages, NEW j \in Idx, NEW T2, T2 = [T EXCEPT ![x][j].p = FALSE]
    PROVE  T2 \in Tables /\ BitCleared(T, T2, x, j)
<1> DEFINE e == [T[x][j] EXCEPT !.p = FALSE]
           f == [T[x] EXCEPT ![j] = e]
<1>1. T[x] \in [Idx -> PEntry] /\ T[x][j] \in PEntry
  BY DEF Tables
<1>2. e \in PEntry /\ e.p = FALSE /\ e.to = T[x][j].to
  BY <1>1 DEF PEntry
<1>3. T2 = [T EXCEPT ![x] = f]
  OBVIOUS
<1> HIDE DEF e
<1>4. f \in [Idx -> PEntry] /\ f[j] = e /\ \A k \in Idx : k # j => f[k] = T[x][k]
  BY <1>1, <1>2
<1> HIDE DEF f
<1>5. T2 \in Tables /\ T2[x] = f /\ \A y \in Pages : y # x => T2[y] = T[y]
  BY <1>3, <1>4 DEF Tables
<1> QED BY <1>2, <1>4, <1>5 DEF BitCleared

LEMMA LessType == ASSUME NEW size \in Nat, NEW n \in Nat PROVE Less(size, n) \in Nat
BY DEF Less

LEMMA CoverTypes == pme_coversz[1] \in Nat /\ pme_coversz[2] \in Nat
<1>1. Entries * PAGESZ \in Nat /\ WORD % WORD \in Nat
  BY SizeMax, PageMapAssumption, Sizes
<1> QED BY <1>1 DEF pme_coversz

LEMMA FirstFree ==
    ASSUME NEW g, physpage_alloc(g) PROVE g \in Pages /\ g \notin physpages /\ g # 0
BY PagesSpaces DEF physpage_alloc

\* What the three steps of mapping write.
LEMMA NewDirectoryWrites ==
    ASSUME MInv, NewDirectory
    PROVE  \E g \in Pages :
              /\ g \notin physpages /\ physpages' = physpages \cup {g} /\ Clears(tbl, tbl', g)
              /\ root_entry' = [root_entry EXCEPT ![load.sp] = g]
<1>1. op.sp = load.sp
  BY OpSpace DEF NewDirectory, MInv
<1> QED BY <1>1, FirstFree DEF NewDirectory, TakePage, Cleared, Clears

LEMMA MapDir ==
    ASSUME MInv, Mapping
    PROVE  /\ Dir = root_entry[load.sp] /\ load.sp \in Kept /\ pc \in {"init_pm", "init", "load"}
           /\ Dir # 0 => Dir \in physpages /\ Dir \in Pages /\ TablesApart(physpages, tbl, Dir)
<1>1. op.sp = load.sp /\ load.sp \in Kept /\ pc \in {"init_pm", "init", "load"}
  BY OpSpace DEF Kept, MInv, Control
<1>2. Dir # 0 => Dir \in physpages
  BY <1>1 DEF MInv, Roots, Dir
<1> QED BY <1>1, <1>2, OwnedTables DEF MInv, Owned, Dir, MTyped

LEMMA NewTableWrites ==
    ASSUME MInv, NewTable
    PROVE  \E g \in Pages :
              /\ g \notin physpages /\ physpages' = physpages \cup {g}
              /\ Enters(tbl, tbl', root_entry[load.sp], DirIdx(op.vp), g, op.f)
<1>1. Dir = root_entry[load.sp]
  BY MapDir DEF NewTable
<1>2. PICK g \in Pages : /\ TakePage(g)
                         /\ tbl' = [Cleared(g) EXCEPT ![Dir][DirIdx(op.vp)] = pme_pack(g, op.f)]
  BY DEF NewTable
<1>3. g \notin physpages /\ physpages' = physpages \cup {g}
  BY <1>2, FirstFree DEF TakePage
<1>4. Clears(tbl, Cleared(g), g)
  BY DEF Clears, Cleared
<1>5. Enters(tbl, tbl', root_entry[load.sp], DirIdx(op.vp), g, op.f)
  BY <1>1, <1>2, <1>4, Zenon DEF Enters
<1> QED BY <1>3, <1>5

LEMMA MapPageWrites ==
    ASSUME MInv, MapPage
    PROVE  Writes(tbl, tbl', root_entry[load.sp], op.vp, op.f)
<1>1. Dir = root_entry[load.sp]
  BY MapDir DEF MapPage
<1> QED BY <1>1, Zenon DEF MapPage, Writes, DirEntry, NewPme

OpTyped == op = NoOp \/ op \in MapOps \/ op \in UnmapOps
MemoryTyped ==
    /\ physpages \in SUBSET Pages /\ tbl \in Tables
    /\ root_entry \in [Spaces -> Pages \cup {0}] /\ cr3 \in Pages \cup {0}
LoaderTyped ==
    /\ pc \in {"off", "init_pm", "prompt", "init", "load", "run", "closed", "undefined"}
    /\ load \in Loads /\ boot \in BOOLEAN /\ lost \in Spaces

LEMMA TypedParts ==
    /\ MTyped <=> MemoryTyped /\ OpTyped /\ LoaderTyped
    /\ MTyped' <=> MemoryTyped' /\ OpTyped' /\ LoaderTyped'
BY DEF MTyped, MemoryTyped, OpTyped, LoaderTyped

\* addrspc_map begins.
LEMMA MapBegins ==
    ASSUME NEW sp \in Spaces, NEW vp \in Nat, NEW n \in Nat, NEW f \in Flags, addrspc_map(sp, vp, n, f)
    PROVE  /\ OpTyped' /\ Mapping' /\ ~Unmapping' /\ ~Quiet'
           /\ op'.sp = sp /\ op'.vp = vp /\ op'.n = n /\ op'.f = f
BY DEF addrspc_map, OpTyped, MapOps, Mapping, Unmapping, Quiet, NoOp

LEMMA InitBegins ==
    ASSUME NEW sp \in Spaces, addrspc_init(sp)
    PROVE  /\ OpTyped' /\ Mapping' /\ ~Unmapping' /\ ~Quiet'
           /\ op'.sp = sp /\ op'.vp = 0 /\ op'.n = KMAP_MAX /\ op'.f = KFLAGS
<1>1. KFLAGS \in Flags
  BY DEF KFLAGS, Flags
<1> QED BY <1>1, MapBegins, Sizes DEF addrspc_init

\* addrspc_cleanup begins.
LEMMA CleanupBegins ==
    ASSUME NEW sp \in Spaces, addrspc_cleanup(sp)
    PROVE  /\ OpTyped' /\ Unmapping' /\ ~Mapping' /\ ~Quiet'
           /\ op'.sp = sp /\ op'.i = 0 /\ op'.j = 0 /\ op'.size = SIZE_MAX
BY SizeMax DEF addrspc_cleanup, OpTyped, UnmapOps, Mapping, Unmapping, Quiet, NoOp

\* The operation that runs advances, or ends.
LEMMA MapAdvances ==
    ASSUME MTyped, Control, MapPage
    PROVE  /\ OpTyped'
           /\ op.n = 1 => Quiet' /\ ~Mapping' /\ ~Unmapping'
           /\ op.n # 1 => /\ Mapping' /\ ~Unmapping' /\ ~Quiet' /\ op'.n >= 1
                          /\ op'.sp = op.sp /\ op'.vp = op.vp + 1 /\ op'.n = op.n - 1 /\ op'.f = op.f
<1>1. op \in MapOps /\ op.n \in Nat /\ op.vp \in Nat /\ op.n >= 1
  BY OpTypes DEF MapPage, Control
<1>2. op' = IF op.n = 1 THEN NoOp ELSE [op EXCEPT !.vp = @ + 1, !.n = @ - 1]
  BY DEF MapPage
<1>3. CASE op.n = 1
  BY <1>2, <1>3 DEF OpTyped, Mapping, Unmapping, Quiet, NoOp
<1>4. CASE op.n # 1
  <2>1. op' = [op EXCEPT !.vp = op.vp + 1, !.n = op.n - 1] /\ op.vp + 1 \in Nat /\ op.n - 1 \in Nat /\ op.n - 1 >= 1
    BY <1>1, <1>2, <1>4
  <2>2. op' \in MapOps /\ op'.sp = op.sp /\ op'.vp = op.vp + 1 /\ op'.n = op.n - 1 /\ op'.f = op.f
    BY <1>1, <2>1 DEF MapOps
  <2>3. op'.kind = "map"
    BY <2>2 DEF MapOps
  <2> QED BY <1>4, <2>1, <2>2, <2>3 DEF OpTyped, Mapping, Unmapping, Quiet, NoOp
<1> QED BY <1>3, <1>4

UnmapAdvance == SkipTable \/ UnmapPage \/ LeaveTable
LEMMA UnmapAdvances ==
    ASSUME MTyped, UnmapAdvance
    PROVE  OpTyped' /\ Unmapping' /\ ~Mapping' /\ ~Quiet' /\ op'.sp = op.sp
<1>1. op \in UnmapOps /\ op.i \in Nat /\ op.j \in Nat /\ op.size \in Nat
  BY OpTypes DEF UnmapAdvance, SkipTable, UnmapPage, LeaveTable, InTable, InDir
<1>2. Less(op.size, pme_coversz[1]) \in Nat /\ Less(op.size, pme_coversz[2]) \in Nat
  BY <1>1, LessType, CoverTypes
<1>3. (op.size - PAGESZ) % WORD \in Nat
  BY <1>1, SizeMax, PageMapAssumption
<1> DEFINE Adv(i, j, n) == op' = [op EXCEPT !.i = i, !.j = j, !.size = n]
<1>4. ASSUME NEW i \in Nat, NEW j \in Nat, NEW n \in Nat, Adv(i, j, n)
      PROVE  op' \in UnmapOps /\ op'.sp = op.sp
  BY <1>1, <1>4 DEF UnmapOps
<1>5. ASSUME SkipTable PROVE op' \in UnmapOps /\ op'.sp = op.sp
  <2>1. Adv(op.i + 1, op.j, Less(op.size, pme_coversz[1]))
    BY <1>1, <1>5 DEF SkipTable, UnmapOps
  <2> HIDE DEF Adv
  <2> QED BY <1>1, <1>2, <1>4, <2>1
<1>6. ASSUME UnmapPage PROVE op' \in UnmapOps /\ op'.sp = op.sp
  <2>1. \E n \in Nat : op' = [op EXCEPT !.j = op.j + 1, !.size = n]
    BY <1>2, <1>3, <1>6, Zenon DEF UnmapPage
  <2>2. PICK n \in Nat : op' = [op EXCEPT !.j = op.j + 1, !.size = n]
    BY <2>1
  <2>3. Adv(op.i, op.j + 1, n)
    BY <1>1, <2>2 DEF UnmapOps
  <2> HIDE DEF Adv
  <2> QED BY <1>1, <1>4, <2>3
<1>7. ASSUME LeaveTable PROVE op' \in UnmapOps /\ op'.sp = op.sp
  <2>1. Adv(op.i + 1, 0, op.size)
    BY <1>1, <1>7 DEF LeaveTable, UnmapOps
  <2> HIDE DEF Adv
  <2> QED BY <1>1, <1>4, <2>1
<1>8. op' \in UnmapOps /\ op'.sp = op.sp
  BY <1>5, <1>6, <1>7 DEF UnmapAdvance
<1> QED BY <1>8 DEF OpTyped, UnmapOps, Mapping, Unmapping, Quiet, NoOp

UnmapWhere == op.i \in Idx /\ UTable \in physpages /\ UTable \in Pages /\ UTable # Dir
LEMMA UnmapTable ==
    ASSUME MInv, Unmapping, Dir \in physpages, op.i < Entries, tbl[Dir][op.i].p
    PROVE  UnmapWhere
<1>1. op.i \in Idx
  BY OpTypes, Sizes DEF MInv, Idx
<1>2. TablesApart(physpages, tbl, Dir) /\ physpages \subseteq Pages
  BY Unmaps DEF MInv, MTyped
<1> QED BY <1>1, <1>2 DEF TablesApart, UTable, UnmapWhere

MemoryStep == NewDirectory \/ NewTable \/ MapPage \/ UnmapPage \/ LeaveTable \/ LeaveDirectory

LEMMA MemoryTypedStep ==
    ASSUME MInv, MemoryStep PROVE MemoryTyped'
<1>0. MemoryTyped /\ tbl \in Tables /\ physpages \in SUBSET Pages
  BY TypedParts DEF MInv, MemoryTyped
<1>1. CASE NewDirectory
  <2>1. PICK g \in Pages :
              /\ g \notin physpages /\ physpages' = physpages \cup {g} /\ Clears(tbl, tbl', g)
              /\ root_entry' = [root_entry EXCEPT ![load.sp] = g]
    BY <1>1, NewDirectoryWrites
  <2>2. tbl' \in Tables
    BY <1>0, <2>1, ClearsWhere
  <2> QED BY <1>0, <1>1, <2>1, <2>2 DEF MemoryTyped, NewDirectory
<1>2. CASE NewTable
  <2>1. PICK g \in Pages :
              /\ g \notin physpages /\ physpages' = physpages \cup {g}
              /\ Enters(tbl, tbl', root_entry[load.sp], DirIdx(op.vp), g, op.f)
    BY <1>2, NewTableWrites
  <2>2. DirIdx(op.vp) \in Idx /\ op.f \in Flags /\ root_entry[load.sp] \in physpages
    BY <1>2, MapVPage, Places, OpTypes, MapDir DEF MInv, NewTable
  <2>3. root_entry[load.sp] \in Pages /\ g # root_entry[load.sp]
    BY <1>0, <2>1, <2>2
  <2>4. tbl' \in Tables
    BY <1>0, <2>1, <2>2, <2>3, EntersWhere
  <2> QED BY <1>0, <1>2, <2>1, <2>4 DEF MemoryTyped, NewTable
<1>3. CASE MapPage
  <2>1. Writes(tbl, tbl', root_entry[load.sp], op.vp, op.f)
    BY <1>3, MapPageWrites
  <2>2. /\ op.vp \in VPages /\ op.f \in Flags /\ root_entry[load.sp] \in physpages
        /\ TablesApart(physpages, tbl, root_entry[load.sp]) /\ tbl[root_entry[load.sp]][DirIdx(op.vp)].p
    BY <1>3, MapVPage, OpTypes, MapDir DEF MInv, MapPage, DirEntry
  <2>3. tbl' \in Tables
    BY <1>0, <2>1, <2>2, WritesWhere
  <2> QED BY <1>0, <1>3, <2>3 DEF MemoryTyped, MapPage
<1>4. CASE UnmapPage
  <2>1. UnmapWhere /\ op.j \in Idx
    BY <1>4, UnmapTable, OpTypes, Sizes DEF UnmapPage, InTable, InDir, MInv, Idx
  <2>2. tbl' \in Tables
    BY <1>0, <1>4, <2>1, ClearBit DEF UnmapPage, UnmapWhere
  <2> QED BY <1>0, <1>4, <2>2 DEF MemoryTyped, UnmapPage
<1>5. CASE LeaveTable
  <2>1. UnmapWhere /\ Dir \in Pages
    BY <1>0, <1>5, UnmapTable DEF LeaveTable
  <2>2. tbl' \in Tables
    BY <1>0, <1>5, <2>1, ClearBit DEF LeaveTable, UnmapWhere
  <2>3. physpages' \in SUBSET Pages
    BY <1>0, <1>5 DEF LeaveTable, physpage_free
  <2> QED BY <1>0, <1>5, <2>2, <2>3 DEF MemoryTyped, LeaveTable
<1>6. CASE LeaveDirectory
  BY <1>0, <1>6 DEF MemoryTyped, LeaveDirectory, physpage_free
<1> QED BY <1>1, <1>2, <1>3, <1>4, <1>5, <1>6 DEF MemoryStep

LoaderStep ==
    \/ init_pm \/ init_cpu_pm \/ (\E prog \in Programs : process_load_path(prog))
    \/ LoadStack \/ LoadSegment \/ LoadDone \/ LoadFails \/ process_close \/ Closed \/ Tick

LEMMA NextSteps == Next <=> MemoryStep \/ SkipTable \/ LoaderStep
BY Zenon DEF Next, MemoryStep, LoaderStep

\* What a program that is loaded brings along.
LEMMA LoadPath ==
    ASSUME MTyped, NEW prog \in Programs, process_load_path(prog)
    PROVE  /\ load' \in Loads /\ load'.sp = load.sp + 1 /\ load'.sp \in Spaces /\ load'.i = 0 /\ load'.prog = prog
           /\ \A k \in 1 .. Len(load'.prog) : AboveKernel(load'.prog[k].vp, load'.prog[k].n)
           /\ 0 <= Len(load'.prog)
<1>1. prog \in Seq(Segment) /\ \A k \in 1 .. Len(prog) : AboveKernel(prog[k].vp, prog[k].n)
  BY MemoryAssumption DEF Segment
<1>2. load.sp \in Nat /\ load.sp + 1 \in Spaces
  BY Sizes DEF MTyped, Loads, Spaces, process_load_path
<1>3. load' = [sp |-> load.sp + 1, prog |-> prog, i |-> 0]
  BY DEF process_load_path
<1>4. Len(prog) \in Nat
  BY <1>1
<1> QED BY <1>1, <1>2, <1>3, <1>4 DEF Loads

LEMMA LoadSegmentNext ==
    ASSUME MTyped, Control, LoadSegment
    PROVE  /\ load' \in Loads /\ load'.sp = load.sp /\ load'.prog = load.prog /\ load'.i = load.i + 1
           /\ load'.i \in 1 .. Len(load.prog) /\ load'.i <= Len(load.prog)
           /\ Region(load', load'.i) = load.prog[load.i + 1]
           /\ load.prog[load.i + 1] \in Segment
<1>1. /\ load \in Loads /\ load.i \in Nat /\ load.prog \in Seq(Segment)
      /\ load' = [load EXCEPT !.i = load.i + 1] /\ load.i < Len(load.prog) /\ Len(load.prog) \in Nat
  BY LoadTypes DEF LoadSegment
<1>2. load' \in Loads /\ load'.sp = load.sp /\ load'.prog = load.prog /\ load'.i = load.i + 1
  BY <1>1 DEF Loads
<1>3. load.i + 1 \in 1 .. Len(load.prog) /\ load.i + 1 # 0
  BY <1>1
<1>4. load.prog[load.i + 1] \in Segment
  BY <1>1, <1>3
<1>5. Region(load', load'.i) = load.prog[load.i + 1]
  BY <1>2, <1>3 DEF Region
<1> QED BY <1>1, <1>2, <1>3, <1>4, <1>5

LEMMA TypedNext ==
    ASSUME MInv, Next PROVE MTyped'
<1>0. MTyped /\ Control /\ MemoryTyped /\ OpTyped /\ LoaderTyped /\ load \in Loads /\ load.sp \in Spaces
  BY TypedParts, LoadTypes DEF MInv
<1>1. CASE MemoryStep
  <2>1. MemoryTyped'
    BY <1>1, MemoryTypedStep
  <2>2. UNCHANGED Loader
    BY <1>1 DEF MemoryStep, NewDirectory, NewTable, MapPage, UnmapPage, LeaveTable, LeaveDirectory
  <2>3. LoaderTyped'
    BY <1>0, <2>2 DEF LoaderTyped, Loader
  <2>4. OpTyped'
    <3>1. CASE NewDirectory \/ NewTable
      BY <1>0, <3>1 DEF NewDirectory, NewTable, OpTyped
    <3>2. CASE MapPage
      BY <1>0, <3>2, MapAdvances
    <3>3. CASE UnmapPage \/ LeaveTable
      BY <1>0, <3>3, UnmapAdvances DEF UnmapAdvance
    <3>4. CASE LeaveDirectory
      BY <3>4 DEF LeaveDirectory, OpTyped
    <3> QED BY <1>1, <3>1, <3>2, <3>3, <3>4 DEF MemoryStep
  <2> QED BY <2>1, <2>3, <2>4, TypedParts
<1>2. CASE SkipTable
  <2>1. OpTyped'
    BY <1>0, <1>2, UnmapAdvances DEF UnmapAdvance
  <2>2. MemoryTyped' /\ LoaderTyped'
    BY <1>0, <1>2 DEF SkipTable, MemoryTyped, LoaderTyped, Memory, Loader
  <2> QED BY <2>1, <2>2, TypedParts
<1>3. CASE LoaderStep
  <2>1. UNCHANGED Memory
    BY <1>3 DEF LoaderStep, init_pm, init_cpu_pm, process_load_path, LoadStack, LoadSegment, LoadDone,
                LoadFails, process_close, Closed, Tick
  <2>2. cr3' \in {cr3, root_entry[kernel_addrspc], root_entry[load.sp]}
    BY <1>3 DEF LoaderStep, init_pm, init_cpu_pm, process_load_path, LoadStack, LoadSegment, LoadDone,
                LoadFails, process_close, Closed, Tick
  <2>3. MemoryTyped'
    BY <1>0, <2>1, <2>2, PagesSpaces DEF MemoryTyped, Memory
  <2>4. CASE init_pm
    <3>1. OpTyped'
      BY <2>4, InitBegins, PagesSpaces DEF init_pm
    <3> QED BY <1>0, <2>3, <2>4, <3>1, TypedParts DEF init_pm, LoaderTyped
  <2>5. CASE init_cpu_pm \/ LoadDone \/ Closed
    BY <1>0, <2>3, <2>5, TypedParts DEF init_cpu_pm, LoadDone, Closed, LoaderTyped, OpTyped
  <2>6. ASSUME NEW prog \in Programs, process_load_path(prog) PROVE MTyped'
    <3>1. load' \in Loads /\ load'.sp \in Spaces
      BY <1>0, <2>6, LoadPath
    <3>2. OpTyped'
      BY <2>6, <3>1, InitBegins DEF process_load_path
    <3> QED BY <1>0, <2>3, <2>6, <3>1, <3>2, TypedParts DEF process_load_path, LoaderTyped
  <2>7. CASE LoadStack
    <3>1. [w |-> TRUE, u |-> TRUE] \in Flags /\ USTACK_DFLT - StackPages \in Nat /\ StackPages \in Nat
      BY PageMapAssumption DEF Flags
    <3>2. OpTyped'
      BY <1>0, <2>7, <3>1, MapBegins DEF LoadStack
    <3> QED BY <1>0, <2>3, <2>7, <3>2, TypedParts DEF LoadStack, LoaderTyped
  <2>8. CASE LoadSegment
    <3>1. load' \in Loads /\ load.prog[load.i + 1] \in Segment
      BY <1>0, <2>8, LoadSegmentNext
    <3> DEFINE seg == load.prog[load.i + 1]
    <3>2. seg.vp \in Nat /\ seg.n \in Nat /\ [w |-> seg.w, u |-> TRUE] \in Flags
      BY <3>1 DEF Segment, Flags
    <3>3. addrspc_map(load.sp, seg.vp, seg.n, [w |-> seg.w, u |-> TRUE])
      BY <2>8 DEF LoadSegment
    <3>4. OpTyped'
      BY <1>0, <3>2, <3>3, MapBegins
    <3> QED BY <1>0, <2>3, <2>8, <3>1, <3>4, TypedParts DEF LoadSegment, LoaderTyped
  <2>9. CASE LoadFails \/ process_close
    <3>1. OpTyped'
      BY <1>0, <2>9, CleanupBegins DEF LoadFails, process_close
    <3>2. LoaderTyped'
      BY <1>0, <2>9 DEF LoadFails, process_close, LoaderTyped
    <3> QED BY <2>3, <3>1, <3>2, TypedParts
  <2>10. CASE Tick
    BY <1>0, <2>3, <2>10, TypedParts DEF Tick, LoaderTyped, OpTyped
  <2> QED BY <1>3, <2>4, <2>5, <2>6, <2>7, <2>8, <2>9, <2>10 DEF LoaderStep
<1> QED BY <1>1, <1>2, <1>3, NextSteps

\* The loader's part of Control, and the part of the operation that runs.
LoaderControl ==
    /\ Off => load.sp = 0 /\ lost = 0 /\ cr3 = 0
    /\ lost <= load.sp /\ (boot => lost = kernel_addrspc)
    /\ Loading => lost < load.sp
    /\ \A k \in 1 .. Len(load.prog) : AboveKernel(load.prog[k].vp, load.prog[k].n)
    /\ load.i <= Len(load.prog)
    /\ pc = "init" => load.i = 0
OpControl ==
    /\ pc = "off" \/ pc = "prompt" => Quiet
    /\ Mapping => \/ pc = "init_pm" /\ op.sp = kernel_addrspc
                  \/ pc \in {"init", "load"} /\ op.sp = load.sp
    /\ Mapping /\ pc # "load" => op.f = KFLAGS /\ op.n >= 1 /\ op.vp + op.n = KMAP_MAX
    /\ Mapping /\ pc = "load" =>
          /\ op.f = [w |-> Region(load, load.i).w, u |-> TRUE] /\ op.n >= 1
          /\ op.vp >= Region(load, load.i).vp /\ op.vp + op.n = RegionEnd(load, load.i)
    /\ Unmapping => pc \in {"run", "closed", "undefined"} /\ op.sp = load.sp

LEMMA ControlParts ==
    /\ Control <=> LoaderControl /\ OpControl
    /\ Control' <=> LoaderControl' /\ OpControl'
BY DEF Control, LoaderControl, OpControl

LEMMA ControlMemory ==
    ASSUME MInv, MemoryStep \/ SkipTable PROVE Control'
<1>0. MTyped /\ Control /\ LoaderControl /\ OpControl
  BY ControlParts DEF MInv
<1>1. UNCHANGED <<cr3, Loader>>
  BY DEF MemoryStep, NewDirectory, NewTable, MapPage, UnmapPage, LeaveTable, LeaveDirectory, SkipTable
<1>2. LoaderControl'
  BY <1>0, <1>1 DEF LoaderControl, Loader, Off, Loading
<1>3. CASE NewDirectory \/ NewTable
  BY <1>0, <1>1, <1>2, <1>3, ControlParts DEF NewDirectory, NewTable, OpControl, Loader, Quiet, Mapping, Unmapping
<1>4. CASE MapPage
  <2>1. op.vp \in Nat /\ op.n \in Nat /\ Mapping
    BY <1>0, <1>4, OpTypes DEF MapPage
  <2>2. CASE op.n = 1
    BY <1>0, <1>1, <1>2, <1>4, <2>2, MapAdvances, ControlParts DEF OpControl
  <2>3. CASE op.n # 1
    <3>1. /\ Mapping' /\ ~Unmapping' /\ op'.n >= 1
          /\ op'.sp = op.sp /\ op'.vp = op.vp + 1 /\ op'.n = op.n - 1 /\ op'.f = op.f
      BY <1>0, <1>4, <2>3, MapAdvances
    <3>2. op'.vp + op'.n = op.vp + op.n
      BY <2>1, <3>1
    <3>3. pc' = pc /\ load' = load
      BY <1>1 DEF Loader
    <3>4. pc = "load" => Region(load, load.i).vp \in Nat /\ op'.vp >= Region(load, load.i).vp
      BY <1>0, <2>1, <3>1, RegionAbove, LoadTypes, SMTT(30) DEF OpControl
    <3>5. pc # "off" /\ pc # "prompt"
      BY <1>0, <2>1 DEF OpControl
    <3> QED BY <1>0, <1>2, <2>1, <3>1, <3>2, <3>3, <3>4, <3>5, ControlParts DEF OpControl
  <2> QED BY <2>2, <2>3
<1>5. CASE UnmapPage \/ LeaveTable \/ SkipTable
  <2>1. Unmapping' /\ ~Mapping' /\ op'.sp = op.sp
    BY <1>0, <1>5, UnmapAdvances DEF UnmapAdvance
  <2>2. Unmapping
    BY <1>5 DEF UnmapPage, LeaveTable, SkipTable, InTable, InDir
  <2>3. pc' = pc /\ load' = load
    BY <1>1 DEF Loader
  <2> QED BY <1>0, <1>2, <2>1, <2>2, <2>3, ControlParts, OpTypes DEF OpControl
<1>6. CASE LeaveDirectory
  <2>1. Quiet' /\ ~Mapping' /\ ~Unmapping'
    BY <1>6 DEF LeaveDirectory, Quiet, Mapping, Unmapping, NoOp
  <2> QED BY <1>2, <2>1, ControlParts DEF OpControl
<1> QED BY <1>3, <1>4, <1>5, <1>6 DEF MemoryStep

LEMMA ControlLoader ==
    ASSUME MInv, LoaderStep PROVE Control'
<1>0. MTyped /\ Control /\ LoaderControl /\ OpControl
  BY ControlParts DEF MInv
<1>1. /\ load \in Loads /\ load.sp \in Spaces /\ load.sp \in Nat /\ load.i \in Nat /\ load.prog \in Seq(Segment)
      /\ load.i <= Len(load.prog) /\ lost \in Nat
  BY <1>0, LoadTypes
<1>2. CASE init_pm
  <2>1. /\ Mapping' /\ ~Unmapping' /\ ~Quiet'
        /\ op'.sp = kernel_addrspc /\ op'.vp = 0 /\ op'.n = KMAP_MAX /\ op'.f = KFLAGS
    BY <1>2, InitBegins, PagesSpaces DEF init_pm
  <2>2. LoaderControl'
    BY <1>0, <1>2 DEF init_pm, LoaderControl, Off, Loading
  <2> QED BY <1>2, <2>1, <2>2, ControlParts, Sizes DEF init_pm, OpControl
<1>3. CASE init_cpu_pm \/ LoadDone \/ Closed
  <2>1. Quiet /\ ~Mapping /\ ~Unmapping /\ op' = op
    BY <1>0, <1>3, OpTypes DEF init_cpu_pm, LoadDone, Closed
  <2>2. OpControl'
    BY <2>1 DEF OpControl, Quiet, Mapping, Unmapping
  <2>3. LoaderControl'
    BY <1>0, <1>1, <1>3 DEF init_cpu_pm, LoadDone, Closed, LoaderControl, Off, Loading
  <2> QED BY <2>2, <2>3, ControlParts
<1>4. ASSUME NEW prog \in Programs, process_load_path(prog) PROVE Control'
  <2>1. /\ load' \in Loads /\ load'.sp = load.sp + 1 /\ load'.sp \in Spaces /\ load'.i = 0
        /\ \A k \in 1 .. Len(load'.prog) : AboveKernel(load'.prog[k].vp, load'.prog[k].n)
        /\ 0 <= Len(load'.prog)
    BY <1>0, <1>4, LoadPath
  <2>2. /\ Mapping' /\ ~Unmapping' /\ op'.sp = load'.sp
        /\ op'.vp = 0 /\ op'.n = KMAP_MAX /\ op'.f = KFLAGS
    BY <1>4, <2>1, InitBegins DEF process_load_path
  <2>3. pc' = "init" /\ lost' = lost /\ boot' = boot /\ lost <= load.sp /\ (boot => lost = kernel_addrspc)
    BY <1>0, <1>4 DEF process_load_path, LoaderControl
  <2>4. LoaderControl'
    BY <1>1, <2>1, <2>3 DEF LoaderControl, Off, Loading
  <2> QED BY <2>2, <2>3, <2>4, ControlParts, Sizes DEF OpControl
<1>5. CASE LoadStack
  <2>1. [w |-> TRUE, u |-> TRUE] \in Flags /\ USTACK_DFLT - StackPages \in Nat /\ StackPages \in Nat
    BY PageMapAssumption DEF Flags
  <2>2. /\ Mapping' /\ ~Unmapping' /\ op'.sp = load.sp
        /\ op'.vp = USTACK_DFLT - StackPages /\ op'.n = StackPages /\ op'.f = [w |-> TRUE, u |-> TRUE]
    BY <1>1, <1>5, <2>1, MapBegins DEF LoadStack
  <2>3. pc = "init" /\ pc' = "load" /\ load' = load /\ lost' = lost /\ boot' = boot
    BY <1>5 DEF LoadStack
  <2>4. LoaderControl' /\ load.i = 0
    BY <1>0, <2>3 DEF LoaderControl, Off, Loading
  <2>5. StackPages >= 1
    BY MemoryAssumption DEF AboveKernel
  <2>6. /\ op'.f = [w |-> Region(load, load.i).w, u |-> TRUE]
        /\ op'.vp >= Region(load, load.i).vp /\ op'.vp + op'.n = RegionEnd(load, load.i)
    BY <2>1, <2>2, <2>4 DEF Region, RegionEnd
  <2> QED BY <2>2, <2>3, <2>4, <2>5, <2>6, ControlParts DEF OpControl
<1>6. CASE LoadSegment
  <2> DEFINE seg == load.prog[load.i + 1]
  <2>1. /\ load'.sp = load.sp /\ load'.prog = load.prog /\ load'.i = load.i + 1
        /\ load'.i \in 1 .. Len(load.prog) /\ load'.i <= Len(load.prog)
        /\ Region(load', load'.i) = seg /\ seg \in Segment
    BY <1>0, <1>6, LoadSegmentNext
  <2>2. seg.vp \in Nat /\ seg.n \in Nat /\ [w |-> seg.w, u |-> TRUE] \in Flags
    BY <2>1 DEF Segment, Flags
  <2>3. addrspc_map(load.sp, seg.vp, seg.n, [w |-> seg.w, u |-> TRUE]) /\ pc = "load" /\ pc' = pc /\ lost' = lost /\ boot' = boot
    BY <1>6 DEF LoadSegment
  <2>4. /\ Mapping' /\ ~Unmapping' /\ op'.sp = load.sp
        /\ op'.vp = seg.vp /\ op'.n = seg.n /\ op'.f = [w |-> seg.w, u |-> TRUE]
    BY <1>1, <2>2, <2>3, MapBegins, SMTT(30)
  <2>5. LoaderControl'
    BY <1>0, <2>1, <2>3, SMTT(30) DEF LoaderControl, Off, Loading
  <2>6. seg.n >= 1
    BY <1>0, <2>1, <2>2 DEF LoaderControl, AboveKernel
  <2>7. RegionEnd(load', load'.i) = seg.vp + seg.n
    BY <2>1 DEF RegionEnd
  <2> HIDE DEF seg
  <2>8. /\ op'.f = [w |-> Region(load', load'.i).w, u |-> TRUE] /\ op'.n >= 1
        /\ op'.vp >= Region(load', load'.i).vp /\ op'.vp + op'.n = RegionEnd(load', load'.i)
    <3>1. Region(load', load'.i) = seg
      BY <2>1
    <3>2. op'.f = [w |-> Region(load', load'.i).w, u |-> TRUE]
      BY <2>4, <3>1, Zenon
    <3>3. op'.vp = seg.vp /\ op'.n = seg.n
      BY <2>4
    <3>4. op'.n >= 1 /\ op'.vp >= Region(load', load'.i).vp /\ op'.vp + op'.n = RegionEnd(load', load'.i)
      BY <2>2, <2>6, <2>7, <3>1, <3>3
    <3> QED BY <3>2, <3>4
  <2>9. OpControl'
    BY <2>1, <2>3, <2>4, <2>8, Zenon DEF OpControl
  <2> QED BY <2>5, <2>9, ControlParts
<1>7. CASE LoadFails \/ process_close
  <2>1. Unmapping' /\ ~Mapping' /\ ~Quiet' /\ op'.sp = load.sp
    BY <1>1, <1>7, CleanupBegins DEF LoadFails, process_close
  <2>2. load' = load /\ lost' = lost /\ (boot' => boot) /\ pc' \in {"run", "closed", "undefined"} /\ Loading
    BY <1>7 DEF LoadFails, process_close, Loading
  <2>3. LoaderControl'
    BY <1>0, <2>2 DEF LoaderControl, Off, Loading
  <2> QED BY <2>1, <2>2, <2>3, ControlParts DEF OpControl
<1>8. CASE Tick
  <2>1. Quiet' /\ ~Mapping' /\ ~Unmapping'
    BY <1>8 DEF Tick, Quiet, Mapping, Unmapping, NoOp
  <2>2. LoaderControl'
    BY <1>0, <1>1, <1>8 DEF Tick, LoaderControl, Off, Loading
  <2> QED BY <2>1, <2>2, ControlParts DEF OpControl
<1> QED BY <1>2, <1>3, <1>4, <1>5, <1>6, <1>7, <1>8 DEF LoaderStep

-----------------------------------------------------------------------------
(* A step on the space of the load leaves the others and CR3's kernel.     *)

LEMMA SpacesApart ==
    ASSUME MTyped, Control, Loading
    PROVE  kernel_addrspc # load.sp /\ lost # load.sp
BY LoadTypes, PagesSpaces DEF Control

\* The rest of a step that only touches pages of the space of the load.
OthersAlone ==
    /\ UNCHANGED <<cr3, pc, load, boot, lost>>
    /\ Spared(physpages, tbl, root_entry, load.sp, physpages', tbl')
    /\ \A s \in Spaces : s # load.sp => root_entry'[s] = root_entry[s]

LEMMA OthersStep ==
    ASSUME MInv, OthersAlone, NEW s \in {kernel_addrspc, lost}, s # load.sp
    PROVE  /\ root_entry'[s] = root_entry[s] /\ root_entry'[s] \in physpages' \cup {0}
           /\ MapsKernel(physpages, tbl, root_entry[s]) => MapsKernel(physpages', tbl', root_entry'[s])
<1>1. s \in Kept /\ load.sp \in Kept /\ OwnedM(physpages, tbl, root_entry, Kept)
  BY DEF MInv, Owned, Kept
<1>2. s \in Spaces /\ root_entry[s] \in physpages \cup {0}
  BY PagesSpaces DEF MInv, Roots, MTyped
<1>3. root_entry'[s] = root_entry[s] /\ Spared(physpages, tbl, root_entry, load.sp, physpages', tbl')
  BY <1>2 DEF OthersAlone
<1>4. ASSUME root_entry[s] \in physpages PROVE root_entry[s] \in physpages'
  <2>1. Untouched(physpages, tbl, physpages', tbl', root_entry[s])
    BY <1>1, <1>3, <1>4, OthersFrame, Zenon
  <2> QED BY <2>1 DEF Untouched
<1>5. MapsKernel(physpages, tbl, root_entry[s]) => MapsKernel(physpages', tbl', root_entry[s])
  BY <1>1, <1>3, KernelFrame, Zenon
<1> QED BY <1>2, <1>3, <1>4, <1>5

\* The space of the load has what it had, what was free, and nothing twice.
OwnPlaces ==
    /\ \A k \in 0 .. Entries : Has(physpages', tbl', root_entry', load.sp, k) =>
          /\ At(tbl', root_entry', load.sp, k) \in physpages'
          /\ \/ At(tbl', root_entry', load.sp, k) \notin physpages
             \/ Mine(physpages, tbl, root_entry, load.sp, At(tbl', root_entry', load.sp, k))
    /\ \A k, l \in 0 .. Entries :
          /\ Has(physpages', tbl', root_entry', load.sp, k) /\ Has(physpages', tbl', root_entry', load.sp, l)
          /\ At(tbl', root_entry', load.sp, k) = At(tbl', root_entry', load.sp, l)
          => k = l

LEMMA OwnBefore ==
    ASSUME MInv
    PROVE  \A k, l \in 0 .. Entries :
              Has(physpages, tbl, root_entry, load.sp, k) =>
                /\ At(tbl, root_entry, load.sp, k) \in physpages
                /\ Mine(physpages, tbl, root_entry, load.sp, At(tbl, root_entry, load.sp, k))
                /\ /\ Has(physpages, tbl, root_entry, load.sp, l)
                   /\ At(tbl, root_entry, load.sp, k) = At(tbl, root_entry, load.sp, l)
                   => k = l
<1>1. load.sp \in Kept
  BY DEF Kept
<1> QED BY <1>1 DEF MInv, Owned, OwnedM, Mine

LEMMA OwnedAlone ==
    ASSUME MInv, MTyped', OthersAlone, OwnPlaces
    PROVE  Owned'
<1>1. load.sp \in Kept /\ OwnedM(physpages, tbl, root_entry, Kept) /\ Kept' = Kept
  BY DEF MInv, Owned, Kept, OthersAlone
<1>2. 0 \notin physpages'
  BY PagesSpaces DEF MTyped
<1>3. \A s \in Kept : s # load.sp => root_entry'[s] = root_entry[s] /\ root_entry[s] \in physpages \cup {0}
  BY PagesSpaces DEF Kept, MInv, Roots, MTyped, OthersAlone
<1>4. Spared(physpages, tbl, root_entry, load.sp, physpages', tbl')
  BY DEF OthersAlone
<1> DEFINE P2 == physpages'
           T2 == tbl'
           R2 == root_entry'
           K == Kept
<1>5. OwnedM(P2, T2, R2, K)
  <2> HIDE DEF P2, T2, R2, K
  <2>1. /\ load.sp \in K /\ OwnedM(physpages, tbl, root_entry, K) /\ 0 \notin P2
        /\ \A s \in K : s # load.sp => R2[s] = root_entry[s] /\ root_entry[s] \in physpages \cup {0}
        /\ Spared(physpages, tbl, root_entry, load.sp, P2, T2)
    BY <1>1, <1>2, <1>3, <1>4 DEF P2, T2, R2, K
  <2>2. /\ \A k \in 0 .. Entries : Has(P2, T2, R2, load.sp, k) =>
                 /\ At(T2, R2, load.sp, k) \in P2
                 /\ \/ At(T2, R2, load.sp, k) \notin physpages
                    \/ Mine(physpages, tbl, root_entry, load.sp, At(T2, R2, load.sp, k))
        /\ \A k, l \in 0 .. Entries :
                 /\ Has(P2, T2, R2, load.sp, k) /\ Has(P2, T2, R2, load.sp, l)
                 /\ At(T2, R2, load.sp, k) = At(T2, R2, load.sp, l)
                 => k = l
    BY DEF P2, T2, R2, OwnPlaces
  <2> QED BY <2>1, <2>2, OwnedStep
<1> QED BY <1>1, <1>5 DEF Owned

\* For the three steps of mapping it remains to look at the space itself.
LEMMA MapAlone ==
    ASSUME MInv, MTyped', Mapping, OthersAlone, root_entry'[load.sp] \in physpages',
           root_entry[load.sp] # 0 => root_entry'[load.sp] = root_entry[load.sp]
    PROVE  Roots' /\ Cr3Kept' /\ Undef'
<1>1. pc \in {"init_pm", "init", "load"} /\ UNCHANGED <<cr3, pc, load, boot, lost>> /\ MTyped /\ Control
  BY MapDir DEF OthersAlone, MInv
<1>2. \A s \in {kernel_addrspc, lost} : s # load.sp =>
           /\ root_entry'[s] = root_entry[s] /\ root_entry'[s] \in physpages' \cup {0}
           /\ MapsKernel(physpages, tbl, root_entry[s]) => MapsKernel(physpages', tbl', root_entry'[s])
  BY OthersStep
<1>3. Roots'
  <2>1. \A s \in Spaces : s > load.sp => root_entry'[s] = 0
    BY <1>1, LoadTypes, PagesSpaces DEF MInv, Roots, OthersAlone
  <2>2. root_entry'[load.sp] # 0
    BY PagesSpaces DEF MTyped
  <2> QED BY <1>1, <1>2, <2>1, <2>2 DEF Roots
<1>4. Undef'
  BY <1>1 DEF Undef
<1>5. Cr3Kept'
  <2>1. CASE pc = "init_pm"
    BY <1>1, <2>1 DEF Cr3Kept, Off
  <2>2. CASE pc # "init_pm"
    <3>1. Loading /\ ~Off
      BY <1>1, <2>2 DEF Loading, Off
    <3>2. kernel_addrspc # load.sp /\ lost # load.sp
      BY <1>1, <3>1, SpacesApart
    <3>3. MapsKernel(physpages', tbl', root_entry'[kernel_addrspc])
      BY <1>1, <1>2, <3>1, <3>2 DEF MInv, Cr3Kept
    <3>4. CASE pc = "init"
      BY <1>1, <1>2, <3>1, <3>2, <3>3, <3>4 DEF MInv, Cr3Kept, OwnCr3
    <3>5. CASE pc = "load"
      <4>1. cr3 = root_entry[load.sp] /\ cr3 \in physpages
        BY <3>1, <3>5 DEF MInv, Cr3Kept, OwnCr3
      <4>2. cr3 # 0
        BY <1>1, <4>1, PagesSpaces DEF MTyped
      <4> QED BY <1>1, <3>3, <3>5, <4>1, <4>2 DEF Cr3Kept, OwnCr3
    <3> QED BY <1>1, <2>2, <3>4, <3>5
  <2> QED BY <2>1, <2>2
<1> QED BY <1>3, <1>4, <1>5

-----------------------------------------------------------------------------
(* The three steps of mapping. *)

LEMMA NewDirectoryStep ==
    ASSUME MInv, NewDirectory, MTyped', Control' PROVE MInv' /\ OthersAlone
<1>0. /\ MTyped /\ Control /\ Roots /\ Mapping /\ Dir = 0 /\ UNCHANGED <<cr3, op, Loader>>
      /\ tbl \in Tables /\ load.sp \in Spaces
  BY LoadTypes DEF MInv, NewDirectory, MTyped
<1>1. PICK g \in Pages :
          /\ g \notin physpages /\ physpages' = physpages \cup {g} /\ Clears(tbl, tbl', g)
          /\ root_entry' = [root_entry EXCEPT ![load.sp] = g]
  BY NewDirectoryWrites
<1>2. (\A k \in Idx : ~tbl'[g][k].p) /\ \A x \in Pages : x # g => tbl'[x] = tbl[x]
  BY <1>0, <1>1, ClearsWhere
<1>3. root_entry[load.sp] = 0 /\ pc \in {"init_pm", "init"} /\ op.vp = 0
  BY <1>0, MapDir, PagesSpaces DEF MTyped, Roots
<1>4. root_entry'[load.sp] = g /\ (\A s \in Spaces : s # load.sp => root_entry'[s] = root_entry[s]) /\ g \in physpages'
  BY <1>0, <1>1 DEF MTyped
<1>5. OthersAlone
  BY <1>0, <1>1, <1>2, <1>4 DEF OthersAlone, Spared, MTyped, Loader
<1>6. \A k \in 0 .. Entries : Has(physpages', tbl', root_entry', load.sp, k) => k = Entries
  BY <1>2, <1>4, Sizes DEF Has, Idx
<1>7. At(tbl', root_entry', load.sp, Entries) = g
  BY <1>4 DEF At
<1>8. Owned'
  <2>1. OwnPlaces
    BY <1>1, <1>4, <1>6, <1>7 DEF OwnPlaces
  <2> QED BY <1>5, <2>1, OwnedAlone
<1>9. Roots' /\ Cr3Kept' /\ Undef'
  BY <1>0, <1>3, <1>4, <1>5, MapAlone
<1>10. Built'
  <2>1. Dominates(tbl', g) /\ KernelPages(tbl', g, 0) /\ NoUser(tbl', g)
    BY <1>0, <1>1, ClearsPages
  <2>2. pc' = pc /\ load' = load /\ Mapping' /\ op' = op
    BY <1>0 DEF Loader, Mapping
  <2>3. KFront' = 0
    BY <1>3, <2>2 DEF KFront
  <2> QED BY <1>3, <1>4, <2>1, <2>2, <2>3 DEF Built, BuiltM
<1> QED BY <1>5, <1>8, <1>9, <1>10 DEF MInv

LEMMA NewTableStep ==
    ASSUME MInv, NewTable, MTyped', Control' PROVE MInv' /\ OthersAlone
<1> DEFINE d == root_entry[load.sp]
           k0 == DirIdx(op.vp)
<1>0. /\ MTyped /\ Control /\ Roots /\ Mapping /\ UNCHANGED <<root_entry, cr3, op, Loader>>
      /\ tbl \in Tables /\ load.sp \in Spaces /\ physpages \in SUBSET Pages
  BY LoadTypes DEF MInv, NewTable, MTyped
<1>1. PICK g \in Pages :
          g \notin physpages /\ physpages' = physpages \cup {g} /\ Enters(tbl, tbl', d, k0, g, op.f)
  BY NewTableWrites
<1>2. /\ Dir = d /\ d \in physpages /\ d \in Pages /\ d # 0 /\ TablesApart(physpages, tbl, d) /\ ~tbl[d][k0].p
      /\ pc \in {"init_pm", "init", "load"}
  BY <1>0, MapDir DEF NewTable, DirEntry
<1>3. k0 \in Idx /\ op.f \in Flags /\ g # d
  BY <1>0, <1>1, <1>2, MapVPage, Places, OpTypes
<1>4. Entered(tbl, tbl', d, k0, g, op.f)
  BY <1>0, <1>1, <1>2, <1>3, EntersWhere
<1>5. SameBut(tbl, tbl', d, -1) /\ (Dominates(tbl, d) => Dominates(tbl', d))
  BY <1>0, <1>1, <1>2, <1>3, EntersPages
<1>6. root_entry' = root_entry /\ d \in physpages'
  BY <1>0, <1>1, <1>2
<1> HIDE DEF d, k0
<1>7. Mine(physpages, tbl, root_entry, load.sp, d)
  BY <1>2, Sizes DEF Mine, Has, At, d
<1>8. OthersAlone
  <2>1. \A x \in physpages : ~Mine(physpages, tbl, root_entry, load.sp, x) => x \in physpages' /\ tbl'[x] = tbl[x]
    BY <1>0, <1>1, <1>4, <1>7 DEF Entered
  <2> QED BY <1>0, <2>1 DEF OthersAlone, Spared, Loader
<1>9. \A k \in 0 .. Entries : k # k0 /\ Has(physpages', tbl', root_entry', load.sp, k) =>
           /\ Has(physpages, tbl, root_entry, load.sp, k)
           /\ At(tbl', root_entry', load.sp, k) = At(tbl, root_entry, load.sp, k)
  BY <1>2, <1>4, <1>6, Sizes DEF Has, At, d, Entered, Idx
<1>10. \A k \in 0 .. Entries : Has(physpages, tbl, root_entry, load.sp, k) =>
           /\ At(tbl, root_entry, load.sp, k) \in physpages
           /\ Mine(physpages, tbl, root_entry, load.sp, At(tbl, root_entry, load.sp, k))
  BY MapDir, <1>0 DEF MInv, Owned, OwnedM, Mine
<1>11. At(tbl', root_entry', load.sp, k0) = g
  BY <1>3, <1>4, <1>6, Sizes DEF At, d, Entered, pme_pack
<1>12. Owned'
  <2>1. \A k \in 0 .. Entries : Has(physpages', tbl', root_entry', load.sp, k) =>
                 /\ At(tbl', root_entry', load.sp, k) \in physpages'
                 /\ \/ At(tbl', root_entry', load.sp, k) \notin physpages
                    \/ Mine(physpages, tbl, root_entry, load.sp, At(tbl', root_entry', load.sp, k))
    BY <1>1, <1>9, <1>10, <1>11
  <2>2. ASSUME NEW k \in 0 .. Entries, NEW l \in 0 .. Entries,
               Has(physpages', tbl', root_entry', load.sp, k), Has(physpages', tbl', root_entry', load.sp, l),
               At(tbl', root_entry', load.sp, k) = At(tbl', root_entry', load.sp, l)
        PROVE  k = l
    <3>1. CASE k # k0 /\ l # k0
      <4>1. /\ Has(physpages, tbl, root_entry, load.sp, k) /\ Has(physpages, tbl, root_entry, load.sp, l)
            /\ At(tbl, root_entry, load.sp, k) = At(tbl, root_entry, load.sp, l)
        BY <1>9, <2>2, <3>1
      <4> QED BY <4>1, MapDir, <1>0 DEF MInv, Owned, OwnedM
    <3>2. CASE k = k0 \/ l = k0
      BY <1>1, <1>9, <1>10, <1>11, <2>2, <3>2
    <3> QED BY <3>1, <3>2
  <2>3. OwnPlaces
    BY <2>1, <2>2 DEF OwnPlaces
  <2> QED BY <1>8, <2>3, OwnedAlone
<1>13. Roots' /\ Cr3Kept' /\ Undef'
  BY <1>0, <1>6, <1>8, MapAlone DEF d
<1>14. Built'
  <2>1. pc' = pc /\ load' = load /\ op' = op /\ root_entry'[load.sp] = d
    BY <1>0, <1>6 DEF Loader, d
  <2>2. KFront' = KFront /\ UFront' = UFront
    BY <2>1 DEF KFront, UFront, Mapping
  <2>3. Making
    BY <1>2 DEF Making, OwnCr3
  <2>4. BuiltM(tbl, d)
    BY <1>2, <2>3 DEF MInv, Built, d
  <2>5. Dominates(tbl', d) /\ KernelPages(tbl', d, KFront)
    BY <1>5, <2>4, KernelPagesKept DEF BuiltM
  <2>6. NoUser(tbl, d) => NoUser(tbl', d)
    BY <1>5, NoUserKept, Sizes
  <2>7. UserPages(tbl, d, load, UFront) => UserPages(tbl', d, load, UFront)
    BY <1>5, UserPagesKept, Sizes
  <2> QED BY <2>1, <2>2, <2>4, <2>5, <2>6, <2>7 DEF Built, BuiltM
<1> QED BY <1>8, <1>12, <1>13, <1>14 DEF MInv

\* The space of the load has the tables that it had.
SameTables ==
    \A k \in Idx : /\ tbl'[root_entry[load.sp]][k].p = tbl[root_entry[load.sp]][k].p
                   /\ tbl'[root_entry[load.sp]][k].to = tbl[root_entry[load.sp]][k].to
LEMMA MapPageStep ==
    ASSUME MInv, MapPage, MTyped', Control' PROVE MInv' /\ OthersAlone /\ SameTables
<1> DEFINE d == root_entry[load.sp]
           v == op.vp
           k0 == DirIdx(v)
           t == tbl[d][k0].to
<1>0. /\ MTyped /\ Control /\ Roots /\ Mapping /\ UNCHANGED <<physpages, root_entry, cr3, Loader>>
      /\ tbl \in Tables /\ load.sp \in Spaces /\ physpages \in SUBSET Pages /\ load.sp \in Kept
  BY LoadTypes, MapDir DEF MInv, MapPage, MTyped
<1>1. /\ Dir = d /\ d \in physpages /\ d \in Pages /\ d # 0 /\ TablesApart(physpages, tbl, d) /\ tbl[d][k0].p
      /\ pc \in {"init_pm", "init", "load"}
  BY <1>0, MapDir DEF MapPage, DirEntry
<1>2. v \in VPages /\ v \in Nat /\ op.f \in Flags /\ k0 \in Idx
  BY <1>0, MapVPage, Places, OpTypes
<1>3. Writes(tbl, tbl', d, v, op.f)
  BY MapPageWrites
<1> HIDE DEF d, v, k0, t
<1>4. Written(tbl, tbl', d, v, op.f)
  BY <1>0, <1>1, <1>2, <1>3, WritesWhere DEF k0
<1>5. SameBut(tbl, tbl', d, v) /\ MappedAs(tbl', d, v, op.f)
  BY <1>0, <1>1, <1>2, <1>3, WritesPages DEF k0
<1>6. Dominates(tbl, d) => Dominates(tbl', d)
  BY <1>0, <1>1, <1>2, <1>3, WritesDominates DEF k0
<1>7. \A k \in Idx : tbl'[d][k].p = tbl[d][k].p /\ tbl'[d][k].to = tbl[d][k].to
  <2>1. tbl[d][k0] \in PEntry
    BY <1>0, <1>1, <1>2 DEF Tables
  <2>2. tbl'[d][k0].p = tbl[d][k0].p /\ tbl'[d][k0].to = tbl[d][k0].to
    <3>1. tbl'[d][k0] = pme_set_flags(tbl[d][k0], op.f)
      BY <1>4 DEF Written, k0
    <3> QED BY <2>1, <3>1 DEF pme_set_flags, PEntry
  <2> QED BY <1>4, <2>2 DEF Written, k0
<1>8. root_entry' = root_entry /\ physpages' = physpages
  BY <1>0, SMTT(30)
<1>9. Mine(physpages, tbl, root_entry, load.sp, d) /\ Mine(physpages, tbl, root_entry, load.sp, t)
  <2>1. Mine(physpages, tbl, root_entry, load.sp, d)
    BY <1>1, Sizes DEF Mine, Has, At, d
  <2>2. k0 \in 0 .. Entries /\ k0 # Entries
    BY <1>2, Sizes
  <2> QED BY <1>1, <2>1, <2>2 DEF Mine, Has, At, d, t
<1>10. OthersAlone
  <2>1. \A x \in physpages : ~Mine(physpages, tbl, root_entry, load.sp, x) => x \in physpages' /\ tbl'[x] = tbl[x]
    BY <1>0, <1>4, <1>8, <1>9 DEF Written, t, k0
  <2> QED BY <1>0, <1>8, <2>1 DEF OthersAlone, Spared, Loader
<1>11. \A k \in 0 .. Entries :
           /\ Has(physpages', tbl', root_entry', load.sp, k) => Has(physpages, tbl, root_entry, load.sp, k)
           /\ At(tbl', root_entry', load.sp, k) = At(tbl, root_entry, load.sp, k)
  <2>1. \A k \in 0 .. Entries : k # Entries => k \in Idx
    BY Sizes DEF Idx
  <2> QED BY <1>7, <1>8, <2>1 DEF Has, At, d
<1>12. OwnPlaces
  <2> QED BY <1>8, <1>11, OwnBefore DEF OwnPlaces
<1>13. Owned' /\ Roots' /\ Cr3Kept' /\ Undef'
  BY <1>0, <1>1, <1>8, <1>10, <1>12, MapAlone, OwnedAlone DEF d
<1>14. Built'
  <2>1. pc' = pc /\ load' = load /\ root_entry'[load.sp] = d
    BY <1>0 DEF Loader, d
  <2>2. Making
    BY <1>1 DEF Making, OwnCr3
  <2>3. BuiltM(tbl, d)
    BY <1>1, <2>2 DEF MInv, Built, d
  <2>4. Dominates(tbl', d) /\ KernelPages(tbl, d, KFront)
    BY <1>6, <2>3 DEF BuiltM
  <2>5. /\ op.n = 1 => ~Mapping'
        /\ op.n # 1 => Mapping' /\ op'.vp = v + 1
    BY <1>0, MapAdvances DEF v
  <2>6. CASE pc # "load"
    <3>1. v \in 0 .. KMAP_MAX - 1 /\ op.f = KFLAGS /\ KFront = v /\ op.vp + op.n = KMAP_MAX
      BY <1>0, <2>6, MapVPage DEF Control, v, KFront
    <3>2. KernelPages(tbl', d, v + 1)
      BY <1>2, <1>5, <2>4, <3>1, KernelPagesNext
    <3>3. KFront' = v + 1
      <4>1. op.n = 1 => v + 1 = KMAP_MAX
        BY <1>2, <3>1 DEF v
      <4> QED BY <2>1, <2>5, <2>6, <4>1 DEF KFront
    <3>4. NoUser(tbl, d)
      BY <1>1, <2>3, <2>6 DEF BuiltM
    <3>5. v \notin KMAP_MAX .. Entries * Entries - 1
      BY <1>2, <3>1, Sizes
    <3>6. NoUser(tbl', d)
      BY <1>5, <3>4, <3>5, NoUserKept
    <3> QED BY <1>1, <2>1, <2>4, <2>6, <3>2, <3>3, <3>6 DEF Built, BuiltM
  <2>7. CASE pc = "load"
    <3>1. /\ v \in KMAP_MAX .. Entries * Entries - 1 /\ v >= Region(load, load.i).vp /\ v < RegionEnd(load, load.i)
          /\ op.f = [w |-> Region(load, load.i).w, u |-> TRUE] /\ op.vp + op.n = RegionEnd(load, load.i)
      BY <1>0, <2>7, MapVPage DEF Control, v
    <3>2. KFront = KMAP_MAX /\ KFront' = KMAP_MAX /\ UFront = v
      BY <1>0, <2>1, <2>7 DEF KFront, UFront, v
    <3>3. v \notin 0 .. KMAP_MAX - 1
      BY <1>2, <3>1, Sizes
    <3>4. KernelPages(tbl', d, KMAP_MAX)
      BY <1>5, <2>4, <3>2, <3>3, KernelPagesKept
    <3>5. UserPages(tbl, d, load, v) /\ load \in Loads /\ load.i <= Len(load.prog)
      BY <1>0, <2>3, <2>7, <3>2, LoadTypes DEF BuiltM
    <3>6. UserPages(tbl', d, load, v + 1)
      BY <1>5, <3>1, <3>5, UserPagesNext
    <3>7. UserPages(tbl', d, load, UFront')
      <4>1. CASE op.n = 1
        <5>1. v + 1 = RegionEnd(load, load.i) /\ v + 1 \in Nat
          BY <1>2, <3>1, <4>1 DEF v
        <5>2. UserPages(tbl', d, load, Entries * Entries)
          BY <3>5, <3>6, <5>1, UserPagesEnd
        <5> QED BY <2>5, <4>1, <5>2 DEF UFront
      <4>2. CASE op.n # 1
        BY <2>5, <3>6, <4>2 DEF UFront
      <4> QED BY <4>1, <4>2
    <3> QED BY <2>1, <2>4, <2>7, <3>2, <3>4, <3>7 DEF Built, BuiltM
  <2> QED BY <2>6, <2>7
<1>15. SameTables
  BY <1>7 DEF SameTables, d
<1> QED BY <1>10, <1>13, <1>14, <1>15 DEF MInv

-----------------------------------------------------------------------------
(* The steps of unmapping. *)

\* Pages and present bits are only taken away.
Less2(P, T, P2, T2) ==
    /\ P2 \subseteq P
    /\ \A x \in Pages, k \in Idx : T2[x][k].to = T[x][k].to /\ (T2[x][k].p => T[x][k].p)

LEMMA PageZero == DirIdx(0) = 0 /\ TblIdx(0) = 0 /\ 0 \in Idx
BY Sizes DEF DirIdx, TblIdx, Idx

LEMMA ReachZero ==
    ASSUME NEW P, NEW T, NEW d
    PROVE  ReachM(P, T, d, 0).p = (d \in P /\ T[d][0].p /\ T[d][0].to \in P /\ T[T[d][0].to][0].p)
<1>1. DirIdx(0) = 0 /\ TblIdx(0) = 0
  BY PageZero
<1>2. CASE d \in P /\ T[d][0].p /\ T[d][0].to \in P /\ T[T[d][0].to][0].p
  BY <1>1, <1>2 DEF ReachM
<1>3. CASE ~(d \in P /\ T[d][0].p /\ T[d][0].to \in P /\ T[T[d][0].to][0].p)
  BY <1>1, <1>3 DEF ReachM, NoEntry
<1> QED BY <1>2, <1>3

LEMMA ReachLess ==
    ASSUME NEW P \in SUBSET Pages, NEW T, NEW P2, NEW T2, Less2(P, T, P2, T2), NEW d, ~ReachM(P, T, d, 0).p
    PROVE  ~ReachM(P2, T2, d, 0).p
<1> SUFFICES ASSUME d \in P2, T2[d][0].p, T2[d][0].to \in P2, T2[T2[d][0].to][0].p PROVE FALSE
  BY ReachZero
<1>1. d \in P /\ d \in Pages /\ T2[d][0].to = T[d][0].to /\ T[d][0].p
  BY PageZero DEF Less2
<1>2. T[d][0].to \in P /\ T[d][0].to \in Pages /\ T[T[d][0].to][0].p
  BY <1>1, PageZero DEF Less2
<1> QED BY <1>1, <1>2, ReachZero

LEMMA UnmapAlone ==
    ASSUME MInv, MTyped', Unmapping, OthersAlone, OwnPlaces, root_entry' = root_entry
    PROVE  Owned' /\ Roots' /\ Cr3Kept' /\ Built'
<1>1. /\ MTyped /\ Control /\ pc \in {"run", "closed", "undefined"} /\ UNCHANGED <<cr3, pc, load, boot, lost>> /\ ~Quiet
  BY OpTypes DEF MInv, Control, OthersAlone
<1>2. kernel_addrspc # load.sp /\ lost # load.sp
  BY <1>1, SpacesApart DEF Loading
<1>3. \A s \in {kernel_addrspc, lost} :
           /\ root_entry'[s] \in physpages' \cup {0}
           /\ MapsKernel(physpages, tbl, root_entry[s]) => MapsKernel(physpages', tbl', root_entry[s])
  BY <1>2, OthersStep
<1>4. Roots'
  BY <1>1, <1>3 DEF MInv, Roots
<1>5. pc # "undefined" => ~OwnCr3
  BY <1>1 DEF MInv, Cr3Kept, OwnCr3, Off
<1>6. Cr3Kept'
  <2>1. CASE pc = "undefined"
    BY <1>1, <2>1 DEF Cr3Kept
  <2>2. CASE pc # "undefined"
    <3>1. /\ MapsKernel(physpages, tbl, root_entry[kernel_addrspc])
          /\ cr3 \in {root_entry[kernel_addrspc], root_entry[lost]} /\ MapsKernel(physpages, tbl, cr3)
      BY <1>1, <1>5, <2>2 DEF MInv, Cr3Kept, Off
    <3>2. MapsKernel(physpages', tbl', root_entry[kernel_addrspc]) /\ MapsKernel(physpages', tbl', cr3)
      BY <1>3, <3>1
    <3>3. ~OwnCr3'
      BY <1>1, <1>5, <2>2 DEF OwnCr3
    <3> QED BY <1>1, <3>1, <3>2, <3>3 DEF Cr3Kept
  <2> QED BY <2>1, <2>2
<1>7. Built'
  BY <1>1, <1>5 DEF Built, Making, OwnCr3
<1> QED BY <1>4, <1>6, <1>7, OwnedAlone

\* In the undefined state, once the kernel's first page is gone.
LEMMA UndefLess ==
    ASSUME MInv, Less2(physpages, tbl, physpages', tbl'), root_entry' = root_entry, OthersAlone, ~Mapping',
           pc = "undefined" => ~ReachM(physpages, tbl, cr3, 0).p
    PROVE  Undef'
<1> SUFFICES ASSUME pc = "undefined" PROVE Undef'
  BY DEF Undef, OthersAlone
<1>1. ~ReachM(physpages, tbl, cr3, 0).p /\ cr3 = root_entry[load.sp]
  BY DEF MInv, Undef
<1>2. ~ReachM(physpages', tbl', cr3, 0).p
  BY <1>1, ReachLess DEF MInv, MTyped
<1> QED BY <1>1, <1>2 DEF Undef, OthersAlone

\* Before that, the kernel's first page is the first that is found.
LEMMA UndefFirst ==
    ASSUME MInv, pc = "undefined", Unmapping, op.i = 0, op.j = 0, op.size = SIZE_MAX
    PROVE  \/ /\ Dir = cr3 /\ Dir \in physpages /\ tbl[Dir][0].p /\ UTable = tbl[Dir][0].to
              /\ UTable \in physpages /\ tbl[UTable][0].p
           \/ ~ReachM(physpages, tbl, cr3, 0).p
<1>1. Dir = root_entry[load.sp] /\ cr3 = root_entry[load.sp]
  BY OpSpace DEF MInv, Undef, Dir
<1>2. UTable = tbl[Dir][0].to
  BY DEF UTable
<1> QED BY <1>1, <1>2, MapsKernelIn DEF MInv, Undef

LEMMA UnmapPageStep ==
    ASSUME MInv, UnmapPage, MTyped', Control' PROVE MInv' /\ OthersAlone
<1>0. /\ MTyped /\ Control /\ Unmapping /\ Dir \in physpages /\ tbl[Dir][op.i].p /\ op.i < Entries
      /\ UNCHANGED <<physpages, root_entry, cr3, Loader>> /\ tbl \in Tables /\ physpages \in SUBSET Pages
      /\ op.i \in Nat /\ op.j \in Nat /\ op.j < Entries
  BY OpTypes DEF MInv, UnmapPage, InTable, InDir, MTyped
<1>1. UnmapWhere /\ op.j \in Idx /\ Dir = root_entry[load.sp] /\ load.sp \in Kept /\ Dir \in Pages
  BY <1>0, UnmapTable, Unmaps, Sizes DEF MInv, Idx, Kept
<1>2. /\ \A y \in Pages : y # UTable => tbl'[y] = tbl[y]
      /\ \A x \in Pages, k \in Idx : tbl'[x][k].to = tbl[x][k].to /\ (tbl'[x][k].p => tbl[x][k].p)
      /\ ~tbl'[UTable][op.j].p
  <2>1. CASE tbl' = [tbl EXCEPT ![UTable][op.j].p = FALSE]
    <3>1. /\ \A y \in Pages : y # UTable => tbl'[y] = tbl[y]
          /\ \A k \in Idx : k # op.j => tbl'[UTable][k] = tbl[UTable][k]
          /\ tbl'[UTable][op.j].p = FALSE /\ tbl'[UTable][op.j].to = tbl[UTable][op.j].to
      <4>1. BitCleared(tbl, tbl', UTable, op.j)
        BY <1>0, <1>1, <2>1, ClearBit DEF UnmapWhere
      <4> QED BY <4>1 DEF BitCleared
    <3> QED BY <3>1
  <2>2. CASE ~tbl[UTable][op.j].p /\ UNCHANGED tbl
    BY <2>2
  <2> QED BY <2>1, <2>2 DEF UnmapPage
<1>3. Less2(physpages, tbl, physpages', tbl')
  BY <1>0, <1>2 DEF Less2
<1>4. Mine(physpages, tbl, root_entry, load.sp, UTable)
  <2>1. op.i \in 0 .. Entries /\ op.i # Entries
    BY <1>1, Sizes DEF UnmapWhere
  <2> QED BY <1>0, <1>1, <2>1 DEF Mine, Has, At, UTable
<1>5. OthersAlone
  BY <1>0, <1>2, <1>4 DEF OthersAlone, Spared, Loader
<1>6. tbl'[Dir] = tbl[Dir]
  BY <1>1, <1>2 DEF UnmapWhere
<1>7. OwnPlaces
  <2>1. \A k \in 0 .. Entries :
           /\ Has(physpages', tbl', root_entry', load.sp, k) => Has(physpages, tbl, root_entry, load.sp, k)
           /\ At(tbl', root_entry', load.sp, k) = At(tbl, root_entry, load.sp, k)
    BY <1>0, <1>1, <1>6 DEF Has, At
  <2> QED BY <1>0, <2>1, OwnBefore DEF OwnPlaces
<1>8. Undef'
  <2>1. ~Mapping' /\ root_entry' = root_entry /\ pc' = pc /\ load' = load /\ cr3' = cr3
    BY <1>0, UnmapAdvances DEF UnmapAdvance, Loader
  <2>2. CASE pc = "undefined" /\ op.i = 0 /\ op.j = 0 /\ op.size = SIZE_MAX
    <3>1. CASE ~ReachM(physpages, tbl, cr3, 0).p
      BY <1>3, <1>5, <2>1, <3>1, UndefLess
    <3>2. CASE Dir = cr3 /\ UTable = tbl[Dir][0].to
      <4>1. ~tbl'[tbl'[cr3][0].to][0].p
        BY <1>2, <1>6, <2>2, <3>2
      <4>2. ~ReachM(physpages', tbl', cr3, 0).p
        BY <4>1, ReachZero
      <4> QED BY <2>1, <2>2, <4>2 DEF Undef, MInv
    <3> QED BY <1>0, <2>2, <3>1, <3>2, UndefFirst
  <2>3. CASE ~(op.i = 0 /\ op.j = 0 /\ op.size = SIZE_MAX)
    BY <1>3, <1>5, <2>1, <2>3, UndefLess DEF MInv, Undef
  <2>4. CASE pc # "undefined"
    BY <2>1, <2>4 DEF Undef
  <2> QED BY <2>2, <2>3, <2>4
<1> QED BY <1>0, <1>5, <1>7, <1>8, UnmapAlone DEF MInv

\* Pages, tables and directories stay: as in SkipTable.
LEMMA SameMemory ==
    ASSUME MInv, UNCHANGED <<Memory, cr3, Loader>>
    PROVE  OthersAlone /\ OwnPlaces /\ Less2(physpages, tbl, physpages', tbl') /\ root_entry' = root_entry
<1>1. physpages' = physpages /\ tbl' = tbl /\ root_entry' = root_entry /\ UNCHANGED <<cr3, pc, load, boot, lost>>
  BY DEF Memory, Loader
<1>2. OthersAlone /\ Less2(physpages, tbl, physpages', tbl')
  BY <1>1 DEF OthersAlone, Spared, Less2
<1> QED BY <1>1, <1>2, OwnBefore DEF OwnPlaces

LEMMA SkipTableStep ==
    ASSUME MInv, SkipTable, MTyped', Control' PROVE MInv' /\ OthersAlone
<1>0. /\ MTyped /\ Control /\ Unmapping /\ ~tbl[Dir][op.i].p /\ UNCHANGED <<Memory, cr3, Loader>>
  BY DEF MInv, SkipTable, InDir
<1>1. OthersAlone /\ OwnPlaces /\ Less2(physpages, tbl, physpages', tbl') /\ root_entry' = root_entry
  BY <1>0, SameMemory
<1>2. ~Mapping'
  BY <1>0, UnmapAdvances DEF UnmapAdvance
<1>3. pc = "undefined" => ~ReachM(physpages, tbl, cr3, 0).p
  BY <1>0, UndefFirst DEF MInv, Undef
<1>4. Undef'
  BY <1>1, <1>2, <1>3, UndefLess
<1> QED BY <1>0, <1>1, <1>4, UnmapAlone DEF MInv

LEMMA LeaveTableStep ==
    ASSUME MInv, LeaveTable, MTyped', Control' PROVE MInv' /\ OthersAlone
<1>0. /\ MTyped /\ Control /\ Unmapping /\ Dir \in physpages /\ tbl[Dir][op.i].p /\ op.i < Entries /\ op.j > 0
      /\ UNCHANGED <<root_entry, cr3, Loader>> /\ tbl \in Tables /\ physpages \in SUBSET Pages
  BY DEF MInv, LeaveTable, MTyped
<1>1. UnmapWhere /\ op.i \in Idx /\ Dir = root_entry[load.sp] /\ Dir \in Pages
  BY <1>0, UnmapTable, Unmaps DEF MInv, UnmapWhere
<1>2. OthersAlone /\ OwnPlaces /\ Less2(physpages, tbl, physpages', tbl')
  <2>1. CASE UNCHANGED <<physpages, tbl>>
    BY <1>0, <2>1, SameMemory DEF Memory
  <2>2. CASE physpages' = physpages \ {UTable} /\ tbl' = [tbl EXCEPT ![Dir][op.i].p = FALSE]
    <3>1. BitCleared(tbl, tbl', Dir, op.i)
      BY <1>0, <1>1, <2>2, ClearBit
    <3>2. Less2(physpages, tbl, physpages', tbl')
      BY <2>2, <3>1 DEF Less2, BitCleared
    <3>3. op.i \in 0 .. Entries /\ op.i # Entries /\ Entries \in 0 .. Entries
      BY <1>1, Sizes
    <3>4. /\ Has(physpages, tbl, root_entry, load.sp, op.i) /\ At(tbl, root_entry, load.sp, op.i) = UTable
          /\ Has(physpages, tbl, root_entry, load.sp, Entries) /\ At(tbl, root_entry, load.sp, Entries) = Dir
      BY <1>0, <1>1, <3>3 DEF Has, At, UTable
    <3>5. Mine(physpages, tbl, root_entry, load.sp, UTable) /\ Mine(physpages, tbl, root_entry, load.sp, Dir)
      BY <3>3, <3>4 DEF Mine
    <3>6. OthersAlone
      BY <1>0, <2>2, <3>1, <3>5 DEF OthersAlone, Spared, Loader, BitCleared
    <3>7. \A k \in 0 .. Entries : Has(physpages', tbl', root_entry', load.sp, k) =>
              /\ Has(physpages, tbl, root_entry, load.sp, k) /\ k # op.i
              /\ At(tbl', root_entry', load.sp, k) = At(tbl, root_entry, load.sp, k)
      <4>1. \A k \in 0 .. Entries : k # Entries => k \in Idx
        BY Sizes DEF Idx
      <4>2. root_entry'[load.sp] = Dir /\ Dir \in physpages
        BY <1>0, <1>1
      <4> QED BY <1>1, <3>1, <3>3, <4>1, <4>2 DEF Has, At, BitCleared
    <3>8. OwnPlaces
      BY <2>2, <3>3, <3>4, <3>7, OwnBefore DEF OwnPlaces
    <3> QED BY <3>2, <3>6, <3>8
  <2> QED BY <2>1, <2>2 DEF LeaveTable, physpage_free
<1>3. ~Mapping' /\ root_entry' = root_entry
  BY <1>0, UnmapAdvances DEF UnmapAdvance
<1>4. pc = "undefined" => ~ReachM(physpages, tbl, cr3, 0).p
  BY <1>0 DEF MInv, Undef
<1>5. Undef'
  BY <1>2, <1>3, <1>4, UndefLess
<1> QED BY <1>0, <1>2, <1>3, <1>5, UnmapAlone DEF MInv

LEMMA LeaveDirectoryStep ==
    ASSUME MInv, LeaveDirectory, MTyped', Control' PROVE MInv' /\ OthersAlone
<1>0. /\ MTyped /\ Control /\ Unmapping /\ op.j = 0 /\ (Dir \notin physpages \/ op.i = Entries \/ op.size = 0)
      /\ UNCHANGED <<tbl, root_entry, cr3, Loader>> /\ Dir = root_entry[load.sp] /\ ~Mapping'
  BY OpSpace DEF MInv, LeaveDirectory, Dir, Mapping, NoOp
<1>1. OthersAlone /\ OwnPlaces /\ Less2(physpages, tbl, physpages', tbl')
  <2>1. CASE physpages' = physpages
    BY <1>0, <2>1, SameMemory DEF Memory
  <2>2. CASE Dir \in physpages /\ physpages' = physpages \ {Dir}
    <3>1. Mine(physpages, tbl, root_entry, load.sp, Dir)
      BY <1>0, <2>2, Sizes DEF Mine, Has, At
    <3>2. OthersAlone
      BY <1>0, <2>2, <3>1 DEF OthersAlone, Spared, Loader
    <3>3. \A k : ~Has(physpages', tbl', root_entry', load.sp, k)
      BY <1>0, <2>2 DEF Has
    <3> QED BY <1>0, <2>2, <3>2, <3>3 DEF OwnPlaces, Less2
  <2> QED BY <2>1, <2>2 DEF LeaveDirectory, physpage_free
<1>2. pc = "undefined" => ~ReachM(physpages, tbl, cr3, 0).p
  <2>1. Entries # 0 /\ SIZE_MAX # 0
    BY Sizes, SizeMax
  <2> QED BY <1>0, <2>1, UndefFirst DEF MInv, Undef
<1>3. Undef'
  BY <1>0, <1>1, <1>2, UndefLess
<1> QED BY <1>0, <1>1, <1>3, UnmapAlone DEF MInv

-----------------------------------------------------------------------------
(* Boot, load and close: pages, tables and directories stay. *)

\* The directory of a space that has been made maps the kernel.
LEMMA MadeMapsKernel ==
    ASSUME MInv, Making, root_entry[load.sp] \in physpages, KFront = KMAP_MAX
    PROVE  MapsKernel(physpages, tbl, root_entry[load.sp])
<1>1. load.sp \in Kept /\ OwnedM(physpages, tbl, root_entry, Kept)
  BY DEF Kept, MInv, Owned
<1>2. TablesApart(physpages, tbl, root_entry[load.sp])
  BY <1>1, OwnedTables
<1>3. root_entry[load.sp] # 0
  BY PagesSpaces DEF MInv, MTyped
<1>4. KernelPages(tbl, root_entry[load.sp], KMAP_MAX)
  BY <1>3 DEF MInv, Built, BuiltM
<1> QED BY <1>2, <1>4, BuiltMaps

\* A space that is made has a directory when nothing is left to map.
LEMMA MadeInUse ==
    ASSUME MInv, Quiet, pc \in {"init_pm", "init"}
    PROVE  root_entry[load.sp] \in physpages /\ root_entry[load.sp] # 0 /\ KFront = KMAP_MAX
<1>1. ~Mapping
  BY OpTypes DEF MInv
<1> QED BY <1>1 DEF MInv, Roots, KFront

LEMMA LoadKernel ==
    ASSUME MInv, pc = "load"
    PROVE  /\ cr3 = root_entry[load.sp] /\ cr3 \in physpages /\ cr3 # 0 /\ KFront = KMAP_MAX /\ Making
           /\ MapsKernel(physpages, tbl, cr3)
<1>1. cr3 = root_entry[load.sp] /\ cr3 \in physpages /\ KFront = KMAP_MAX /\ Making
  BY DEF MInv, Cr3Kept, OwnCr3, Off, KFront, Making
<1> QED BY <1>1, MadeMapsKernel, PagesSpaces DEF MInv, MTyped

LEMMA InitKernel ==
    ASSUME MInv, ~Off, pc # "undefined", ~OwnCr3
    PROVE  /\ MapsKernel(physpages, tbl, root_entry[kernel_addrspc]) /\ MapsKernel(physpages, tbl, cr3)
           /\ cr3 \in {root_entry[kernel_addrspc], root_entry[lost]} /\ cr3 \in physpages
BY MapsKernelIn DEF MInv, Cr3Kept

\* While it is made, the space of the load is not the one in CR3.
LEMMA Cr3Differs ==
    ASSUME MInv, pc = "init"
    PROVE  cr3 # root_entry[load.sp]
<1>1. cr3 \in {root_entry[kernel_addrspc], root_entry[lost]} /\ cr3 \in physpages
  BY InitKernel DEF Off, OwnCr3
<1>2. kernel_addrspc # load.sp /\ lost # load.sp
  BY SpacesApart DEF MInv, Loading
<1>3. PICK s \in Kept : s # load.sp /\ cr3 = root_entry[s]
  BY <1>1, <1>2 DEF Kept
<1>4. load.sp \in Kept /\ OwnedM(physpages, tbl, root_entry, Kept) /\ Entries \in 0 .. Entries
  BY Sizes DEF Kept, MInv, Owned
<1>5. At(tbl, root_entry, s, Entries) = root_entry[s] /\ At(tbl, root_entry, load.sp, Entries) = root_entry[load.sp]
  BY DEF At
<1> SUFFICES ASSUME cr3 = root_entry[load.sp] PROVE FALSE
  OBVIOUS
<1>6. Has(physpages, tbl, root_entry, s, Entries) /\ Has(physpages, tbl, root_entry, load.sp, Entries)
  BY <1>1, <1>3 DEF Has
<1> QED BY <1>3, <1>4, <1>5, <1>6 DEF OwnedM

LEMMA OwnedLoader ==
    ASSUME MInv, UNCHANGED Memory,
           \A s \in Kept' : s \in Kept \/ root_entry[s] \notin physpages
    PROVE  Owned'
<1>1. physpages' = physpages /\ tbl' = tbl /\ root_entry' = root_entry
  BY DEF Memory
<1>2. OwnedM(physpages, tbl, root_entry, Kept)
  BY DEF MInv, Owned
<1>3. \A s, k : Has(physpages, tbl, root_entry, s, k) => root_entry[s] \in physpages
  BY DEF Has
<1>4. OwnedM(physpages, tbl, root_entry, Kept')
  BY <1>2, <1>3 DEF OwnedM
<1> QED BY <1>1, <1>4 DEF Owned

LEMMA BootStep ==
    ASSUME MInv, init_pm \/ init_cpu_pm, MTyped', Control' PROVE MInv'
<1>0. MTyped /\ Control /\ Roots /\ UNCHANGED <<physpages, tbl, root_entry, load, boot, lost>> /\ UNCHANGED Memory
      /\ load.sp = 0 /\ lost = 0
  BY DEF MInv, Control, Off, init_pm, init_cpu_pm, Memory
<1>1. Owned'
  BY <1>0, OwnedLoader DEF Kept
<1>2. CASE init_pm
  <2>1. Mapping' /\ op'.vp = 0 /\ pc = "off" /\ pc' = "init_pm"
    BY <1>2, InitBegins, PagesSpaces DEF init_pm
  <2>2. root_entry[load.sp] = 0
    BY <1>0, <2>1 DEF Roots, kernel_addrspc
  <2>3. Roots' /\ Built'
    BY <1>0, <2>1, <2>2 DEF Roots, Built, kernel_addrspc
  <2>4. Cr3Kept' /\ Undef'
    BY <2>1 DEF Cr3Kept, Off, Undef
  <2> QED BY <1>1, <2>3, <2>4 DEF MInv
<1>3. CASE init_cpu_pm
  <2>1. pc = "init_pm" /\ Quiet /\ pc' = "prompt" /\ cr3' = root_entry[load.sp] /\ kernel_addrspc = load.sp /\ Making
    BY <1>0, <1>3, PagesSpaces DEF init_cpu_pm, Making
  <2>2. root_entry[load.sp] \in physpages /\ KFront = KMAP_MAX
    BY <2>1, MadeInUse
  <2>3. MapsKernel(physpages, tbl, root_entry[load.sp])
    BY <2>1, <2>2, MadeMapsKernel
  <2>4. ~OwnCr3' /\ ~Making'
    BY <2>1 DEF OwnCr3, Making
  <2>5. Cr3Kept'
    BY <1>0, <2>1, <2>3, <2>4 DEF Cr3Kept
  <2>6. Roots' /\ Undef' /\ Built'
    BY <1>0, <2>1, <2>2, <2>4 DEF Roots, Undef, Built
  <2> QED BY <1>1, <2>5, <2>6 DEF MInv
<1> QED BY <1>2, <1>3

LEMMA LoadPathStep ==
    ASSUME MInv, NEW prog \in Programs, process_load_path(prog), MTyped', Control' PROVE MInv'
<1>0. /\ MTyped /\ Control /\ Roots /\ UNCHANGED <<physpages, tbl, root_entry, cr3, boot, lost>> /\ UNCHANGED Memory
      /\ pc = "prompt" /\ pc' = "init"
  BY DEF MInv, process_load_path, Memory
<1>1. load'.sp = load.sp + 1 /\ load'.sp \in Spaces
  BY <1>0, LoadPath
<1>2. Mapping' /\ op'.vp = 0
  BY <1>1, InitBegins DEF process_load_path
<1>3. load.sp \in Nat /\ \A s \in Spaces : s \in Nat
  BY <1>0, LoadTypes, PagesSpaces
<1>4. root_entry[load'.sp] = 0 /\ \A s \in Spaces : s > load'.sp => root_entry[s] = 0
  BY <1>0, <1>1, <1>3 DEF Roots
<1>5. 0 \notin physpages
  BY <1>0, PagesSpaces DEF MTyped
<1>6. Owned'
  BY <1>0, <1>4, <1>5, OwnedLoader DEF Kept
<1>7. Roots'
  BY <1>0, <1>2, <1>4 DEF Roots
<1>8. Cr3Kept'
  <2>1. ~Off /\ ~OwnCr3 /\ ~OwnCr3'
    BY <1>0 DEF Off, OwnCr3
  <2>2. /\ MapsKernel(physpages, tbl, root_entry[kernel_addrspc]) /\ MapsKernel(physpages, tbl, cr3)
        /\ cr3 \in {root_entry[kernel_addrspc], root_entry[lost]}
    BY <1>0, <2>1, InitKernel
  <2> QED BY <1>0, <2>1, <2>2 DEF Cr3Kept
<1>9. Undef' /\ Built'
  BY <1>0, <1>4 DEF Undef, Built
<1> QED BY <1>6, <1>7, <1>8, <1>9 DEF MInv

LEMMA LoadStackStep ==
    ASSUME MInv, LoadStack, MTyped', Control' PROVE MInv'
<1> DEFINE d == root_entry[load.sp]
<1>0. /\ MTyped /\ Control /\ Roots /\ UNCHANGED <<physpages, tbl, root_entry, load, boot, lost>> /\ UNCHANGED Memory
      /\ pc = "init" /\ Quiet /\ pc' = "load" /\ cr3' = d /\ load \in Loads /\ load.i = 0
      /\ load.sp \in Spaces
  BY LoadTypes DEF MInv, LoadStack, Memory, Control
<1>1. [w |-> TRUE, u |-> TRUE] \in Flags /\ USTACK_DFLT - StackPages \in Nat /\ StackPages \in Nat
  BY PageMapAssumption DEF Flags
<1>2. Mapping' /\ op'.vp = USTACK_DFLT - StackPages
  BY <1>0, <1>1, MapBegins DEF LoadStack
<1>3. d \in physpages /\ d # 0 /\ KFront = KMAP_MAX
  BY <1>0, MadeInUse
<1>4. Owned'
  BY <1>0, OwnedLoader DEF Kept
<1>5. Roots'
  BY <1>0, <1>3 DEF Roots
<1>6. Cr3Kept'
  <2>1. MapsKernel(physpages, tbl, root_entry[kernel_addrspc])
    BY <1>0, InitKernel DEF Off, OwnCr3
  <2> QED BY <1>0, <1>3, <2>1 DEF Cr3Kept, OwnCr3
<1>7. Built'
  <2>1. Dominates(tbl, d) /\ KernelPages(tbl, d, KMAP_MAX) /\ NoUser(tbl, d)
    BY <1>0, <1>3 DEF MInv, Built, BuiltM, Making
  <2>2. UserPages(tbl, d, load, USTACK_DFLT - StackPages)
    BY <1>0, <2>1, UserPagesStack
  <2>3. KFront' = KMAP_MAX /\ UFront' = USTACK_DFLT - StackPages
    BY <1>0, <1>2 DEF KFront, UFront
  <2> QED BY <1>0, <2>1, <2>2, <2>3 DEF Built, BuiltM
<1>8. Undef'
  BY <1>0 DEF Undef
<1> QED BY <1>4, <1>5, <1>6, <1>7, <1>8 DEF MInv

LEMMA LoadSegmentStep ==
    ASSUME MInv, LoadSegment, MTyped', Control' PROVE MInv'
<1> DEFINE d == root_entry[load.sp]
           seg == load.prog[load.i + 1]
<1>0. /\ MTyped /\ Control /\ Roots /\ UNCHANGED <<physpages, tbl, root_entry, cr3, pc, boot, lost>> /\ UNCHANGED Memory
      /\ pc = "load" /\ Quiet /\ load \in Loads /\ load.sp \in Spaces /\ ~Mapping
  BY LoadTypes, OpTypes DEF MInv, LoadSegment, Memory
<1>1. /\ load' \in Loads /\ load'.sp = load.sp /\ load'.prog = load.prog /\ load'.i = load.i + 1
      /\ load'.i <= Len(load.prog) /\ Region(load', load'.i) = seg /\ seg \in Segment
  BY <1>0, LoadSegmentNext
<1>2. Mapping' /\ op'.vp = seg.vp
  <2>1. seg.vp \in Nat /\ seg.n \in Nat /\ [w |-> seg.w, u |-> TRUE] \in Flags
    BY <1>1 DEF Segment, Flags
  <2>2. addrspc_map(load.sp, seg.vp, seg.n, [w |-> seg.w, u |-> TRUE])
    BY DEF LoadSegment
  <2> QED BY <1>0, <2>1, <2>2, MapBegins
<1>3. cr3 = d /\ d \in physpages /\ d # 0 /\ Making
  BY <1>0, LoadKernel
<1>4. Owned'
  BY <1>0, <1>1, OwnedLoader DEF Kept
<1>5. Roots'
  BY <1>0, <1>1, <1>3 DEF Roots
<1>6. Cr3Kept'
  BY <1>0, <1>1, <1>3 DEF MInv, Cr3Kept, OwnCr3, Off
<1>7. Built'
  <2>1. UFront = Entries * Entries /\ KFront = KMAP_MAX
    BY <1>0 DEF UFront, KFront
  <2>2. Dominates(tbl, d) /\ KernelPages(tbl, d, KMAP_MAX) /\ UserPages(tbl, d, load, Entries * Entries)
    BY <1>0, <1>3, <2>1 DEF MInv, Built, BuiltM
  <2>3. UserPages(tbl, d, load', Region(load', load'.i).vp)
    BY <1>0, <1>1, <2>2, UserPagesSegment
  <2>4. KFront' = KMAP_MAX /\ UFront' = Region(load', load'.i).vp
    BY <1>0, <1>1, <1>2 DEF KFront, UFront
  <2> QED BY <1>0, <1>1, <2>2, <2>3, <2>4 DEF Built, BuiltM
<1>8. Undef'
  BY <1>0 DEF Undef
<1> QED BY <1>4, <1>5, <1>6, <1>7, <1>8 DEF MInv

LEMMA LoadDoneStep ==
    ASSUME MInv, LoadDone, MTyped', Control' PROVE MInv'
<1>0. /\ MTyped /\ Control /\ Roots /\ UNCHANGED <<physpages, tbl, root_entry, cr3, op, load, boot, lost>>
      /\ pc = "load" /\ pc' = "run" /\ Quiet /\ load.i = Len(load.prog) /\ ~Mapping /\ UNCHANGED Memory
  BY OpTypes DEF MInv, LoadDone, Memory
<1>1. cr3 = root_entry[load.sp] /\ cr3 \in physpages /\ cr3 # 0 /\ Making
  BY <1>0, LoadKernel
<1>2. Owned'
  BY <1>0, OwnedLoader DEF Kept
<1>3. Roots' /\ Undef'
  BY <1>0 DEF Roots, Undef
<1>4. Cr3Kept'
  BY <1>0, <1>1 DEF MInv, Cr3Kept, OwnCr3, Off, Quiet
<1>5. Built'
  <2>1. KFront' = KFront /\ UFront' = UFront
    BY <1>0 DEF KFront, UFront, Mapping
  <2>2. BuiltM(tbl, root_entry[load.sp])
    BY <1>1 DEF MInv, Built
  <2> QED BY <1>0, <2>1, <2>2 DEF Built, BuiltM
<1> QED BY <1>2, <1>3, <1>4, <1>5 DEF MInv

LEMMA LoadFailsStep ==
    ASSUME MInv, LoadFails, MTyped', Control' PROVE MInv'
<1>0. /\ MTyped /\ Control /\ Roots /\ UNCHANGED <<physpages, tbl, root_entry, cr3, load, boot, lost>>
      /\ pc \in {"init", "load"} /\ pc' = (IF pc = "init" THEN "run" ELSE "undefined")
      /\ UNCHANGED Memory /\ load.sp \in Spaces
  BY LoadTypes DEF MInv, LoadFails, Memory
<1>1. Unmapping' /\ ~Mapping' /\ op'.i = 0 /\ op'.j = 0 /\ op'.size = SIZE_MAX
  BY <1>0, CleanupBegins DEF LoadFails
<1>2. Owned'
  BY <1>0, OwnedLoader DEF Kept
<1>3. Roots'
  BY <1>0 DEF Roots
<1>4. CASE pc = "init"
  <2>1. cr3 # root_entry[load.sp]
    BY <1>4, Cr3Differs
  <2>2. ~OwnCr3' /\ ~Making'
    BY <1>0, <1>4, <2>1 DEF OwnCr3, Making
  <2>3. /\ MapsKernel(physpages, tbl, root_entry[kernel_addrspc]) /\ MapsKernel(physpages, tbl, cr3)
        /\ cr3 \in {root_entry[kernel_addrspc], root_entry[lost]}
    BY <1>4, InitKernel DEF Off, OwnCr3
  <2>4. Cr3Kept'
    BY <1>0, <2>2, <2>3 DEF Cr3Kept
  <2>5. Undef' /\ Built'
    BY <1>0, <1>4, <2>2 DEF Undef, Built
  <2> QED BY <1>2, <1>3, <2>4, <2>5 DEF MInv
<1>5. CASE pc = "load"
  <2>1. cr3 = root_entry[load.sp] /\ MapsKernel(physpages, tbl, cr3) /\ pc' = "undefined"
    BY <1>0, <1>5, LoadKernel
  <2>2. Undef'
    BY <1>0, <1>1, <2>1 DEF Undef
  <2>3. Cr3Kept' /\ Built'
    BY <2>1 DEF Cr3Kept, Built, Making, OwnCr3
  <2> QED BY <1>2, <1>3, <2>2, <2>3 DEF MInv
<1> QED BY <1>0, <1>4, <1>5

LEMMA CloseStep ==
    ASSUME MInv, process_close \/ Closed, MTyped', Control' PROVE MInv'
<1>0. /\ MTyped /\ Control /\ Roots /\ UNCHANGED <<physpages, tbl, root_entry, load, lost>>
      /\ pc \in {"run", "closed"} /\ pc' \in {"closed", "prompt"} /\ UNCHANGED Memory
  BY DEF MInv, process_close, Closed, Memory
<1>1. Owned'
  BY <1>0, OwnedLoader DEF Kept
<1>2. ~OwnCr3' /\ ~Making'
  BY <1>0 DEF OwnCr3, Making
<1>3. Roots' /\ Undef' /\ Built'
  BY <1>0, <1>2 DEF Roots, Undef, Built
<1>4. MapsKernel(physpages, tbl, root_entry[kernel_addrspc])
  BY <1>0 DEF MInv, Cr3Kept, Off
<1>5. cr3' \in {root_entry[kernel_addrspc], root_entry[lost]} /\ MapsKernel(physpages, tbl, cr3')
  <2>1. CASE process_close
    BY <1>4, <2>1 DEF process_close
  <2>2. CASE Closed
    BY <2>2, InitKernel DEF Closed, Off, OwnCr3
  <2> QED BY <2>1, <2>2
<1>6. Cr3Kept'
  BY <1>0, <1>2, <1>4, <1>5 DEF Cr3Kept
<1> QED BY <1>1, <1>3, <1>6 DEF MInv

LEMMA TickStep ==
    ASSUME MInv, Tick, MTyped', Control' PROVE MInv'
<1>0. /\ MTyped /\ Control /\ Roots /\ UNCHANGED <<physpages, tbl, root_entry, cr3, load>> /\ UNCHANGED Memory
      /\ pc \in {"prompt", "init", "load"} /\ pc' = "prompt" /\ lost = kernel_addrspc
      /\ lost' = (IF pc = "prompt" THEN lost ELSE load.sp)
  BY DEF MInv, Control, Tick, Memory
<1>1. Owned'
  BY <1>0, OwnedLoader DEF Kept
<1>2. ~OwnCr3' /\ ~Making'
  BY <1>0 DEF OwnCr3, Making
<1>3. Roots' /\ Undef' /\ Built'
  BY <1>0, <1>2 DEF Roots, Undef, Built
<1>4. MapsKernel(physpages, tbl, root_entry[kernel_addrspc])
  BY <1>0 DEF MInv, Cr3Kept, Off
<1>5. cr3 \in {root_entry[kernel_addrspc], root_entry[lost']} /\ MapsKernel(physpages, tbl, cr3)
  <2>1. CASE pc = "load"
    BY <1>0, <2>1, LoadKernel
  <2>2. CASE pc # "load"
    BY <1>0, <2>2, InitKernel DEF Off, OwnCr3
  <2> QED BY <2>1, <2>2
<1>6. Cr3Kept'
  BY <1>0, <1>2, <1>4, <1>5 DEF Cr3Kept
<1> QED BY <1>1, <1>3, <1>6 DEF MInv

LEMMA MInit == Init => MInv
<1> SUFFICES ASSUME Init PROVE MInv
  OBVIOUS
<1>1. MTyped
  BY TypedInit
<1>2. pc = "off" /\ op = NoOp /\ load.sp = 0 /\ load.i = 0 /\ load.prog = <<>> /\ lost = 0 /\ cr3 = 0 /\ physpages = {}
  BY DEF Init, kernel_addrspc
<1>3. Quiet /\ ~Mapping /\ ~Unmapping
  BY <1>2 DEF Quiet, Mapping, Unmapping, NoOp
<1>4. Control
  BY <1>2, <1>3 DEF Control, Off, Loading, kernel_addrspc
<1>5. \A s \in Spaces : root_entry[s] = 0
  BY DEF Init
<1>6. Roots
  BY <1>2, <1>5, PagesSpaces DEF Roots
<1>7. Owned
  BY <1>2 DEF Owned, OwnedM, Has
<1>8. Cr3Kept /\ Undef
  BY <1>2 DEF Cr3Kept, Off, Undef
<1>9. Built
  BY <1>2 DEF Built, Making, OwnCr3
<1> QED BY <1>1, <1>4, <1>6, <1>7, <1>8, <1>9 DEF MInv

LEMMA MNext ==
    ASSUME MInv, [Next]_vars PROVE MInv'
<1>1. CASE Next
  <2>1. MTyped'
    BY <1>1, TypedNext
  <2>2. Control'
    BY <1>1, ControlMemory, ControlLoader, NextSteps
  <2>3. CASE NewDirectory
    BY <2>1, <2>2, <2>3, NewDirectoryStep
  <2>4. CASE NewTable
    BY <2>1, <2>2, <2>4, NewTableStep
  <2>5. CASE MapPage
    BY <2>1, <2>2, <2>5, MapPageStep
  <2>6. CASE SkipTable
    BY <2>1, <2>2, <2>6, SkipTableStep
  <2>7. CASE UnmapPage
    BY <2>1, <2>2, <2>7, UnmapPageStep
  <2>8. CASE LeaveTable
    BY <2>1, <2>2, <2>8, LeaveTableStep
  <2>9. CASE LeaveDirectory
    BY <2>1, <2>2, <2>9, LeaveDirectoryStep
  <2>10. CASE init_pm \/ init_cpu_pm
    BY <2>1, <2>2, <2>10, BootStep
  <2>11. CASE \E prog \in Programs : process_load_path(prog)
    BY <2>1, <2>2, <2>11, LoadPathStep
  <2>12. CASE LoadStack
    BY <2>1, <2>2, <2>12, LoadStackStep
  <2>13. CASE LoadSegment
    BY <2>1, <2>2, <2>13, LoadSegmentStep
  <2>14. CASE LoadDone
    BY <2>1, <2>2, <2>14, LoadDoneStep
  <2>15. CASE LoadFails
    BY <2>1, <2>2, <2>15, LoadFailsStep
  <2>16. CASE process_close \/ Closed
    BY <2>1, <2>2, <2>16, CloseStep
  <2>17. CASE Tick
    BY <2>1, <2>2, <2>17, TickStep
  <2> QED BY <1>1, <2>3, <2>4, <2>5, <2>6, <2>7, <2>8, <2>9, <2>10, <2>11, <2>12, <2>13, <2>14, <2>15, <2>16, <2>17
          DEF Next
<1>2. CASE UNCHANGED vars
  <2>1. UNCHANGED <<physpages, tbl, root_entry, cr3, op, pc, load, boot, lost>>
    BY <1>2 DEF vars
  <2> QED BY <2>1 DEF MInv, MTyped, Control, Roots, Owned, Kept, Cr3Kept, Undef, Built, BuiltM, KFront, UFront,
          Making, OwnCr3, Off, Loading, Mapping, Unmapping, Quiet
<1> QED BY <1>1, <1>2

-----------------------------------------------------------------------------
(* What follows. *)

LEMMA ReachIs ==
    ASSUME NEW d, NEW vp
    PROVE  Reach(d, vp) = ReachM(physpages, tbl, d, vp)
BY Zenon DEF Reach, ReachM

\* A page that is mapped as f is reached as f.
LEMMA ReachMapped ==
    ASSUME MInv, NEW s \in Kept, root_entry[s] \in physpages, Dominates(tbl, root_entry[s]),
           NEW vp \in VPages, NEW f \in Flags, MappedAs(tbl, root_entry[s], vp, f)
    PROVE  Reach(root_entry[s], vp) = pme_pack(vp, f)
<1> DEFINE d == root_entry[s]
           e == tbl[d][DirIdx(vp)]
           g == tbl[e.to][TblIdx(vp)]
<1>1. DirIdx(vp) \in Idx /\ TblIdx(vp) \in Idx
  BY Places
<1>2. e.p /\ g.p /\ g = pme_pack(vp, f)
  BY DEF MappedAs, Mapped, PageEntry
<1>3. e.to \in physpages
  <2>1. TablesApart(physpages, tbl, d)
    BY OwnedTables DEF MInv, Owned
  <2> QED BY <1>1, <1>2, <2>1 DEF TablesApart
<1>4. Includes(e, g)
  BY <1>1, <1>2 DEF Dominates
<1>5. g.w = f.w /\ g.u = f.u /\ g.to = vp /\ f.w \in BOOLEAN /\ f.u \in BOOLEAN
  BY <1>2 DEF pme_pack, Flags
<1>6. (e.w /\ g.w) = f.w /\ (e.u /\ g.u) = f.u
  BY <1>4, <1>5, Zenon DEF Includes
<1>7. Reach(d, vp) = [p |-> TRUE, to |-> g.to, w |-> e.w /\ g.w, u |-> e.u /\ g.u]
  BY <1>2, <1>3, Zenon DEF Reach
<1>8. Reach(d, vp) = [p |-> TRUE, to |-> vp, w |-> f.w, u |-> f.u]
  BY <1>5, <1>6, <1>7, Zenon
<1> QED BY <1>8, Zenon DEF pme_pack

LEMMA ReachUnmapped ==
    ASSUME NEW d, NEW vp, ~Mapped(tbl, d, vp)
    PROVE  Reach(d, vp) = NoEntry
BY Zenon DEF Reach, Mapped, PageEntry

\* A set of numbers up to n that is not empty has a greatest.
LEMMA Greatest ==
    ASSUME NEW n \in Nat, NEW S \in SUBSET (0 .. n), S # {}
    PROVE  \E x \in S : \A y \in S : y <= x
<1> DEFINE T == {z \in Nat : n - z \in S}
           R == OpToRel(<, Nat)
<1>1. T \in SUBSET Nat /\ T # {}
  <2>1. PICK x \in S : TRUE
    OBVIOUS
  <2>2. n - x \in Nat /\ n - (n - x) = x
    OBVIOUS
  <2> QED BY <2>1, <2>2
<1>2. IsWellFoundedOn(R, Nat)
  BY NatLessThanWellFounded
<1>3. PICK z \in T : \A y \in T : ~ (<<y, z>> \in R)
  <2> HIDE DEF R, T
  <2> QED BY <1>1, <1>2, WFMin
<1>4. \A y \in T : ~(y < z)
  BY <1>3 DEF OpToRel
<1>5. ASSUME NEW y \in S PROVE y <= n - z
  <2>1. n - y \in Nat /\ n - (n - y) = y
    OBVIOUS
  <2>2. n - y \in T
    BY <2>1
  <2>3. ~(n - y < z)
    BY <1>4, <2>2
  <2> QED BY <2>1, <2>3
<1> QED BY <1>3, <1>5

LEMMA MKernelMapped ==
    ASSUME MInv PROVE KernelMapped
<1>1. ASSUME cr3 # 0, pc # "undefined" PROVE KernelIn(cr3)
  <2>1. ~Off
    BY <1>1 DEF MInv, Control
  <2>2. MapsKernel(physpages, tbl, cr3)
    <3>1. CASE OwnCr3
      <4>1. cr3 = root_entry[load.sp] /\ cr3 \in physpages /\ Making /\ KFront = KMAP_MAX
        BY <1>1, <2>1, <3>1, OpTypes DEF MInv, Cr3Kept, Making, KFront, OwnCr3
      <4> QED BY <4>1, MadeMapsKernel
    <3>2. CASE ~OwnCr3
      BY <1>1, <2>1, <3>2, InitKernel
    <3> QED BY <3>1, <3>2
  <2> QED BY <2>2, ReachIs DEF KernelIn, MapsKernel
<1>2. ASSUME pc = "undefined", Quiet PROVE ~KernelIn(cr3)
  <2>1. ~ReachM(physpages, tbl, cr3, 0).p
    BY <1>2, OpTypes DEF MInv, Undef
  <2>2. 0 \in 0 .. KMAP_MAX - 1
    BY Sizes
  <2>3. Reach(cr3, 0) # pme_pack(0, KFLAGS)
    BY <2>1, ReachIs DEF pme_pack
  <2> QED BY <2>2, <2>3 DEF KernelIn
<1> QED BY <1>1, <1>2 DEF KernelMapped

LEMMA MPagesApart ==
    ASSUME MInv PROVE PagesApart
<1>1. Live \subseteq Kept
  BY DEF Live, Kept
<1>2. ASSUME NEW a \in UNION {Links(s) : s \in Live}
      PROVE  \E s \in Kept, k \in 0 .. Entries :
                a = <<s, k, At(tbl, root_entry, s, k)>> /\ Has(physpages, tbl, root_entry, s, k)
  <2>1. PICK s \in Live : a \in Links(s)
    OBVIOUS
  <2>2. root_entry[s] \in physpages
    BY <2>1 DEF Links
  <2>3. a = <<s, Entries, root_entry[s]>>
        \/ \E k \in Idx : tbl[root_entry[s]][k].p /\ a = <<s, k, tbl[root_entry[s]][k].to>>
    BY <2>1, <2>2 DEF Links
  <2>4. CASE a = <<s, Entries, root_entry[s]>>
    BY <1>1, <2>2, <2>4, Sizes DEF At, Has
  <2>5. ASSUME NEW k \in Idx, tbl[root_entry[s]][k].p, a = <<s, k, tbl[root_entry[s]][k].to>>
        PROVE  \E t \in Kept, l \in 0 .. Entries :
                  a = <<t, l, At(tbl, root_entry, t, l)>> /\ Has(physpages, tbl, root_entry, t, l)
    <3>1. k \in 0 .. Entries /\ k # Entries
      BY Sizes
    <3>2. a = <<s, k, At(tbl, root_entry, s, k)>> /\ Has(physpages, tbl, root_entry, s, k)
      BY <2>2, <2>5, <3>1 DEF At, Has
    <3> QED BY <1>1, <3>1, <3>2
  <2> QED BY <2>3, <2>4, <2>5
<1>3. ASSUME NEW a \in UNION {Links(s) : s \in Live}, NEW b \in UNION {Links(s) : s \in Live}
      PROVE  a[3] \in physpages /\ (a[3] = b[3] => a = b)
  <2>1. PICK s \in Kept, k \in 0 .. Entries :
                a = <<s, k, At(tbl, root_entry, s, k)>> /\ Has(physpages, tbl, root_entry, s, k)
    BY <1>2
  <2>2. PICK t \in Kept, l \in 0 .. Entries :
                b = <<t, l, At(tbl, root_entry, t, l)>> /\ Has(physpages, tbl, root_entry, t, l)
    BY <1>2
  <2>3. a[3] = At(tbl, root_entry, s, k) /\ b[3] = At(tbl, root_entry, t, l)
    BY <2>1, <2>2
  <2>4. /\ At(tbl, root_entry, s, k) \in physpages
        /\ At(tbl, root_entry, s, k) = At(tbl, root_entry, t, l) => s = t /\ k = l
    BY <2>1, <2>2 DEF MInv, Owned, OwnedM
  <2> QED BY <2>1, <2>2, <2>3, <2>4
<1> QED BY <1>3 DEF PagesApart

LEMMA MPermissionsExact ==
    ASSUME MInv PROVE PermissionsExact
<1> SUFFICES ASSUME pc = "run", Quiet, cr3 = root_entry[load.sp], NEW vp \in VPages \ 0 .. KMAP_MAX - 1
             PROVE  LET s == SegsAt(vp)
                        w == IF s = {} THEN TRUE ELSE load.prog[CHOOSE k \in s : \A j \in s : j <= k].w
                    IN  Reach(root_entry[load.sp], vp) =
                          IF vp \in Stack \/ s # {} THEN pme_pack(vp, [w |-> w, u |-> TRUE]) ELSE NoEntry
  BY DEF PermissionsExact
<1> DEFINE d == root_entry[load.sp]
           last == Entries * Entries
<1>1. /\ MTyped /\ Control /\ d \in physpages /\ d # 0 /\ Making /\ load.i = Len(load.prog) /\ ~Mapping /\ load.sp \in Kept
  BY OpTypes, PagesSpaces DEF MInv, Cr3Kept, OwnCr3, Off, Making, Kept, MTyped
<1>2. Dominates(tbl, d) /\ UserPages(tbl, d, load, last)
  BY <1>1 DEF MInv, Built, BuiltM, UFront
<1>3. vp \in KMAP_MAX .. Entries * Entries - 1 /\ vp \in Nat /\ vp < last
  BY Sizes DEF VPages
<1>4. load \in Loads /\ load.i \in Nat /\ load.prog \in Seq(Segment)
  BY <1>1, LoadTypes
<1> HIDE DEF last
<1>5. /\ (\A k \in 0 .. load.i : ~Done(load, last, k, vp)) => ~Mapped(tbl, d, vp)
      /\ \A k \in 0 .. load.i : LastDone(load, last, k, vp) =>
            MappedAs(tbl, d, vp, [w |-> Region(load, k).w, u |-> TRUE])
  BY <1>2, <1>3 DEF UserPages
<1>6. ASSUME NEW k \in 0 .. load.i, LastDone(load, last, k, vp)
      PROVE  Reach(d, vp) = pme_pack(vp, [w |-> Region(load, k).w, u |-> TRUE])
  <2>1. Region(load, k) \in Segment
    BY <1>1, <1>4, RegionType
  <2>2. [w |-> Region(load, k).w, u |-> TRUE] \in Flags
    BY <2>1 DEF Segment, Flags
  <2> QED BY <1>1, <1>2, <1>5, <1>6, <2>2, ReachMapped
<1>7. vp \in Stack <=> Done(load, last, 0, vp)
  <2>1. USTACK_DFLT \in Nat /\ StackPages \in Nat /\ USTACK_DFLT - StackPages \in Nat
    BY PageMapAssumption
  <2>2. Region(load, 0).vp = USTACK_DFLT - StackPages /\ Region(load, 0).n = StackPages
    BY DEF Region
  <2> QED BY <1>3, <2>1, <2>2 DEF Stack, Done, RegionEnd
<1>8. ASSUME NEW k \in 1 .. load.i PROVE k \in SegsAt(vp) <=> Done(load, last, k, vp)
  <2>1. Region(load, k) = load.prog[k] /\ k \in 1 .. Len(load.prog) /\ k \in 0 .. load.i
    BY <1>1, <1>4 DEF Region
  <2>2. Region(load, k).vp \in Nat /\ Region(load, k).n \in Nat
    BY <1>1, <1>4, <2>1, RegionType
  <2> QED BY <1>3, <2>1, <2>2, SMTT(30) DEF SegsAt, Done, RegionEnd
<1>9. SegsAt(vp) \subseteq 1 .. load.i
  BY <1>1 DEF SegsAt
<1>10. CASE SegsAt(vp) # {}
  <2>1. SegsAt(vp) \in SUBSET (0 .. load.i)
    BY <1>4, <1>9
  <2>2. \E k \in SegsAt(vp) : \A j \in SegsAt(vp) : j <= k
    BY <1>4, <1>10, <2>1, Greatest
  <2> DEFINE m == CHOOSE k \in SegsAt(vp) : \A j \in SegsAt(vp) : j <= k
  <2>3. m \in SegsAt(vp) /\ \A j \in SegsAt(vp) : j <= m
    BY <2>2
  <2> HIDE DEF m
  <2>4. m \in 1 .. load.i /\ m \in 0 .. load.i /\ m \in Nat
    BY <1>9, <2>1, <2>3
  <2>5. LastDone(load, last, m, vp)
    <3>1. ASSUME NEW j \in m + 1 .. load.i PROVE ~Done(load, last, j, vp)
      <4>1. j \in 1 .. load.i /\ ~(j <= m)
        BY <1>4, <2>4
      <4> QED BY <1>8, <2>3, <4>1
    <3> QED BY <1>8, <2>3, <2>4, <3>1 DEF LastDone
  <2>6. Region(load, m) = load.prog[m]
    BY <2>4 DEF Region
  <2>7. Reach(d, vp) = pme_pack(vp, [w |-> load.prog[m].w, u |-> TRUE])
    BY <1>6, <2>4, <2>5, <2>6
  <2> QED BY <1>10, <2>7 DEF m
<1>11. CASE SegsAt(vp) = {}
  <2>1. \A k \in 1 .. load.i : ~Done(load, last, k, vp)
    BY <1>8, <1>11
  <2>2. CASE vp \in Stack
    <3>1. 0 \in 0 .. load.i /\ \A j \in 0 + 1 .. load.i : j \in 1 .. load.i
      BY <1>4
    <3>2. LastDone(load, last, 0, vp)
      BY <1>7, <2>1, <2>2, <3>1 DEF LastDone
    <3>3. Region(load, 0).w = TRUE
      BY DEF Region
    <3>4. Reach(d, vp) = pme_pack(vp, [w |-> TRUE, u |-> TRUE])
      BY <1>6, <3>1, <3>2, <3>3
    <3> QED BY <1>11, <2>2, <3>4
  <2>3. CASE vp \notin Stack
    <3>1. \A k \in 0 .. load.i : k = 0 \/ k \in 1 .. load.i
      BY <1>4
    <3>2. ~Mapped(tbl, d, vp)
      BY <1>5, <1>7, <2>1, <2>3, <3>1
    <3>3. Reach(d, vp) = NoEntry
      BY <3>2, ReachUnmapped
    <3> QED BY <1>11, <2>3, <3>3
  <2> QED BY <2>2, <2>3
<1> QED BY <1>10, <1>11

(* The invariant behind the three theorems below: boot, load, close and    *)
(* the tick that abandons a load come in their order; directories and      *)
(* tables are pages in use and apart; what CR3 holds maps the kernel; and  *)
(* the space that is being made has just the pages that have come up, each *)
(* as the last one that mapped it has said (process.c 77-158, pagemap.c).  *)
THEOREM MemoryInductive == Spec => []MInv
<1>1. Init => MInv
  BY MInit
<1>2. MInv /\ [Next]_vars => MInv'
  BY MNext
<1> QED BY <1>1, <1>2, PTL DEF Spec

(* Whatever is in CR3 maps the kernel's pages, to themselves and out of    *)
(* the reach of user mode, and a load that fails after pm_set_root always  *)
(* ends without them (process.c 90, 144, 152), whatever the sizes of       *)
(* tables, pool, kernel and programs.                                      *)
THEOREM KernelAlwaysMapped == Spec => []KernelMapped
<1>1. MInv => KernelMapped
  BY MKernelMapped
<1> QED BY <1>1, MemoryInductive, PTL

(* No page of the pool is used twice, by one address space or by two, at   *)
(* any point of mapping, unmapping or an abandoned load (pagemap.c 20-38,  *)
(* 94-111, 184-208).                                                       *)
THEOREM PagesNeverShared == Spec => []PagesApart
<1>1. MInv => PagesApart
  BY MPagesApart
<1> QED BY <1>1, MemoryInductive, PTL

(* A program that runs sees exactly its stack and its segments, each page  *)
(* writable just if the last segment that touches it is, for every program *)
(* that is linked above the kernel (process.c 99-135, pagemap.c 77-144).   *)
THEOREM PermissionsAlwaysExact == Spec => []PermissionsExact
<1>1. MInv => PermissionsExact
  BY MPermissionsExact
<1> QED BY <1>1, MemoryInductive, PTL

-----------------------------------------------------------------------------
(* Closing a program gives all its pages back, where the address space is  *)
(* laid out as in the code: the kernel fills the first table, stack and    *)
(* programs lie in the second, and the stack does not begin with the last  *)
(* page of it (abi.h 10-13, configure 112-113).                            *)

SecondTable ==
    /\ KMAP_MAX = Entries /\ USTACK_DFLT <= 2 * Entries
    /\ USTACK_DFLT - StackPages < 2 * Entries - 1
    /\ \A prog \in Programs : \A k \in 1 .. Len(prog) : prog[k].vp + prog[k].n <= 2 * Entries
StackIdx == USTACK_DFLT - StackPages - Entries

\* A space has its first table before its second, and no other.
Low ==
    pc \in {"init", "load", "run", "closed"} /\ root_entry[load.sp] \in physpages =>
        \A k \in Idx : k >= (IF pc = "init" THEN 1 ELSE 2) => ~tbl[root_entry[load.sp]][k].p
\* Every page in use is a directory or a table of a space that counts.
Linked ==
    pc # "undefined" =>
        \A g \in physpages : \E s \in Kept : Mine(physpages, tbl, root_entry, s, g)
\* A program that is closed, or that could not be loaded, has no page.
Gone ==
    \/ pc = "prompt" /\ load.sp # kernel_addrspc /\ load.sp # lost
    \/ pc = "closed" /\ Quiet
    \/ pc = "run" /\ Quiet /\ cr3 # root_entry[load.sp]
Freed == Gone => root_entry[load.sp] \notin physpages

\* How much of the size must be left at entry j of the second table, once a
\* page was found there and before.
Left(j) == (Entries - 1 - j) * (Entries * PAGESZ)
Enough(j, size) == size >= Left(j) - 1 + PAGESZ * (Entries - 1)
Scarce(j, size) == size >= Left(j) - 1

\* Where unmapping stands in directory d with contents T: nothing is left, it
\* is in the kernel's table, or in the program's.
AtNone(T, d, o) == o.j = 0 /\ \A k \in Idx : ~T[d][k].p
AtKernel(T, d, o) ==
    /\ o.i = 0 /\ o.j <= Entries /\ T[d][0].p /\ T[d][1].p
    /\ o.size = SIZE_MAX - o.j * PAGESZ
    /\ \A m \in Idx : T[T[d][0].to][m].p <=> m >= o.j
    /\ T[T[d][1].to][StackIdx].p
AtUser(T, d, o) ==
    /\ o.i = 1 /\ o.j <= Entries /\ ~T[d][0].p /\ T[d][1].p
    /\ \A m \in Idx : m < o.j => ~T[T[d][1].to][m].p
    /\ \/ Enough(o.j, o.size)
       \/ Scarce(o.j, o.size) /\ StackIdx >= o.j /\ T[T[d][1].to][StackIdx].p
Shrinks ==
    Unmapping /\ pc # "undefined" /\ root_entry[load.sp] \in physpages =>
        /\ op.size < WORD
        /\ \/ AtNone(tbl, root_entry[load.sp], op) \/ AtKernel(tbl, root_entry[load.sp], op)
           \/ AtUser(tbl, root_entry[load.sp], op)
Placed == \A k \in 1 .. Len(load.prog) : load.prog[k].vp + load.prog[k].n <= 2 * Entries
AInv == Placed /\ Low /\ Linked /\ Freed /\ Shrinks

LEMMA Layout ==
    ASSUME SecondTable
    PROVE  /\ KMAP_MAX = Entries /\ Entries \in Nat /\ Entries >= 2 /\ PAGESZ \in Nat /\ PAGESZ > 1
           /\ StackIdx \in Nat /\ StackIdx + 1 < Entries /\ StackIdx \in Idx /\ 0 \in Idx /\ 1 \in Idx
           /\ USTACK_DFLT - StackPages = Entries + StackIdx
<1>1. /\ KMAP_MAX = Entries /\ Entries \in Nat /\ PAGESZ \in Nat /\ PAGESZ > 1
      /\ USTACK_DFLT \in Nat /\ StackPages \in Nat /\ StackPages <= USTACK_DFLT
  BY PageMapAssumption DEF SecondTable
<1>2. USTACK_DFLT - StackPages >= Entries /\ USTACK_DFLT - StackPages < 2 * Entries - 1
  BY <1>1, MemoryAssumption DEF SecondTable, AboveKernel
<1>3. StackIdx \in Nat /\ StackIdx + 1 < Entries /\ Entries >= 2 /\ USTACK_DFLT - StackPages = Entries + StackIdx
  BY <1>1, <1>2 DEF StackIdx
<1> QED BY <1>1, <1>3 DEF Idx

LEMMA Covers ==
    ASSUME SecondTable
    PROVE  /\ Entries * PAGESZ \in Nat /\ Entries * PAGESZ >= 2 * PAGESZ
           /\ PAGESZ * (Entries - 1) = Entries * PAGESZ - PAGESZ
           /\ WORD \in Nat /\ WORD >= 2 * (Entries * PAGESZ) /\ SIZE_MAX = WORD - 1
           /\ Left(0) = WORD - Entries * PAGESZ
<1>1. Entries \in Nat /\ Entries >= 2 /\ PAGESZ \in Nat /\ PAGESZ > 1
  BY Layout
<1>2. PICK x \in Nat : x = Entries * PAGESZ
  BY <1>1
<1>3. x >= 2 * PAGESZ /\ PAGESZ * (Entries - 1) = x - PAGESZ
  BY <1>1, <1>2
<1>4. WORD = Entries * x
  BY <1>1, <1>2 DEF WORD
<1>5. Entries * x \in Nat /\ Entries * x >= 2 * x /\ (Entries - 1) * x = Entries * x - x
  BY <1>1, <1>2
<1>6. Left(0) = WORD - x
  BY <1>1, <1>2, <1>4, <1>5 DEF Left
<1> QED BY <1>2, <1>3, <1>4, <1>5, <1>6 DEF SIZE_MAX

LEMMA LeftStep ==
    ASSUME SecondTable, NEW j \in Nat, j < Entries
    PROVE  /\ Left(j) \in Nat /\ Left(j) <= WORD - Entries * PAGESZ
           /\ Left(j + 1) = Left(j) - Entries * PAGESZ
           /\ j + 1 < Entries => Left(j) >= Entries * PAGESZ
<1>1. Entries \in Nat /\ Entries >= 2 /\ Left(0) = WORD - Entries * PAGESZ /\ WORD \in Nat
  BY Layout, Covers
<1>2. PICK x \in Nat : x = Entries * PAGESZ
  BY Covers
<1>3. PICK m \in Nat : m = Entries - 1 - j
  BY <1>1
<1>4. Left(j) = m * x /\ Left(j + 1) = (m - 1) * x /\ Left(0) = (m + j) * x
  <2>1. Entries - 1 - (j + 1) = m - 1 /\ Entries - 1 - 0 = m + j
    BY <1>1, <1>3
  <2> QED BY <1>2, <1>3, <2>1 DEF Left
<1>5. m * x \in Nat /\ (m - 1) * x = m * x - x /\ (m + j) * x = m * x + j * x /\ j * x \in Nat
  BY <1>2, <1>3
<1>6. m >= 1 => m * x >= x
  BY <1>2, <1>3
<1>7. j + 1 < Entries => m >= 1
  BY <1>1, <1>3
<1> QED BY <1>1, <1>2, <1>4, <1>5, <1>6, <1>7

\* What size_t makes of a difference.
LEMMA Wraps ==
    ASSUME SecondTable, NEW a \in Int, a < WORD
    PROVE  /\ a >= 0 => a % WORD = a
           /\ a < 0 /\ a >= -WORD => a % WORD = a + WORD
<1>1. WORD \in Nat /\ WORD > 0
  BY SizeMax
<1> QED BY <1>1

LEMMA EnoughStep ==
    ASSUME SecondTable, NEW j \in Nat, j < Entries, NEW size \in Nat, size < WORD, Enough(j, size)
    PROVE  /\ size > 0 /\ Enough(j + 1, (size - PAGESZ) % WORD) /\ Enough(j + 1, Less(size, Entries * PAGESZ))
           /\ (size - PAGESZ) % WORD < WORD /\ Less(size, Entries * PAGESZ) < WORD
<1>1. PICK x \in Nat : x = Entries * PAGESZ
  BY Covers
<1>2. PICK l \in Nat : l = Left(j)
  BY LeftStep
<1>3. /\ Left(j + 1) = l - x /\ PAGESZ * (Entries - 1) = x - PAGESZ /\ x >= 2 * PAGESZ /\ l <= WORD - x
      /\ PAGESZ \in Nat /\ PAGESZ > 1 /\ WORD \in Nat
  BY <1>1, <1>2, Covers, LeftStep, Layout
<1>4. size >= l - 1 + x - PAGESZ /\ size > 0
  BY <1>1, <1>2, <1>3 DEF Enough
<1>5. (size - PAGESZ) % WORD < WORD /\ (size - PAGESZ) % WORD >= l - 1 - PAGESZ
  <2>1. CASE size >= PAGESZ
    BY <1>3, <1>4, <2>1, Wraps
  <2>2. CASE size < PAGESZ
    BY <1>3, <1>4, <2>2, Wraps
  <2> QED BY <1>3, <2>1, <2>2
<1>6. Less(size, x) < WORD /\ Less(size, x) >= l - 1 - PAGESZ
  BY <1>1, <1>3, <1>4 DEF Less
<1> QED BY <1>1, <1>2, <1>3, <1>4, <1>5, <1>6 DEF Enough

LEMMA ScarceStep ==
    ASSUME SecondTable, NEW j \in Nat, j + 1 < Entries, NEW size \in Nat, size < WORD, Scarce(j, size)
    PROVE  /\ size > 0 /\ Enough(j + 1, (size - PAGESZ) % WORD) /\ Scarce(j + 1, Less(size, Entries * PAGESZ))
           /\ (size - PAGESZ) % WORD < WORD /\ Less(size, Entries * PAGESZ) < WORD
<1>0. j < Entries
  BY Layout
<1>1. PICK x \in Nat : x = Entries * PAGESZ
  BY Covers
<1>2. PICK l \in Nat : l = Left(j)
  BY <1>0, LeftStep
<1>3. /\ Left(j + 1) = l - x /\ PAGESZ * (Entries - 1) = x - PAGESZ /\ x >= 2 * PAGESZ /\ l >= x
      /\ PAGESZ \in Nat /\ PAGESZ > 1 /\ WORD \in Nat
  BY <1>0, <1>1, <1>2, Covers, LeftStep, Layout
<1>4. size >= l - 1 /\ size >= PAGESZ
  BY <1>1, <1>2, <1>3 DEF Scarce
<1>5. (size - PAGESZ) % WORD = size - PAGESZ
  BY <1>3, <1>4, Wraps
<1>6. Less(size, x) < WORD /\ Less(size, x) >= l - x - 1
  BY <1>1, <1>3, <1>4 DEF Less
<1> QED BY <1>1, <1>2, <1>3, <1>4, <1>5, <1>6 DEF Enough, Scarce

\* In the kernel's table the size goes down evenly.
LEMMA KernelSize ==
    ASSUME SecondTable, NEW j \in Nat, j <= Entries, NEW size, size = SIZE_MAX - j * PAGESZ
    PROVE  /\ size \in Nat /\ size > 0 /\ size < WORD
           /\ j < Entries => (size - PAGESZ) % WORD = SIZE_MAX - (j + 1) * PAGESZ
           /\ j = Entries => Scarce(0, size)
<1>1. PICK x \in Nat : x = Entries * PAGESZ
  BY Covers
<1>2. PICK y \in Nat : y = j * PAGESZ
  BY Layout
<1>3. /\ x >= 2 * PAGESZ /\ WORD >= 2 * x /\ SIZE_MAX = WORD - 1 /\ Left(0) = WORD - x /\ WORD \in Nat
      /\ PAGESZ \in Nat /\ PAGESZ > 1 /\ Entries \in Nat
  BY <1>1, Covers, Layout
<1>4. y <= x /\ (j + 1) * PAGESZ = y + PAGESZ /\ (j < Entries => y + PAGESZ <= x) /\ (j = Entries => y = x)
  <2>1. PICK m \in Nat : Entries = j + m
    BY <1>3
  <2>2. x = y + m * PAGESZ /\ m * PAGESZ \in Nat /\ (m >= 1 => m * PAGESZ >= PAGESZ)
    BY <1>1, <1>2, <1>3, <2>1
  <2> QED BY <1>1, <1>2, <1>3, <2>1, <2>2
<1>5. size = WORD - 1 - y /\ size \in Nat /\ size > 0 /\ size < WORD
  BY <1>2, <1>3, <1>4
<1>6. ASSUME j < Entries PROVE (size - PAGESZ) % WORD = SIZE_MAX - (j + 1) * PAGESZ
  <2>1. size - PAGESZ >= 0 /\ size - PAGESZ < WORD
    BY <1>3, <1>4, <1>5, <1>6
  <2>2. (size - PAGESZ) % WORD = size - PAGESZ
    BY <1>3, <1>5, <2>1, Wraps
  <2> QED BY <1>2, <1>3, <1>4, <1>5, <2>2
<1> QED BY <1>2, <1>3, <1>4, <1>5, <1>6 DEF Scarce
-----------------------------------------------------------------------------
(* Every page in use stays in its place. *)

LEMMA MineIs ==
    ASSUME NEW P, NEW T, NEW R, NEW c, NEW x
    PROVE  Mine(P, T, R, c, x) <=>
              R[c] \in P /\ (x = R[c] \/ \E k \in Idx : T[R[c]][k].p /\ T[R[c]][k].to = x)
<1>1. Entries \in 0 .. Entries /\ Entries \notin Idx /\ \A k : k \in 0 .. Entries <=> k \in Idx \/ k = Entries
  BY Sizes DEF Idx
<1> QED BY <1>1, Zenon DEF Mine, Has, At

LEMMA LinkedStep ==
    ASSUME MInv, Linked, OthersAlone,
           \A g \in physpages' :
              \/ Mine(physpages', tbl', root_entry', load.sp, g)
              \/ g \in physpages /\ ~Mine(physpages, tbl, root_entry, load.sp, g)
    PROVE  Linked'
<1> SUFFICES ASSUME pc # "undefined", NEW g \in physpages', ~Mine(physpages', tbl', root_entry', load.sp, g)
             PROVE  \E s \in Kept : Mine(physpages', tbl', root_entry', s, g)
  BY DEF Linked, OthersAlone, Kept
<1>1. g \in physpages /\ ~Mine(physpages, tbl, root_entry, load.sp, g)
  OBVIOUS
<1>2. PICK s \in Kept : Mine(physpages, tbl, root_entry, s, g)
  BY <1>1 DEF Linked
<1>3. s # load.sp /\ root_entry[s] \in physpages /\ load.sp \in Kept /\ s \in Spaces
  BY <1>1, <1>2, MineIs, LoadTypes, PagesSpaces DEF Kept, MInv
<1>4. OwnedM(physpages, tbl, root_entry, Kept) /\ Spared(physpages, tbl, root_entry, load.sp, physpages', tbl')
  BY DEF MInv, Owned, OthersAlone
<1>5. Untouched(physpages, tbl, physpages', tbl', root_entry[s])
  BY <1>3, <1>4, OthersFrame, Zenon
<1>6. root_entry'[s] = root_entry[s]
  BY <1>3 DEF OthersAlone
<1>7. Mine(physpages', tbl', root_entry', s, g)
  <2>1. g = root_entry[s] \/ \E k \in Idx : tbl[root_entry[s]][k].p /\ tbl[root_entry[s]][k].to = g
    BY <1>2, MineIs
  <2>2. root_entry'[s] \in physpages' /\ tbl'[root_entry'[s]] = tbl[root_entry[s]]
    BY <1>5, <1>6 DEF Untouched
  <2> QED BY <1>6, <2>1, <2>2, MineIs
<1> QED BY <1>7

\* The directory has come to nothing else.
LEMMA LinkedSame ==
    ASSUME MInv, Linked, OthersAlone, physpages' = physpages, root_entry' = root_entry, SameTables
    PROVE  Linked'
<1>1. \A g : Mine(physpages, tbl, root_entry, load.sp, g) => Mine(physpages', tbl', root_entry', load.sp, g)
  BY MineIs DEF SameTables
<1> QED BY <1>1, LinkedStep

-----------------------------------------------------------------------------
(* Mapping. *)

\* The page that comes up lies in the first table or the second.
LEMMA MapLow ==
    ASSUME SecondTable, MInv, Mapping, Placed
    PROVE  /\ DirIdx(op.vp) \in Idx /\ DirIdx(op.vp) < 2
           /\ pc = "init" => DirIdx(op.vp) = 0
<1>1. Entries \in Nat /\ Entries >= 2 /\ KMAP_MAX = Entries /\ op.vp \in VPages /\ op.vp \in Nat
  BY Layout, MapVPage, OpTypes DEF MInv
<1>2. CASE pc # "load"
  <2>1. op.vp < Entries
    BY <1>1, <1>2, MapVPage DEF MInv
  <2>2. op.vp \div Entries = 0
    BY <1>1, <2>1
  <2> QED BY <1>1, <2>2, Places DEF DirIdx
<1>3. CASE pc = "load"
  <2>1. RegionEnd(load, load.i) <= 2 * Entries
    <3>1. CASE load.i = 0
      BY <3>1, PageMapAssumption DEF Region, RegionEnd, SecondTable
    <3>2. CASE load.i # 0
      <4>1. load.i \in 1 .. Len(load.prog)
        BY <3>2, LoadTypes DEF MInv
      <4> QED BY <3>2, <4>1 DEF Region, RegionEnd, Placed
    <3> QED BY <3>1, <3>2
  <2>2. op.vp < 2 * Entries
    BY <1>1, <1>3, <2>1, MapVPage, RegionAbove, LoadTypes DEF MInv
  <2>3. op.vp \div Entries < 2
    BY <1>1, <2>2
  <2> QED BY <1>1, <1>3, <2>3, Places DEF DirIdx
<1> QED BY <1>2, <1>3

\* While something is mapped nothing is to be freed.
LEMMA MapOnly ==
    ASSUME MInv, AInv, Mapping, UNCHANGED <<pc, load>>, ~Unmapping'
    PROVE  Placed' /\ Freed' /\ Shrinks'
<1>1. pc \in {"init_pm", "init", "load"}
  BY MapDir
<1> QED BY <1>1 DEF AInv, Placed, Freed, Gone, Shrinks

LEMMA NewDirectoryFrees ==
    ASSUME MInv, AInv, NewDirectory, MTyped', Control' PROVE AInv'
<1>0. /\ Mapping /\ Dir = 0 /\ UNCHANGED <<cr3, op, Loader>> /\ OthersAlone /\ load.sp \in Spaces
      /\ root_entry \in [Spaces -> Pages \cup {0}] /\ tbl \in Tables
  BY NewDirectoryStep, LoadTypes DEF NewDirectory, MInv, MTyped
<1>1. PICK g \in Pages :
          /\ g \notin physpages /\ physpages' = physpages \cup {g} /\ Clears(tbl, tbl', g)
          /\ root_entry' = [root_entry EXCEPT ![load.sp] = g]
  BY NewDirectoryWrites
<1>2. root_entry'[load.sp] = g /\ \A k \in Idx : ~tbl'[g][k].p
  BY <1>0, <1>1, ClearsWhere
<1>3. root_entry[load.sp] \notin physpages
  BY <1>0, MapDir, PagesSpaces DEF MInv, MTyped
<1>4. UNCHANGED <<pc, load>> /\ ~Unmapping'
  BY <1>0, OpTypes DEF Loader, MInv, Unmapping
<1>5. Low'
  BY <1>2, <1>4 DEF Low
<1>6. Linked'
  <2>1. \A x \in physpages : ~Mine(physpages, tbl, root_entry, load.sp, x)
    BY <1>3, MineIs
  <2>2. Mine(physpages', tbl', root_entry', load.sp, g)
    BY <1>1, <1>2, MineIs
  <2> QED BY <1>0, <1>1, <2>1, <2>2, LinkedStep DEF AInv
<1> QED BY <1>0, <1>4, <1>5, <1>6, MapOnly DEF AInv

LEMMA NewTableFrees ==
    ASSUME SecondTable, MInv, AInv, NewTable, MTyped', Control' PROVE AInv'
<1> DEFINE d == root_entry[load.sp]
           k0 == DirIdx(op.vp)
<1>0. /\ Mapping /\ Dir = d /\ d \in physpages /\ d \in Pages /\ UNCHANGED <<root_entry, cr3, op, Loader>> /\ OthersAlone
      /\ tbl \in Tables /\ ~tbl[d][k0].p /\ physpages \in SUBSET Pages
  BY NewTableStep, MapDir DEF NewTable, MInv, MTyped, DirEntry
<1>1. PICK g \in Pages :
          g \notin physpages /\ physpages' = physpages \cup {g} /\ Enters(tbl, tbl', d, k0, g, op.f)
  BY NewTableWrites
<1>2. k0 \in Idx /\ op.f \in Flags /\ g # d /\ k0 < 2 /\ (pc = "init" => k0 = 0)
  BY <1>0, <1>1, MapLow, OpTypes DEF MInv, AInv
<1>3. Entered(tbl, tbl', d, k0, g, op.f)
  BY <1>0, <1>1, <1>2, EntersWhere
<1>4. tbl'[d][k0].p /\ tbl'[d][k0].to = g /\ \A k \in Idx : k # k0 => tbl'[d][k] = tbl[d][k]
  BY <1>3 DEF Entered, pme_pack
<1>5. UNCHANGED <<pc, load>> /\ ~Unmapping' /\ root_entry'[load.sp] = d /\ d \in physpages'
  BY <1>0, <1>1, OpTypes DEF Loader, MInv, Unmapping
<1>6. Low'
  <2> SUFFICES ASSUME pc \in {"init", "load", "run", "closed"}, NEW k \in Idx,
                      k >= (IF pc = "init" THEN 1 ELSE 2)
               PROVE  ~tbl'[d][k].p
    BY <1>5 DEF Low
  <2>1. ~tbl[d][k].p
    BY <1>0 DEF AInv, Low
  <2>2. k # k0
    BY <1>2 DEF Idx
  <2> QED BY <1>4, <2>1, <2>2
<1>7. Linked'
  <2>1. \A x \in physpages : Mine(physpages, tbl, root_entry, load.sp, x) => Mine(physpages', tbl', root_entry', load.sp, x)
    <3> SUFFICES ASSUME NEW x \in physpages, x = d \/ \E k \in Idx : tbl[d][k].p /\ tbl[d][k].to = x
                 PROVE  x = d \/ \E k \in Idx : tbl'[d][k].p /\ tbl'[d][k].to = x
      BY <1>5, MineIs
    <3> QED BY <1>0, <1>4
  <2>2. Mine(physpages', tbl', root_entry', load.sp, g)
    BY <1>2, <1>4, <1>5, MineIs
  <2> QED BY <1>0, <1>1, <2>1, <2>2, LinkedStep DEF AInv
<1> QED BY <1>0, <1>5, <1>6, <1>7, MapOnly DEF AInv

LEMMA MapPageFrees ==
    ASSUME MInv, AInv, MapPage, MTyped', Control' PROVE AInv'
<1>1. /\ Mapping /\ UNCHANGED <<physpages, root_entry, cr3, Loader>> /\ OthersAlone /\ SameTables /\ ~Unmapping'
  BY MapPageStep, MapAdvances DEF MapPage, MInv
<1>2. UNCHANGED <<pc, load>>
  BY <1>1 DEF Loader
<1>3. Low'
  BY <1>1, <1>2 DEF AInv, Low, SameTables
<1>4. Linked'
  BY <1>1, LinkedSame DEF AInv
<1> QED BY <1>1, <1>2, <1>3, <1>4, MapOnly DEF AInv

-----------------------------------------------------------------------------
(* Unmapping. *)

\* Nothing is asked of the undefined state, and nothing freed while unmapping goes on.
LEMMA UnmapOnly ==
    ASSUME MInv, AInv, Unmapping, UNCHANGED <<pc, load>>
    PROVE  /\ Placed' /\ (pc = "undefined" => AInv') /\ (~Quiet' => Freed')
           /\ pc \in {"run", "closed", "undefined"}
<1>1. pc \in {"run", "closed", "undefined"}
  BY DEF MInv, Control
<1>2. Placed'
  BY DEF AInv, Placed
<1>3. ~Quiet' => Freed'
  BY <1>1 DEF Freed, Gone
<1>4. pc = "undefined" => AInv'
  BY <1>2 DEF AInv, Low, Linked, Freed, Gone, Shrinks
<1> QED BY <1>1, <1>2, <1>3, <1>4

LEMMA UnmapWhich ==
    ASSUME MInv, AInv, Unmapping, pc # "undefined", Dir \in physpages
    PROVE  /\ Dir = root_entry[load.sp] /\ Dir \in Pages /\ TablesApart(physpages, tbl, Dir)
           /\ op \in UnmapOps /\ op.i \in Nat /\ op.j \in Nat /\ op.size \in Nat /\ op.size < WORD
           /\ AtNone(tbl, Dir, op) \/ AtKernel(tbl, Dir, op) \/ AtUser(tbl, Dir, op)
<1>1. Dir = root_entry[load.sp] /\ Dir \in Pages /\ TablesApart(physpages, tbl, Dir)
  BY Unmaps DEF MInv
<1>2. op \in UnmapOps /\ op.i \in Nat /\ op.j \in Nat /\ op.size \in Nat
  BY OpTypes DEF MInv
<1>3. op.size < WORD /\ (AtNone(tbl, Dir, op) \/ AtKernel(tbl, Dir, op) \/ AtUser(tbl, Dir, op))
  BY <1>1, Zenon DEF AInv, Shrinks
<1> QED BY <1>1, <1>2, <1>3

LEMMA SkipTableFrees ==
    ASSUME SecondTable, MInv, AInv, SkipTable, MTyped', Control' PROVE AInv'
<1>0. /\ Unmapping /\ Dir \in physpages /\ ~tbl[Dir][op.i].p /\ UNCHANGED <<Memory, cr3, Loader>> /\ op.i < Entries
      /\ op' = [op EXCEPT !.i = @ + 1, !.size = Less(@, pme_coversz[1])] /\ ~Quiet' /\ OthersAlone
  BY UnmapAdvances, SkipTableStep DEF SkipTable, InDir, MInv, UnmapAdvance
<1>1. UNCHANGED <<physpages, tbl, root_entry, pc, load>>
  BY <1>0 DEF Memory, Loader
<1>2. CASE pc = "undefined"
  BY <1>0, <1>1, <1>2, UnmapOnly
<1>3. CASE pc # "undefined"
  <2>1. /\ Dir = root_entry[load.sp] /\ op \in UnmapOps /\ op.size \in Nat /\ op.size < WORD
        /\ AtNone(tbl, Dir, op) \/ AtKernel(tbl, Dir, op) \/ AtUser(tbl, Dir, op)
    BY <1>0, <1>3, UnmapWhich, Zenon
  <2>2. AtNone(tbl, Dir, op)
    BY <1>0, <2>1, Zenon DEF AtKernel, AtUser
  <2>3. op'.j = 0 /\ op'.size = Less(op.size, pme_coversz[1])
    BY <1>0, <2>1, <2>2 DEF UnmapOps, AtNone
  <2>4. op'.size < WORD
    <3>1. \A n \in Nat, w \in Nat : op.size < w => Less(op.size, n) < w
      BY <2>1 DEF Less
    <3> QED BY <2>1, <2>3, <3>1, CoverTypes, SizeMax
  <2>5. AtNone(tbl', root_entry'[load'.sp], op')
    <3>1. tbl' = tbl /\ root_entry'[load'.sp] = Dir
      BY <1>1, <2>1
    <3> QED BY <2>2, <2>3, <3>1, Zenon DEF AtNone
  <2>6. Shrinks'
    BY <2>4, <2>5 DEF Shrinks
  <2>7. Linked'
    BY <1>0, <1>1, LinkedSame DEF AInv, SameTables
  <2>8. Low'
    BY <1>1 DEF AInv, Low
  <2> QED BY <1>0, <1>1, <2>6, <2>7, <2>8, UnmapOnly DEF AInv
<1> QED BY <1>2, <1>3

\* In the kernel's table every page is found.
LEMMA UnmapKernelPage ==
    ASSUME SecondTable, MInv, AInv, UnmapPage, pc # "undefined", AtKernel(tbl, Dir, op)
    PROVE  op'.size < WORD /\ AtKernel(tbl', Dir, op')
<1>0. /\ Unmapping /\ Dir \in physpages /\ op.j < Entries /\ tbl \in Tables
      /\ op \in UnmapOps /\ op.j \in Nat /\ Dir \in Pages /\ TablesApart(physpages, tbl, Dir) /\ physpages \subseteq Pages
  BY UnmapWhich DEF UnmapPage, InTable, InDir, MInv, MTyped
<1>1. 0 \in Idx /\ 1 \in Idx /\ StackIdx \in Idx /\ op.j \in Idx /\ Entries \in Nat
  BY <1>0, Layout DEF Idx
<1> DEFINE t == tbl[Dir][0].to
           u == tbl[Dir][1].to
<1>2. t \in Pages /\ u \in Pages /\ t # Dir /\ u # Dir /\ t # u
  BY <1>0, <1>1 DEF AtKernel, TablesApart
<1>3. UTable = t /\ tbl[t][op.j].p
  BY <1>0, <1>1 DEF AtKernel, UTable, Idx
<1>4. tbl' = [tbl EXCEPT ![t][op.j].p = FALSE] /\ op' = [op EXCEPT !.j = @ + 1, !.size = (@ - PAGESZ) % WORD]
  BY <1>3, Zenon DEF UnmapPage
<1> HIDE DEF t, u
<1>5. BitCleared(tbl, tbl', t, op.j)
  BY <1>0, <1>1, <1>2, <1>4, ClearBit
<1>6. tbl'[Dir] = tbl[Dir] /\ tbl'[u] = tbl[u]
  BY <1>0, <1>2, <1>5 DEF BitCleared
<1>7. op'.i = op.i /\ op'.j = op.j + 1 /\ op'.size = (op.size - PAGESZ) % WORD
  BY <1>0, <1>4 DEF UnmapOps
<1>8. op'.size = SIZE_MAX - op'.j * PAGESZ /\ op'.j \in Nat /\ op'.j <= Entries
  <2>1. op.size = SIZE_MAX - op.j * PAGESZ /\ op.j <= Entries
    BY DEF AtKernel
  <2>2. (op.size - PAGESZ) % WORD = SIZE_MAX - (op.j + 1) * PAGESZ
    BY <1>0, <2>1, KernelSize
  <2> QED BY <1>0, <1>1, <1>7, <2>2
<1>9. op'.size < WORD
  BY <1>8, KernelSize
<1>10. \A m \in Idx : tbl'[t][m].p <=> m >= op'.j
  <2>1. \A m \in Idx : m # op.j => (tbl'[t][m].p <=> m >= op.j)
    BY <1>5 DEF BitCleared, AtKernel, t
  <2>2. ~tbl'[t][op.j].p /\ \A m \in Idx : m \in Nat
    BY <1>5 DEF BitCleared, Idx
  <2> QED BY <1>0, <1>7, <2>1, <2>2
<1> QED BY <1>1, <1>6, <1>7, <1>8, <1>9, <1>10, Zenon DEF AtKernel, t, u

\* In the program's table the size suffices until the last page.
LEMMA UserSize ==
    ASSUME SecondTable, MInv, AInv, Unmapping, Dir \in physpages, pc # "undefined", AtUser(tbl, Dir, op), op.j < Entries
    PROVE  /\ op.size > 0
           /\ tbl[tbl[Dir][1].to][op.j].p =>
                 (op.size - PAGESZ) % WORD < WORD /\ Enough(op.j + 1, (op.size - PAGESZ) % WORD)
           /\ ~tbl[tbl[Dir][1].to][op.j].p =>
                 /\ Less(op.size, Entries * PAGESZ) < WORD
                 /\ \/ Enough(op.j + 1, Less(op.size, Entries * PAGESZ))
                    \/ /\ Scarce(op.j + 1, Less(op.size, Entries * PAGESZ))
                       /\ StackIdx >= op.j + 1 /\ tbl[tbl[Dir][1].to][StackIdx].p
<1>1. op.j \in Nat /\ op.size \in Nat /\ op.size < WORD
  BY UnmapWhich
<1>2. CASE Enough(op.j, op.size)
  BY <1>1, <1>2, EnoughStep
<1>3. CASE Scarce(op.j, op.size) /\ StackIdx >= op.j /\ tbl[tbl[Dir][1].to][StackIdx].p
  <2>1. op.j + 1 < Entries /\ StackIdx \in Nat
    BY <1>1, <1>3, Layout
  <2>2. /\ op.size > 0 /\ Enough(op.j + 1, (op.size - PAGESZ) % WORD) /\ Scarce(op.j + 1, Less(op.size, Entries * PAGESZ))
        /\ (op.size - PAGESZ) % WORD < WORD /\ Less(op.size, Entries * PAGESZ) < WORD
    BY <1>1, <1>3, <2>1, ScarceStep
  <2>3. ~tbl[tbl[Dir][1].to][op.j].p => StackIdx >= op.j + 1
    <3>1. ~tbl[tbl[Dir][1].to][op.j].p => StackIdx # op.j
      BY <1>3
    <3> QED BY <1>1, <1>3, <2>1, <3>1
  <2> QED BY <1>3, <2>2, <2>3
<1> QED BY <1>2, <1>3 DEF AtUser

LEMMA UnmapUserPage ==
    ASSUME SecondTable, MInv, AInv, UnmapPage, pc # "undefined", AtUser(tbl, Dir, op)
    PROVE  op'.size < WORD /\ AtUser(tbl', Dir, op')
<1>0. /\ Unmapping /\ Dir \in physpages /\ op.j < Entries /\ tbl \in Tables
      /\ op \in UnmapOps /\ op.j \in Nat /\ Dir \in Pages /\ TablesApart(physpages, tbl, Dir) /\ physpages \subseteq Pages
  BY UnmapWhich DEF UnmapPage, InTable, InDir, MInv, MTyped
<1>1. 0 \in Idx /\ 1 \in Idx /\ StackIdx \in Idx /\ op.j \in Idx /\ Entries \in Nat
  BY <1>0, Layout DEF Idx
<1> DEFINE u == tbl[Dir][1].to
<1>2. u \in Pages /\ u # Dir /\ UTable = u
  BY <1>0, <1>1 DEF AtUser, TablesApart, UTable
<1>3. CASE tbl[u][op.j].p
  <2>1. tbl' = [tbl EXCEPT ![u][op.j].p = FALSE] /\ op' = [op EXCEPT !.j = @ + 1, !.size = (@ - PAGESZ) % WORD]
    BY <1>2, <1>3, Zenon DEF UnmapPage
  <2>2. op'.size < WORD /\ Enough(op'.j, op'.size) /\ op'.i = op.i /\ op'.j = op.j + 1
    <3>1. op'.i = op.i /\ op'.j = op.j + 1 /\ op'.size = (op.size - PAGESZ) % WORD
      BY <1>0, <2>1 DEF UnmapOps
    <3> QED BY <1>0, <1>3, <3>1, UserSize
  <2> HIDE DEF u
  <2>3. BitCleared(tbl, tbl', u, op.j)
    BY <1>0, <1>1, <1>2, <2>1, ClearBit
  <2>4. tbl'[Dir] = tbl[Dir]
    BY <1>0, <1>2, <2>3 DEF BitCleared
  <2>5. \A m \in Idx : m < op'.j => ~tbl'[u][m].p
    BY <1>0, <1>1, <2>2, <2>3 DEF BitCleared, AtUser, u, Idx
  <2>6. op'.j <= Entries
    BY <1>0, <1>1, <2>2
  <2> QED BY <2>2, <2>4, <2>5, <2>6, Zenon DEF AtUser, u
<1>4. CASE ~tbl[u][op.j].p
  <2>1. tbl' = tbl /\ op' = [op EXCEPT !.j = @ + 1, !.size = Less(@, pme_coversz[2])]
    BY <1>2, <1>4, Zenon DEF UnmapPage
  <2>2. op'.i = op.i /\ op'.j = op.j + 1 /\ op'.size = Less(op.size, Entries * PAGESZ)
    BY <1>0, <2>1 DEF UnmapOps, pme_coversz
  <2>3. /\ op'.size < WORD
        /\ \/ Enough(op'.j, op'.size)
           \/ Scarce(op'.j, op'.size) /\ StackIdx >= op'.j /\ tbl[u][StackIdx].p
    BY <1>0, <1>4, <2>2, UserSize
  <2>4. \A m \in Idx : m < op'.j => ~tbl[u][m].p
    BY <1>0, <1>1, <1>4, <2>2 DEF AtUser, Idx
  <2>5. op'.j <= Entries
    BY <1>0, <1>1, <2>2
  <2> QED BY <2>1, <2>2, <2>3, <2>4, <2>5, Zenon DEF AtUser
<1> QED BY <1>3, <1>4

LEMMA UnmapPageFrees ==
    ASSUME SecondTable, MInv, AInv, UnmapPage, MTyped', Control' PROVE AInv'
<1>0. /\ Unmapping /\ Dir \in physpages /\ tbl[Dir][op.i].p /\ UNCHANGED <<physpages, root_entry, cr3, Loader>>
      /\ op.i < Entries /\ ~Quiet' /\ OthersAlone /\ tbl \in Tables
  BY UnmapAdvances, UnmapPageStep DEF UnmapPage, InTable, InDir, MInv, UnmapAdvance, MTyped
<1>1. UNCHANGED <<physpages, root_entry, pc, load>>
  BY <1>0 DEF Loader
<1>2. CASE pc = "undefined"
  BY <1>0, <1>1, <1>2, UnmapOnly
<1>3. CASE pc # "undefined"
  <2>1. /\ Dir = root_entry[load.sp] /\ op.i \in Idx /\ Dir \in Pages /\ UTable \in Pages /\ UTable # Dir
        /\ AtNone(tbl, Dir, op) \/ AtKernel(tbl, Dir, op) \/ AtUser(tbl, Dir, op)
    BY <1>0, <1>3, UnmapWhich, UnmapTable DEF UnmapWhere
  <2>2. op'.size < WORD /\ (AtKernel(tbl', Dir, op') \/ AtUser(tbl', Dir, op'))
    <3>1. ~AtNone(tbl, Dir, op)
      BY <1>0, <2>1 DEF AtNone
    <3> QED BY <1>3, <2>1, <3>1, UnmapKernelPage, UnmapUserPage
  <2>3. root_entry'[load'.sp] = Dir
    BY <1>1, <2>1
  <2>4. Shrinks'
    BY <2>2, <2>3, Zenon DEF Shrinks
  <2>5. tbl'[Dir] = tbl[Dir]
    <3>1. CASE tbl' = [tbl EXCEPT ![UTable][op.j].p = FALSE]
      BY <1>0, <2>1, <3>1 DEF Tables
    <3> QED BY <3>1 DEF UnmapPage
  <2>6. Linked'
    BY <1>0, <1>1, <2>1, <2>5, LinkedSame DEF AInv, SameTables
  <2>7. Low'
    BY <1>1, <2>1, <2>5 DEF AInv, Low
  <2> QED BY <1>0, <1>1, <2>4, <2>6, <2>7, UnmapOnly DEF AInv
<1> QED BY <1>2, <1>3

\* A table is left when all its pages are gone.
LEMMA LeaveEmpty ==
    ASSUME SecondTable, MInv, AInv, LeaveTable, pc # "undefined"
    PROVE  /\ Dir = root_entry[load.sp] /\ op.i \in Idx /\ Dir \in Pages /\ UTable # Dir /\ TablesApart(physpages, tbl, Dir)
           /\ op'.i = op.i + 1 /\ op'.j = 0 /\ op'.size = op.size /\ op.size < WORD
           /\ physpages' = physpages \ {UTable} /\ BitCleared(tbl, tbl', Dir, op.i)
           /\ \/ AtKernel(tbl, Dir, op) /\ Scarce(0, op.size)
              \/ AtUser(tbl, Dir, op)
<1>0. /\ Unmapping /\ Dir \in physpages /\ tbl[Dir][op.i].p /\ op.i < Entries /\ op.j > 0
      /\ op.j = Entries \/ op.size = 0
      /\ op' = [op EXCEPT !.i = @ + 1, !.j = 0] /\ tbl \in Tables
  BY DEF LeaveTable, MInv, MTyped
<1>1. /\ Dir = root_entry[load.sp] /\ op \in UnmapOps /\ op.i \in Idx /\ Dir \in Pages /\ TablesApart(physpages, tbl, Dir)
      /\ op.j \in Nat /\ op.size \in Nat /\ op.size < WORD /\ UTable # Dir
      /\ AtKernel(tbl, Dir, op) \/ AtUser(tbl, Dir, op)
  <2>1. ~AtNone(tbl, Dir, op)
    BY <1>0 DEF AtNone
  <2> QED BY <1>0, <2>1, UnmapWhich, UnmapTable DEF UnmapWhere
<1>2. op'.i = op.i + 1 /\ op'.j = 0 /\ op'.size = op.size
  BY <1>0, <1>1 DEF UnmapOps
<1>3. Empty(UTable) /\ (AtKernel(tbl, Dir, op) => Scarce(0, op.size))
  <2>1. CASE AtKernel(tbl, Dir, op)
    <3>1. op.size = SIZE_MAX - op.j * PAGESZ /\ op.j <= Entries /\ op.i = 0
      BY <2>1 DEF AtKernel
    <3>2. op.size > 0
      BY <1>1, <3>1, KernelSize
    <3>3. op.j = Entries
      BY <1>0, <3>2
    <3>4. Scarce(0, op.size)
      BY <1>1, <3>1, <3>3, KernelSize
    <3>5. \A m \in Idx : ~(m >= op.j)
      BY <3>3, Layout DEF Idx
    <3>6. \A m \in Idx : ~tbl[UTable][m].p
      BY <2>1, <3>1, <3>5, Zenon DEF AtKernel, UTable
    <3> QED BY <3>4, <3>6 DEF Empty
  <2>2. CASE AtUser(tbl, Dir, op)
    <3>1. op.j <= Entries /\ op.i = 1 /\ ~tbl[Dir][0].p
      BY <2>2, Zenon DEF AtUser
    <3>2. op.j = Entries
      <4>1. op.j < Entries => op.size > 0
        BY <1>0, <2>2, UserSize
      <4> QED BY <1>0, <1>1, <3>1, <4>1, Sizes
    <3>3. \A m \in Idx : m < op.j
      BY <3>2, Layout DEF Idx
    <3>4. \A m \in Idx : ~tbl[UTable][m].p
      BY <2>2, <3>1, <3>3, Zenon DEF AtUser, UTable
    <3>5. ~AtKernel(tbl, Dir, op)
      BY <3>1 DEF AtKernel
    <3> QED BY <3>4, <3>5 DEF Empty
  <2> QED BY <1>1, <2>1, <2>2
<1>4. physpages' = physpages \ {UTable} /\ tbl' = [tbl EXCEPT ![Dir][op.i].p = FALSE]
  BY <1>3 DEF LeaveTable, physpage_free
<1>5. BitCleared(tbl, tbl', Dir, op.i)
  BY <1>0, <1>1, <1>4, ClearBit
<1> QED BY <1>1, <1>2, <1>3, <1>4, <1>5

LEMMA LeaveTableFrees ==
    ASSUME SecondTable, MInv, AInv, LeaveTable, MTyped', Control' PROVE AInv'
<1>0. /\ Unmapping /\ Dir \in physpages /\ tbl[Dir][op.i].p /\ UNCHANGED <<root_entry, cr3, Loader>>
      /\ ~Quiet' /\ OthersAlone /\ tbl \in Tables /\ physpages \subseteq Pages
  BY UnmapAdvances, LeaveTableStep DEF LeaveTable, MInv, UnmapAdvance, MTyped
<1>1. UNCHANGED <<root_entry, pc, load>>
  BY <1>0 DEF Loader
<1>2. CASE pc = "undefined"
  BY <1>0, <1>1, <1>2, UnmapOnly
<1>3. CASE pc # "undefined"
  <2>1. /\ Dir = root_entry[load.sp] /\ op.i \in Idx /\ Dir \in Pages /\ UTable # Dir /\ TablesApart(physpages, tbl, Dir)
        /\ op'.i = op.i + 1 /\ op'.j = 0 /\ op'.size = op.size /\ op.size < WORD
        /\ physpages' = physpages \ {UTable} /\ BitCleared(tbl, tbl', Dir, op.i)
        /\ \/ AtKernel(tbl, Dir, op) /\ Scarce(0, op.size)
           \/ AtUser(tbl, Dir, op)
    BY <1>3, LeaveEmpty
  <2>2. root_entry'[load'.sp] = Dir /\ Dir \in physpages' /\ pc' = pc
    BY <1>0, <1>1, <2>1
  <2>3. /\ \A y \in Pages : y # Dir => tbl'[y] = tbl[y]
        /\ \A k \in Idx : k # op.i => tbl'[Dir][k] = tbl[Dir][k]
        /\ ~tbl'[Dir][op.i].p
    BY <2>1 DEF BitCleared
  <2>4. pc \in {"run", "closed"} /\ \A k \in Idx : k >= 2 => ~tbl[Dir][k].p
    <3>1. pc \in {"run", "closed"}
      BY <1>0, <1>1, <1>3, UnmapOnly
    <3> QED BY <1>0, <2>1, <3>1 DEF AInv, Low
  <2>5. Low'
    BY <1>1, <2>2, <2>3, <2>4 DEF Low
  <2>6. ASSUME AtKernel(tbl, Dir, op), Scarce(0, op.size) PROVE AtUser(tbl', Dir, op')
    <3>1. op.i = 0 /\ 0 \in Idx /\ 1 \in Idx /\ tbl[Dir][1].p /\ tbl[tbl[Dir][1].to][StackIdx].p
      BY <2>6, Layout DEF AtKernel
    <3>2. tbl[Dir][1].to \in Pages /\ tbl[Dir][1].to # Dir
      BY <1>0, <2>1, <3>1 DEF TablesApart
    <3>3. tbl'[Dir][1] = tbl[Dir][1] /\ tbl'[tbl[Dir][1].to] = tbl[tbl[Dir][1].to] /\ ~tbl'[Dir][0].p
      BY <2>3, <3>1, <3>2
    <3>4. 0 <= Entries /\ StackIdx >= 0 /\ (\A m \in Idx : ~(m < 0)) /\ op'.i = 1
      BY <2>1, <3>1, Layout DEF Idx
    <3> QED BY <2>1, <2>6, <3>1, <3>3, <3>4, Zenon DEF AtUser
  <2>7. ASSUME AtUser(tbl, Dir, op) PROVE AtNone(tbl', Dir, op')
    <3>1. op.i = 1 /\ ~tbl[Dir][0].p /\ 0 \in Idx
      BY <2>7, Layout DEF AtUser
    <3>2. \A k \in Idx : k = 0 \/ k = 1 \/ k >= 2
      BY DEF Idx
    <3>3. \A k \in Idx : ~tbl'[Dir][k].p
      BY <2>3, <2>4, <3>1, <3>2
    <3> QED BY <2>1, <3>3 DEF AtNone
  <2>8. Shrinks'
    <3>1. AtNone(tbl', Dir, op') \/ AtUser(tbl', Dir, op')
      BY <2>1, <2>6, <2>7
    <3> QED BY <2>1, <2>2, <3>1, Zenon DEF Shrinks
  <2>9. Linked'
    <3> SUFFICES ASSUME NEW g \in physpages', Mine(physpages, tbl, root_entry, load.sp, g)
                 PROVE  Mine(physpages', tbl', root_entry', load.sp, g)
      BY <1>0, <2>1, LinkedStep DEF AInv
    <3>1. g # UTable /\ root_entry'[load.sp] = Dir
      BY <1>1, <2>1, <2>2
    <3>2. g = Dir \/ \E k \in Idx : tbl[Dir][k].p /\ tbl[Dir][k].to = g
      BY <2>1, MineIs
    <3>3. g = Dir \/ \E k \in Idx : tbl'[Dir][k].p /\ tbl'[Dir][k].to = g
      BY <2>3, <3>1, <3>2 DEF UTable
    <3> QED BY <2>2, <3>1, <3>3, MineIs
  <2> QED BY <1>0, <1>1, <2>5, <2>8, <2>9, UnmapOnly DEF AInv
<1> QED BY <1>2, <1>3

LEMMA LeaveDirectoryFrees ==
    ASSUME SecondTable, MInv, AInv, LeaveDirectory, MTyped', Control' PROVE AInv'
<1>0. /\ Unmapping /\ op.j = 0 /\ (Dir \notin physpages \/ op.i = Entries \/ op.size = 0) /\ Dir = root_entry[load.sp]
      /\ UNCHANGED <<tbl, root_entry, cr3, Loader>> /\ ~Unmapping' /\ OthersAlone
      /\ physpages' = IF Dir \in physpages /\ Empty(Dir) THEN physpage_free(Dir) ELSE physpages
  BY OpSpace, LeaveDirectoryStep DEF MInv, LeaveDirectory, Dir, Unmapping, NoOp
<1>1. UNCHANGED <<tbl, root_entry, pc, load>>
  BY <1>0 DEF Loader
<1>2. CASE pc = "undefined"
  BY <1>0, <1>1, <1>2, UnmapOnly
<1>3. CASE pc # "undefined"
  <2>1. Dir \in physpages => Empty(Dir)
    <3> SUFFICES ASSUME Dir \in physpages PROVE Empty(Dir)
      OBVIOUS
    <3>1. AtNone(tbl, Dir, op) \/ AtKernel(tbl, Dir, op) \/ AtUser(tbl, Dir, op)
      BY <1>0, <1>3, UnmapWhich
    <3>2. Entries \in Nat /\ Entries >= 2
      BY Layout
    <3>3. ~AtKernel(tbl, Dir, op)
      <4> SUFFICES ASSUME AtKernel(tbl, Dir, op) PROVE FALSE
        OBVIOUS
      <4>1. op.i = 0 /\ op.size = SIZE_MAX - op.j * PAGESZ
        BY DEF AtKernel
      <4>2. op.size > 0
        BY <1>0, <3>2, <4>1, KernelSize
      <4> QED BY <1>0, <3>2, <4>1, <4>2
    <3>4. ~AtUser(tbl, Dir, op)
      <4> SUFFICES ASSUME AtUser(tbl, Dir, op) PROVE FALSE
        OBVIOUS
      <4>1. op.i = 1
        BY DEF AtUser
      <4>2. op.j < Entries
        <5>1. op.j = 0
          BY <1>0, Zenon
        <5> QED BY <3>2, <5>1
      <4>3. op.size > 0
        BY <1>0, <1>3, <4>2, UserSize
      <4> QED BY <1>0, <3>2, <4>1, <4>3
    <3>5. AtNone(tbl, Dir, op)
      BY <3>1, <3>3, <3>4
    <3> QED BY <3>5 DEF AtNone, Empty
  <2>2. root_entry'[load'.sp] \notin physpages' /\ physpages' \subseteq physpages
    BY <1>0, <1>1, <2>1 DEF physpage_free
  <2>3. Low' /\ Freed' /\ Shrinks'
    BY <1>0, <2>2 DEF Low, Freed, Shrinks
  <2>4. Linked'
    <3> SUFFICES ASSUME NEW g \in physpages' PROVE g \in physpages /\ ~Mine(physpages, tbl, root_entry, load.sp, g)
      BY <1>0, LinkedStep DEF AInv
    <3>1. g \in physpages /\ (Dir \in physpages => g # Dir /\ Empty(Dir))
      BY <1>1, <1>0, <2>1, <2>2
    <3> QED BY <1>0, <3>1, MineIs DEF Empty
  <2> QED BY <1>0, <1>1, <2>3, <2>4, UnmapOnly DEF AInv
<1> QED BY <1>2, <1>3

-----------------------------------------------------------------------------
(* Boot, load and close. *)

LEMMA LinkedLoader ==
    ASSUME Linked, pc # "undefined", UNCHANGED Memory, \A s \in Kept : root_entry[s] \in physpages => s \in Kept'
    PROVE  Linked'
<1>1. UNCHANGED <<physpages, tbl, root_entry>>
  BY DEF Memory
<1> SUFFICES ASSUME NEW g \in physpages PROVE \E s \in Kept' : Mine(physpages, tbl, root_entry, s, g)
  BY <1>1 DEF Linked
<1>2. PICK s \in Kept : Mine(physpages, tbl, root_entry, s, g)
  BY DEF Linked
<1>3. s \in Kept'
  BY <1>2, MineIs
<1> QED BY <1>2, <1>3

LEMMA BootFrees ==
    ASSUME MInv, AInv, init_pm \/ init_cpu_pm PROVE AInv'
<1>1. /\ UNCHANGED <<Memory, load, lost>> /\ pc \in {"off", "init_pm"} /\ pc' \in {"init_pm", "prompt"}
      /\ ~Unmapping'
  BY DEF init_pm, init_cpu_pm, addrspc_init, addrspc_map, Unmapping, Quiet, NoOp
<1>2. load.sp = kernel_addrspc
  BY <1>1 DEF MInv, Control, Off, kernel_addrspc
<1>3. Linked'
  BY <1>1, LinkedLoader DEF AInv, Kept
<1>4. Placed' /\ Low' /\ Freed' /\ Shrinks'
  BY <1>1, <1>2 DEF AInv, Placed, Low, Freed, Gone, Shrinks
<1> QED BY <1>3, <1>4 DEF AInv

LEMMA LoadPathFrees ==
    ASSUME SecondTable, MInv, AInv, NEW prog \in Programs, process_load_path(prog) PROVE AInv'
<1>1. /\ UNCHANGED <<Memory, lost>> /\ pc = "prompt" /\ pc' = "init" /\ ~Unmapping'
      /\ load'.sp = load.sp + 1 /\ load'.sp \in Spaces /\ load'.prog = prog
  BY LoadPath DEF process_load_path, addrspc_init, addrspc_map, Unmapping, MInv
<1>2. UNCHANGED <<physpages, tbl, root_entry>> /\ load.sp \in Nat
  BY <1>1, LoadTypes DEF Memory, MInv
<1>3. root_entry[load'.sp] \notin physpages
  BY <1>1, <1>2, PagesSpaces DEF MInv, Roots, MTyped
<1>4. Placed'
  BY <1>1 DEF Placed, SecondTable
<1>5. Linked'
  <2>1. ASSUME NEW s \in Kept, root_entry[s] \in physpages PROVE s \in Kept'
    <3>1. s = load.sp => s = kernel_addrspc \/ s = lost
      BY <1>1, <2>1 DEF AInv, Freed, Gone
    <3> QED BY <1>1, <2>1, <3>1 DEF Kept
  <2> QED BY <1>1, <2>1, LinkedLoader DEF AInv
<1> QED BY <1>1, <1>2, <1>3, <1>4, <1>5 DEF AInv, Low, Freed, Gone, Shrinks

LEMMA LoadFrees ==
    ASSUME MInv, AInv, LoadStack \/ LoadSegment \/ LoadDone PROVE AInv'
<1>1. /\ UNCHANGED <<Memory, lost>> /\ pc \in {"init", "load"} /\ pc' \in {"load", "run"} /\ ~Unmapping'
      /\ pc' = "run" => pc = "load" /\ cr3' = cr3
      /\ load'.sp = load.sp /\ load'.prog = load.prog
  BY LoadSegmentNext DEF LoadStack, LoadSegment, LoadDone, addrspc_map, Unmapping, Quiet, NoOp, MInv
<1>2. UNCHANGED <<physpages, tbl, root_entry>>
  BY <1>1 DEF Memory
<1>3. pc' = "run" => cr3' = root_entry'[load'.sp]
  BY <1>1, <1>2 DEF MInv, Cr3Kept, OwnCr3, Off
<1>4. Freed' /\ Shrinks' /\ Placed'
  BY <1>1, <1>3 DEF AInv, Freed, Gone, Shrinks, Placed
<1>5. Low'
  <2>1. \A k \in Idx : (k >= 2) => (k >= IF pc = "init" THEN 1 ELSE 2)
    BY DEF Idx
  <2> QED BY <1>1, <1>2, <2>1 DEF AInv, Low
<1>6. Linked'
  BY <1>1, LinkedLoader DEF AInv, Kept
<1> QED BY <1>4, <1>5, <1>6 DEF AInv

\* Before CR3 was set nothing but the directory can have been made.
LEMMA LoadFailsFrees ==
    ASSUME SecondTable, MInv, AInv, LoadFails PROVE AInv'
<1>1. /\ UNCHANGED <<Memory, load, lost>> /\ pc \in {"init", "load"} /\ addrspc_cleanup(load.sp)
      /\ pc' = IF pc = "init" THEN "run" ELSE "undefined"
      /\ OutOfPages \/ (pc = "load" /\ Quiet)
  BY DEF LoadFails
<1>2. /\ UNCHANGED <<physpages, tbl, root_entry>> /\ ~Quiet' /\ op'.j = 0 /\ op'.size = SIZE_MAX
  BY <1>1, CleanupBegins, LoadTypes DEF Memory, MInv
<1>3. Placed' /\ Freed'
  BY <1>1, <1>2 DEF AInv, Placed, Freed, Gone
<1>4. Linked'
  BY <1>1, LinkedLoader DEF AInv, Kept
<1>5. CASE pc = "load"
  BY <1>1, <1>3, <1>4, <1>5 DEF AInv, Low, Shrinks
<1>6. CASE pc = "init"
  <2> DEFINE d == root_entry[load.sp]
  <2>1. Mapping /\ Dir = d /\ (Dir # 0 => ~DirEntry.p) /\ DirIdx(op.vp) = 0
    BY <1>1, <1>6, MapDir, MapLow DEF OutOfPages, AInv
  <2>2. d \in physpages => d # 0
    BY PagesSpaces DEF MInv, MTyped
  <2>3. d \in physpages => \A k \in Idx : ~tbl[d][k].p
    <3> SUFFICES ASSUME d \in physpages, NEW k \in Idx PROVE ~tbl[d][k].p
      OBVIOUS
    <3>1. CASE k = 0
      BY <2>1, <2>2, <3>1 DEF DirEntry
    <3>2. CASE k # 0
      <4>1. k >= 1
        BY <3>2 DEF Idx
      <4> QED BY <1>6, <4>1 DEF AInv, Low
    <3> QED BY <3>1, <3>2
  <2>4. root_entry'[load'.sp] = d /\ physpages' = physpages /\ tbl' = tbl
    BY <1>1, <1>2
  <2> HIDE DEF d
  <2>5. Low'
    BY <2>3, <2>4 DEF Low
  <2>6. SIZE_MAX < WORD
    BY SizeMax DEF SIZE_MAX
  <2>7. d \in physpages => AtNone(tbl', d, op')
    BY <1>2, <2>3, <2>4, Zenon DEF AtNone
  <2>8. Shrinks'
    BY <1>2, <2>4, <2>6, <2>7, Zenon DEF Shrinks
  <2> QED BY <1>3, <1>4, <2>5, <2>8 DEF AInv
<1> QED BY <1>1, <1>5, <1>6

\* A program that has run has the kernel's table whole, and its first stack page.
LEMMA MadeWhole ==
    ASSUME SecondTable, MInv, pc = "run", Quiet, cr3 = root_entry[load.sp], cr3 \in physpages
    PROVE  /\ tbl[cr3][0].p /\ tbl[cr3][1].p
           /\ \A m \in Idx : tbl[tbl[cr3][0].to][m].p
           /\ tbl[tbl[cr3][1].to][StackIdx].p
<1>1. Entries \in Nat /\ Entries >= 2 /\ KMAP_MAX = Entries /\ StackIdx \in Nat /\ StackIdx + 1 < Entries
  BY Layout
<1>2. \A m \in Idx : tbl[cr3][0].p /\ tbl[tbl[cr3][0].to][m].p
  <2> SUFFICES ASSUME NEW m \in Idx PROVE tbl[cr3][0].p /\ tbl[tbl[cr3][0].to][m].p
    OBVIOUS
  <2>1. m \in 0 .. KMAP_MAX - 1 /\ DirIdx(m) = 0 /\ TblIdx(m) = m
    BY <1>1 DEF Idx, DirIdx, TblIdx
  <2>2. Making /\ KFront = KMAP_MAX
    BY OpTypes DEF Making, OwnCr3, KFront, MInv
  <2>3. MapsKernel(physpages, tbl, cr3)
    BY <2>2, MadeMapsKernel
  <2>4. ReachM(physpages, tbl, cr3, m).p
    <3>1. ReachM(physpages, tbl, cr3, m) = pme_pack(m, KFLAGS)
      BY <2>1, <2>3, Zenon DEF MapsKernel
    <3> QED BY <3>1 DEF pme_pack
  <2> QED BY <2>1, <2>4 DEF ReachM, NoEntry
<1>3. tbl[cr3][1].p /\ tbl[tbl[cr3][1].to][StackIdx].p
  <2> DEFINE vp == Entries + StackIdx
  <2>1. DirIdx(vp) = 1 /\ TblIdx(vp) = StackIdx
    BY <1>1 DEF DirIdx, TblIdx
  <2>2. vp \in VPages \ 0 .. KMAP_MAX - 1 /\ vp \in Stack
    <3>1. USTACK_DFLT - StackPages = vp /\ USTACK_DFLT \in Nat /\ StackPages \in Nat
      BY Layout, PageMapAssumption
    <3>2. vp + StackPages <= Entries * Entries /\ StackPages >= 1
      BY <3>1, MemoryAssumption DEF AboveKernel
    <3>3. Entries * Entries \in Nat
      BY Sizes
    <3> QED BY <1>1, <3>1, <3>2, <3>3 DEF VPages, Stack
  <2> HIDE DEF vp
  <2>3. PermissionsExact
    BY MPermissionsExact
  <2>4. \E w : Reach(root_entry[load.sp], vp) = pme_pack(vp, [w |-> w, u |-> TRUE])
    BY <2>2, <2>3, Zenon DEF PermissionsExact
  <2>5. Reach(cr3, vp).p
    BY <2>4 DEF pme_pack
  <2> QED BY <2>1, <2>5 DEF Reach, NoEntry
<1> QED BY <1>2, <1>3, Layout

LEMMA CloseFrees ==
    ASSUME SecondTable, MInv, AInv, process_close \/ Closed PROVE AInv'
<1>0. UNCHANGED <<physpages, tbl, root_entry, load, lost>>
  BY DEF process_close, Closed, Memory
<1>1. CASE Closed
  <2>1. pc = "closed" /\ Quiet /\ pc' = "prompt" /\ ~Unmapping'
    BY <1>1 DEF Closed, Unmapping, Quiet, NoOp
  <2>2. root_entry[load.sp] \notin physpages
    BY <2>1 DEF AInv, Freed, Gone
  <2>3. Linked'
    BY <1>0, <2>1, LinkedLoader DEF AInv, Kept, Memory
  <2> QED BY <1>0, <2>1, <2>2, <2>3 DEF AInv, Placed, Low, Freed, Shrinks
<1>2. CASE process_close
  <2>1. pc = "run" /\ Quiet /\ pc' = "closed" /\ addrspc_cleanup(load.sp)
    BY <1>2 DEF process_close
  <2>2. ~Quiet' /\ op'.i = 0 /\ op'.j = 0 /\ op'.size = SIZE_MAX
    BY <2>1, CleanupBegins, LoadTypes DEF MInv
  <2>3. Placed' /\ Freed' /\ Low'
    BY <1>0, <2>1, <2>2 DEF AInv, Placed, Freed, Gone, Low
  <2>4. Linked'
    BY <1>0, <2>1, LinkedLoader DEF AInv, Kept, Memory
  <2> DEFINE d == root_entry[load.sp]
  <2>5. d \in physpages => AtKernel(tbl, d, op')
    <3> SUFFICES ASSUME d \in physpages PROVE AtKernel(tbl, d, op')
      OBVIOUS
    <3>1. cr3 = d
      <4>1. ~Gone
        BY Zenon DEF AInv, Freed
      <4> QED BY <2>1, <4>1, Zenon DEF Gone
    <3>2. /\ tbl[d][0].p /\ tbl[d][1].p /\ \A m \in Idx : tbl[tbl[d][0].to][m].p
          /\ tbl[tbl[d][1].to][StackIdx].p
      BY <2>1, <3>1, MadeWhole
    <3>3. SIZE_MAX = SIZE_MAX - 0 * PAGESZ /\ 0 <= Entries /\ \A m \in Idx : m >= 0
      BY SizeMax, Layout DEF Idx
    <3> QED BY <2>2, <3>2, <3>3, Zenon DEF AtKernel
  <2>6. SIZE_MAX < WORD
    BY SizeMax DEF SIZE_MAX
  <2>7. root_entry'[load'.sp] = d /\ physpages' = physpages /\ tbl' = tbl
    BY <1>0
  <2> HIDE DEF d
  <2>8. Shrinks'
    BY <2>2, <2>5, <2>6, <2>7, Zenon DEF Shrinks
  <2> QED BY <2>3, <2>4, <2>8 DEF AInv
<1> QED BY <1>1, <1>2

LEMMA TickFrees ==
    ASSUME MInv, AInv, Tick PROVE AInv'
<1>1. /\ UNCHANGED <<Memory, load>> /\ pc # "undefined" /\ pc' = "prompt" /\ ~Unmapping'
      /\ lost' = IF pc = "prompt" THEN lost ELSE load.sp
      /\ lost = kernel_addrspc
  BY DEF Tick, Unmapping, NoOp, MInv, Control
<1>2. Linked'
  BY <1>1, LinkedLoader DEF AInv, Kept
<1>3. Freed'
  BY <1>1 DEF AInv, Freed, Gone, Memory
<1> QED BY <1>1, <1>2, <1>3 DEF AInv, Placed, Low, Shrinks

LEMMA AInit == Init => AInv
<1> SUFFICES ASSUME Init PROVE AInv
  OBVIOUS
<1>1. physpages = {} /\ load.prog = <<>> /\ ~Unmapping
  BY DEF Init, Unmapping, NoOp
<1> QED BY <1>1 DEF AInv, Placed, Low, Linked, Freed, Shrinks

LEMMA ANext ==
    ASSUME SecondTable, MInv, AInv, [Next]_vars PROVE AInv'
<1>1. CASE Next
  <2>1. MTyped' /\ Control'
    BY <1>1, MNext DEF MInv
  <2>2. CASE NewDirectory \/ NewTable \/ MapPage
    BY <2>1, <2>2, NewDirectoryFrees, NewTableFrees, MapPageFrees
  <2>3. CASE SkipTable \/ UnmapPage \/ LeaveTable \/ LeaveDirectory
    BY <2>1, <2>3, SkipTableFrees, UnmapPageFrees, LeaveTableFrees, LeaveDirectoryFrees
  <2>4. CASE init_pm \/ init_cpu_pm
    BY <2>4, BootFrees
  <2>5. CASE \E prog \in Programs : process_load_path(prog)
    BY <2>5, LoadPathFrees
  <2>6. CASE LoadStack \/ LoadSegment \/ LoadDone
    BY <2>6, LoadFrees
  <2>7. CASE LoadFails
    BY <2>7, LoadFailsFrees
  <2>8. CASE process_close \/ Closed
    BY <2>8, CloseFrees
  <2>9. CASE Tick
    BY <2>9, TickFrees
  <2> QED BY <1>1, <2>2, <2>3, <2>4, <2>5, <2>6, <2>7, <2>8, <2>9 DEF Next
<1>2. CASE UNCHANGED vars
  <2>1. UNCHANGED <<physpages, tbl, root_entry, cr3, op, pc, load, boot, lost>>
    BY <1>2 DEF vars
  <2> QED BY <2>1 DEF AInv, Placed, Low, Linked, Kept, Freed, Gone, Shrinks, Unmapping, Quiet
<1> QED BY <1>1, <1>2

\* The spaces that have pages, between operations, are the live ones.
LEMMA ATablesAccounted ==
    ASSUME MInv, AInv PROVE TablesAccounted
<1> SUFFICES ASSUME Quiet, pc # "undefined"
             PROVE  /\ physpages = {a[3] : a \in UNION {Links(s) : s \in Live}}
                    /\ pc = "run" /\ cr3 # root_entry[load.sp] => root_entry[load.sp] \notin physpages
  BY DEF TablesAccounted
<1>1. pc = "run" /\ cr3 # root_entry[load.sp] => root_entry[load.sp] \notin physpages
  BY DEF AInv, Freed, Gone
<1>2. Live \subseteq Kept
  BY DEF Live, Kept
<1>3. ASSUME NEW s \in Live, NEW a \in Links(s) PROVE a[3] \in physpages
  <2>1. root_entry[s] \in physpages
    BY <1>3 DEF Links
  <2>2. TablesApart(physpages, tbl, root_entry[s])
    BY <1>2, <2>1, OwnedTables DEF MInv, Owned
  <2> QED BY <1>3, <2>1, <2>2 DEF Links, TablesApart
<1>4. ASSUME NEW g \in physpages PROVE \E s \in Live : \E a \in Links(s) : a[3] = g
  <2>1. PICK s \in Kept : Mine(physpages, tbl, root_entry, s, g)
    BY DEF AInv, Linked
  <2>2. root_entry[s] \in physpages /\ (g = root_entry[s] \/ \E k \in Idx : tbl[root_entry[s]][k].p /\ tbl[root_entry[s]][k].to = g)
    BY <2>1, MineIs
  <2>3. s \in Live
    <3>1. CASE s = kernel_addrspc \/ s = lost
      BY <3>1 DEF Live
    <3>2. CASE s = load.sp /\ s # kernel_addrspc /\ s # lost
      <4>1. ~Gone
        BY <2>2, <3>2 DEF AInv, Freed
      <4>2. pc \in {"init", "load", "run"}
        <5>1. pc \in {"off", "init_pm", "prompt", "init", "load", "run", "closed", "undefined"}
          BY DEF MInv, MTyped
        <5>2. pc \notin {"off", "init_pm"}
          BY <3>2 DEF MInv, Control, Off, kernel_addrspc
        <5> QED BY <3>2, <4>1, <5>1, <5>2 DEF Gone
      <4> QED BY <3>2, <4>2 DEF Live
    <3> QED BY <3>1, <3>2 DEF Kept
  <2>4. \E a \in Links(s) : a[3] = g
    <3>1. CASE g = root_entry[s]
      <4>1. <<s, Entries, g>> \in Links(s) /\ <<s, Entries, g>>[3] = g
        BY <2>2, <3>1 DEF Links
      <4> QED BY <4>1
    <3>2. ASSUME NEW k \in Idx, tbl[root_entry[s]][k].p, tbl[root_entry[s]][k].to = g PROVE \E a \in Links(s) : a[3] = g
      <4>1. <<s, k, g>> \in Links(s) /\ <<s, k, g>>[3] = g
        BY <2>2, <3>2 DEF Links
      <4> QED BY <4>1
    <3> QED BY <2>2, <3>1, <3>2
  <2> QED BY <2>3, <2>4
<1>5. physpages = {a[3] : a \in UNION {Links(s) : s \in Live}}
  <2>1. ASSUME NEW g \in physpages PROVE g \in {a[3] : a \in UNION {Links(s) : s \in Live}}
    BY <1>4, <2>1
  <2>2. ASSUME NEW g \in {a[3] : a \in UNION {Links(s) : s \in Live}} PROVE g \in physpages
    BY <1>3, <2>2
  <2> QED BY <2>1, <2>2
<1> QED BY <1>1, <1>5

(* Closing a program, or failing to make its address space, gives every    *)
(* page back, and between operations no page is in use but those of live   *)
(* address spaces, although addrspc_unmap counts an absent page as a whole *)
(* table (pagemap.c 57-61, 146-208): for every pool, every page and table  *)
(* size and every program, if the address space has the code's layout, the *)
(* kernel filling the first table and the program lying in the second.     *)
THEOREM PagesAlwaysAccounted == ASSUME SecondTable PROVE Spec => []TablesAccounted
<1>1. Init => MInv /\ AInv
  BY MInit, AInit
<1>2. (MInv /\ AInv) /\ [Next]_vars => (MInv /\ AInv)'
  BY MNext, ANext
<1>3. MInv /\ AInv => TablesAccounted
  BY ATablesAccounted
<1> QED BY <1>1, <1>2, <1>3, PTL DEF Spec

=============================================================================
