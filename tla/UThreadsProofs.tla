--------------------------- MODULE UThreadsProofs ---------------------------
(***************************************************************************)
(* Proofs about UThreads, for every size of uthrds[] and every number of   *)
(* threads: stacks stay apart, a handle joins its own thread, and entries  *)
(* are neither lost nor freed twice.  Then ThreadsProgram, for every       *)
(* number of threads too: the program prints what it has waited for.       *)
(***************************************************************************)
EXTENDS ThreadsProgram, TLAPS

\* The kernel still knows u, so u may run on its stack or be joined.
Living(u) == life[u] \in {"ready", "running", "exited"}
Owns(t, s) == Holds(t, s) \/ s \in handles[t]
\* c is the thread that was started on the stack of entry s.
ChildOn(c, s) == c \in Tids /\ Living(c) /\ stack[c] = s
Unused(s) == \A u \in Tids : Living(u) => stack[u] # s

\* One thread at a time works on an entry or has the handle to it.
Exclusive ==
    \A t, u \in Tids : \A s \in Slots :
        /\ Owns(t, s) /\ Owns(u, s) => t = u
        /\ ~(Holds(t, s) /\ s \in handles[t])

\* What the place of t in a call, and each handle of t, says about its entry.
StageOf(t) ==
    /\ where[t] \in {"create", "free"} => Unused(idx[t])
    /\ where[t] = "created" => ChildOn(res[t], idx[t])
    /\ where[t] \in {"join", "joining"} => ChildOn(ktid[idx[t]], idx[t])
    /\ where[t] # "hung"
    /\ \A h \in handles[t] : ChildOn(ktid[h], h)
Stages == \A t \in Tids : StageOf(t)

\* A thread is blocked in the kernel exactly while its thrd_join is.
Blocked ==
    \A t \in Tids :
        joins[t] = IF where[t] = "joining" THEN ktid[idx[t]] ELSE 0

OneChild ==
    \A u, v \in Tids :
        Living(u) /\ Living(v) /\ stack[u] # 0 /\ stack[u] = stack[v] => u = v

AccountOf(s) ==
    /\ ~inuse[s] => Unused(s)
    /\ inuse[s] <=> (\E t \in Tids : Owns(t, s)) \/ NegativeStatus(s)
    /\ NegativeStatus(s) => \A t \in Tids : ~Owns(t, s)
Accounted == \A s \in Slots : AccountOf(s)

\* The inductive invariant.
UInv ==
    /\ TypeOK /\ ~stray
    /\ Exclusive /\ Stages /\ Blocked /\ OneChild /\ Accounted

-----------------------------------------------------------------------------
LEMMA Ranges ==
    /\ 0 \notin Tids /\ 0 \notin Slots /\ Main \in Tids
    /\ Tids \subseteq 0 .. MaxTid /\ Slots \subseteq 0 .. THRD_MAX
    /\ 0 \in 0 .. MaxTid /\ 0 \in 0 .. THRD_MAX /\ 1 \in Slots
    /\ Krn!Tids = Tids
BY UThreadsAssumption DEF Tids, Slots, Main, Krn!Tids

(* Initially no entry is in use and main runs on the stack of the program. *)
LEMMA InitUInv == Init => UInv
<1> SUFFICES ASSUME Init PROVE UInv
    OBVIOUS
<1>1. TypeOK
  <2>1. /\ life \in [Tids -> {"unborn", "ready", "running", "exited", "gone"}]
        /\ where \in [Tids -> Places] /\ \A t \in Tids : where[t] = "user"
      BY DEF Init, Places
  <2>2. /\ joins \in [Tids -> 0 .. MaxTid] /\ res \in [Tids -> 0 .. MaxTid]
        /\ ktid \in [Slots -> 0 .. MaxTid] /\ value \in [Tids -> Int]
        /\ idx \in [Tids -> 0 .. THRD_MAX] /\ stack \in [Tids -> 0 .. THRD_MAX]
      BY Ranges DEF Init
  <2>3. /\ inuse \in [Slots -> BOOLEAN] /\ stray \in BOOLEAN
        /\ handles \in [Tids -> SUBSET Slots]
      BY DEF Init
  <2> QED
      BY <2>1, <2>2, <2>3 DEF TypeOK
<1>2. Exclusive
    BY DEF Init, Exclusive, Owns, Holds
<1>3. Stages
    BY DEF Init, Stages, StageOf
<1>4. Blocked
    BY DEF Init, Blocked
<1>5. OneChild
    BY DEF Init, OneChild
<1>6. Accounted
    BY Ranges DEF Init, Accounted, AccountOf, Owns, Holds, Unused, NegativeStatus
<1> QED
    BY <1>1, <1>2, <1>3, <1>4, <1>5, <1>6 DEF UInv, Init

(* A step of t that concerns one entry s, which nobody else owns: what is  *)
(* true of the other threads and of the other entries stays true.          *)
LEMMA OneEntry ==
    ASSUME UInv, NEW t \in Tids, NEW s \in Slots,
           \A u \in Tids \ {t} : ~Owns(u, s),
           TypeOK',
           \A u \in Tids \ {t} : /\ where'[u] = where[u] /\ idx'[u] = idx[u]
                                 /\ res'[u] = res[u] /\ handles'[u] = handles[u],
           \A r \in Slots \ {s} : /\ Holds(t, r)' <=> Holds(t, r)
                                  /\ r \in handles'[t] <=> r \in handles[t],
           \A r \in Slots \ {s} : /\ inuse'[r] = inuse[r] /\ ktid'[r] = ktid[r]
                                  /\ Unused(r) => Unused(r)'
                                  /\ NegativeStatus(r)' <=> NegativeStatus(r),
           \A r \in Slots \ {s} : \A c \in Tids : ChildOn(c, r) => ChildOn(c, r)',
           ~(Holds(t, s)' /\ s \in handles'[t]),
           StageOf(t)', AccountOf(s)'
    PROVE  Exclusive' /\ Stages' /\ Accounted'
<1>1. \A u \in Tids \ {t} : \A r \in Slots :
          /\ Holds(u, r)' <=> Holds(u, r)
          /\ r \in handles'[u] <=> r \in handles[u]
    BY DEF Holds
<1>2. \A u \in Tids : \A r \in Slots \ {s} : Owns(u, r)' <=> Owns(u, r)
    BY <1>1 DEF Owns
<1>3. \A u \in Tids \ {t} : ~Owns(u, s)'
    BY <1>1 DEF Owns
<1>4. Exclusive'
  <2> SUFFICES ASSUME NEW u \in Tids, NEW v \in Tids, NEW r \in Slots
               PROVE  /\ Owns(u, r)' /\ Owns(v, r)' => u = v
                      /\ ~(Holds(u, r)' /\ r \in handles'[u])
      BY DEF Exclusive
  <2>1. CASE r = s
      BY <2>1, <1>3 DEF Owns
  <2>2. CASE r # s
      BY <2>2, <1>1, <1>2 DEF UInv, Exclusive
  <2> QED
      BY <2>1, <2>2
<1>5. Stages'
  <2> SUFFICES ASSUME NEW u \in Tids \ {t} PROVE StageOf(u)'
      BY DEF Stages
  <2>1. StageOf(u) /\ handles[u] \subseteq Slots \ {s}
      BY DEF UInv, Stages, Owns, TypeOK
  <2>2. where[u] \in {"create", "created", "join", "joining", "free"} => idx[u] \in Slots \ {s}
      BY DEF UInv, TypeOK, Owns, Holds
  <2>3. /\ where[u] \in {"create", "free"} => Unused(idx[u])'
        /\ where[u] = "created" => ChildOn(res[u], idx[u])'
      BY <2>1, <2>2 DEF StageOf, ChildOn
  <2>4. where[u] \in {"join", "joining"} => ChildOn(ktid[idx[u]], idx[u])'
      BY <2>1, <2>2 DEF StageOf, ChildOn
  <2>5. \A h \in handles[u] : ChildOn(ktid[h], h)'
      BY <2>1 DEF StageOf, ChildOn
  <2> QED
      BY <2>1, <2>3, <2>4, <2>5 DEF StageOf
<1>6. Accounted'
  <2> SUFFICES ASSUME NEW r \in Slots \ {s} PROVE AccountOf(r)'
      BY DEF Accounted
  <2>1. AccountOf(r)
      BY DEF UInv, Accounted
  <2> QED
      BY <2>1, <1>2 DEF AccountOf
<1> QED
    BY <1>4, <1>5, <1>6

(* A step that leaves the kernel's threads and the entries alone.          *)
LEMMA SameKernel ==
    ASSUME UNCHANGED <<life, value, stack>>
    PROVE  /\ \A r : Unused(r)' <=> Unused(r)
           /\ \A c, r : ChildOn(c, r)' <=> ChildOn(c, r)
           /\ \A r : ktid'[r] = ktid[r] => (NegativeStatus(r)' <=> NegativeStatus(r))
           /\ OneChild' <=> OneChild
<1>1. \A u : Living(u)' <=> Living(u)
    BY DEF Living
<1>2. \A r : Unused(r)' <=> Unused(r)
    BY <1>1 DEF Unused
<1>3. \A c, r : ChildOn(c, r)' <=> ChildOn(c, r)
    BY <1>1 DEF ChildOn
<1>4. \A r : ktid'[r] = ktid[r] => (NegativeStatus(r)' <=> NegativeStatus(r))
    BY DEF NegativeStatus
<1>5. OneChild' <=> OneChild
    BY <1>1 DEF OneChild
<1> QED
    BY <1>2, <1>3, <1>4, <1>5

(* A step of t outside every entry, before thrd_alloc has found one.       *)
LEMMA NoEntry ==
    ASSUME UInv, NEW t \in Tids, TypeOK',
           UNCHANGED <<life, joins, value, inuse, ktid, res, handles, stack, stray>>,
           \A u \in Tids \ {t} : where'[u] = where[u] /\ idx'[u] = idx[u],
           where[t] \in {"user", "alloc"}, where'[t] \in {"user", "alloc"}
    PROVE  UInv'
<1>1. \A u \in Tids : \A r : Owns(u, r)' <=> Owns(u, r)
    BY DEF Owns, Holds
<1>2. Exclusive'
  <2>1. \A u \in Tids : \A r : Holds(u, r)' <=> Holds(u, r)
      BY DEF Holds
  <2> QED
      BY <1>1, <2>1 DEF UInv, Exclusive
<1>3. Stages'
  <2> SUFFICES ASSUME NEW u \in Tids PROVE StageOf(u)'
      BY DEF Stages
  <2>1. StageOf(u)
      BY DEF UInv, Stages
  <2> QED
      BY <2>1, SameKernel DEF StageOf
<1>4. Blocked'
    BY DEF UInv, Blocked
<1>5. Accounted'
  <2> SUFFICES ASSUME NEW r \in Slots PROVE AccountOf(r)'
      BY DEF Accounted
  <2>1. AccountOf(r)
      BY DEF UInv, Accounted
  <2> QED
      BY <2>1, <1>1, SameKernel DEF AccountOf
<1> QED
    BY <1>2, <1>3, <1>4, <1>5, SameKernel DEF UInv

LEMMA CallCreateInv ==
    ASSUME UInv, NEW t \in Tids, CallCreate(t)
    PROVE  UInv'
<1>1. TypeOK'
    BY Ranges DEF UInv, TypeOK, Places, CallCreate, Goes, kernel
<1> QED
    BY <1>1, NoEntry DEF UInv, TypeOK, CallCreate, At, Goes, kernel

LEMMA AllocSkipInv ==
    ASSUME UInv, NEW t \in Tids, AllocSkip(t)
    PROVE  UInv'
<1>1. idx[t] \in Slots /\ idx[t] + 1 \in Slots
    BY UThreadsAssumption DEF UInv, TypeOK, AllocSkip, At, Slots
<1>2. TypeOK'
    BY <1>1, Ranges DEF UInv, TypeOK, AllocSkip, kernel
<1> QED
    BY <1>2, NoEntry DEF UInv, TypeOK, AllocSkip, At, kernel

LEMMA AllocFullInv ==
    ASSUME UInv, NEW t \in Tids, AllocFull(t)
    PROVE  UInv'
<1>1. TypeOK'
    BY DEF UInv, TypeOK, Places, AllocFull, Goes, kernel
<1> QED
    BY <1>1, NoEntry DEF UInv, TypeOK, AllocFull, At, Goes, kernel

-----------------------------------------------------------------------------
(* Who owns an entry that is in use, and why it is nobody else.            *)
LEMMA Owner ==
    ASSUME UInv, NEW t \in Tids, NEW s \in Slots, Owns(t, s)
    PROVE  /\ inuse[s] /\ ~NegativeStatus(s)
           /\ \A u \in Tids \ {t} : ~Owns(u, s)
BY DEF UInv, Accounted, AccountOf, Exclusive

LEMMA AllocTakeInv ==
    ASSUME UInv, NEW t \in Tids, AllocTake(t)
    PROVE  UInv'
<1> DEFINE s == idx[t]
<1>1. /\ s \in Slots /\ ~inuse[s] /\ where[t] = "alloc"
      /\ inuse' = [inuse EXCEPT ![s] = TRUE] /\ where' = [where EXCEPT ![t] = "create"]
      /\ UNCHANGED <<life, joins, value, ktid, idx, res, handles, stack, stray>>
    BY DEF UInv, TypeOK, AllocTake, At, Goes, kernel
<1>2. TypeOK'
    BY <1>1 DEF UInv, TypeOK, Places
<1>3. Unused(s) /\ ~NegativeStatus(s) /\ \A u \in Tids : ~Owns(u, s)
    BY <1>1 DEF UInv, Accounted, AccountOf
<1>4. Holds(t, s)' /\ inuse'[s]
    BY <1>1 DEF UInv, TypeOK, Holds
<1>5. StageOf(t)'
  <2>1. StageOf(t)
      BY DEF UInv, Stages
  <2> QED
      BY <1>1, <1>3, <2>1, SameKernel DEF StageOf, UInv, TypeOK
<1>6. AccountOf(s)'
    BY <1>1, <1>3, <1>4, SameKernel DEF AccountOf, Owns
<1>7. \A r \in Slots \ {s} : Holds(t, r)' <=> Holds(t, r)
    BY <1>1 DEF Holds
<1>8. Exclusive' /\ Stages' /\ Accounted'
    BY <1>1, <1>2, <1>3, <1>5, <1>6, <1>7, SameKernel, OneEntry DEF UInv, TypeOK, Owns
<1>9. Blocked'
    BY <1>1 DEF UInv, TypeOK, Blocked
<1> QED
    BY <1>1, <1>2, <1>8, <1>9, SameKernel DEF UInv

LEMMA SysCreateFailsInv ==
    ASSUME UInv, NEW t \in Tids, SysCreateFails(t)
    PROVE  UInv'
<1> DEFINE s == idx[t]
<1>1. /\ s \in Slots /\ where[t] = "create" /\ where' = [where EXCEPT ![t] = "free"]
      /\ UNCHANGED <<life, joins, value, inuse, ktid, idx, res, handles, stack, stray>>
    BY DEF UInv, TypeOK, SysCreateFails, At, Goes, kernel
<1>2. TypeOK'
    BY <1>1 DEF UInv, TypeOK, Places
<1>3. Holds(t, s) /\ Owns(t, s) /\ Holds(t, s)' /\ Owns(t, s)'
    BY <1>1 DEF UInv, TypeOK, Holds, Owns
<1>4. StageOf(t)'
  <2>1. StageOf(t)
      BY DEF UInv, Stages
  <2> QED
      BY <1>1, <2>1, SameKernel DEF StageOf, UInv, TypeOK
<1>5. AccountOf(s)'
    BY <1>1, <1>3, Owner, SameKernel DEF AccountOf
<1>6. \A r \in Slots \ {s} : Holds(t, r)' <=> Holds(t, r)
    BY <1>1 DEF Holds
<1>7. s \notin handles'[t]
    BY <1>1, <1>3 DEF UInv, Exclusive
<1>8. Exclusive' /\ Stages' /\ Accounted'
    BY <1>1, <1>2, <1>3, <1>4, <1>5, <1>6, <1>7, SameKernel, Owner, OneEntry DEF UInv, TypeOK
<1>9. Blocked'
    BY <1>1 DEF UInv, TypeOK, Blocked
<1> QED
    BY <1>1, <1>2, <1>8, <1>9, SameKernel DEF UInv

LEMMA FreeInv ==
    ASSUME UInv, NEW t \in Tids, Free(t)
    PROVE  UInv'
<1> DEFINE s == idx[t]
<1>1. /\ s \in Slots /\ where[t] = "free"
      /\ inuse' = [inuse EXCEPT ![s] = FALSE] /\ where' = [where EXCEPT ![t] = "user"]
      /\ UNCHANGED <<life, joins, value, ktid, idx, res, handles, stack, stray>>
    BY DEF UInv, TypeOK, Free, At, Goes, kernel
<1>2. TypeOK'
    BY <1>1 DEF UInv, TypeOK, Places
<1>3. Holds(t, s) /\ Owns(t, s) /\ ~Holds(t, s)' /\ ~inuse'[s]
    BY <1>1 DEF UInv, TypeOK, Holds, Owns
<1>4. StageOf(t)
    BY DEF UInv, Stages
<1>5. StageOf(t)'
    BY <1>1, <1>4, SameKernel DEF StageOf, UInv, TypeOK
<1>6. s \notin handles'[t] /\ ~Owns(t, s)'
    BY <1>1, <1>3 DEF UInv, Exclusive, Owns
<1>7. \A u \in Tids \ {t} : ~Owns(u, s)'
    BY <1>1, <1>3, Owner DEF Owns, Holds, UInv, TypeOK
<1>8. AccountOf(s)'
    BY <1>1, <1>3, <1>4, <1>6, <1>7, Owner, SameKernel DEF AccountOf, StageOf
<1>9. \A r \in Slots \ {s} : Holds(t, r)' <=> Holds(t, r)
    BY <1>1 DEF Holds
<1>10. Exclusive' /\ Stages' /\ Accounted'
    BY <1>1, <1>2, <1>3, <1>5, <1>6, <1>8, <1>9, SameKernel, Owner, OneEntry DEF UInv, TypeOK
<1>11. Blocked'
    BY <1>1 DEF UInv, TypeOK, Blocked
<1> QED
    BY <1>1, <1>2, <1>10, <1>11, SameKernel DEF UInv

LEMMA StoreHandleInv ==
    ASSUME UInv, NEW t \in Tids, StoreHandle(t)
    PROVE  UInv'
<1> DEFINE s == idx[t]
<1>1. /\ s \in Slots /\ where[t] = "created"
      /\ ktid' = [ktid EXCEPT ![s] = res[t]] /\ where' = [where EXCEPT ![t] = "user"]
      /\ handles' = [handles EXCEPT ![t] = @ \cup {s}]
      /\ UNCHANGED <<life, joins, value, inuse, idx, res, stack, stray>>
    BY DEF UInv, TypeOK, StoreHandle, At, Goes, kernel
<1>2. TypeOK'
    BY <1>1 DEF UInv, TypeOK, Places
<1>3. Holds(t, s) /\ Owns(t, s) /\ ~Holds(t, s)' /\ s \in handles'[t]
    BY <1>1 DEF UInv, TypeOK, Holds, Owns
<1>4. StageOf(t) /\ ChildOn(res[t], s) /\ ktid'[s] = res[t]
    BY <1>1 DEF UInv, Stages, StageOf, TypeOK
<1>5. \A r \in Slots \ {s} : ktid'[r] = ktid[r]
    BY <1>1 DEF UInv, TypeOK
<1>6. StageOf(t)'
  <2>1. \A h \in handles'[t] : h \in handles[t] \/ h = s
      BY <1>1 DEF UInv, TypeOK
  <2>2. \A h \in handles'[t] : h \in Slots
      BY <1>2 DEF TypeOK
  <2>3. \A h \in handles'[t] : ChildOn(ktid'[h], h)
      BY <1>4, <1>5, <2>1, <2>2 DEF StageOf
  <2>4. \A h \in handles'[t] : ChildOn(ktid[h], h)'
      BY <1>1, <2>3 DEF ChildOn, Living
  <2>5. where'[t] = "user"
      BY <1>1 DEF UInv, TypeOK
  <2> QED
      BY <2>4, <2>5 DEF StageOf
<1>7. AccountOf(s)'
  <2>1. ~NegativeStatus(s)'
      BY <1>1, <1>4 DEF NegativeStatus, ChildOn, Living
  <2>2. inuse'[s] /\ Owns(t, s)'
      BY <1>1, <1>3, Owner DEF Owns
  <2> QED
      BY <1>1, <2>1, <2>2 DEF AccountOf
<1>8. \A r \in Slots \ {s} : /\ Holds(t, r)' <=> Holds(t, r)
                             /\ r \in handles'[t] <=> r \in handles[t]
    BY <1>1 DEF Holds, UInv, TypeOK
<1>9. \A u \in Tids \ {t} : where'[u] = where[u] /\ handles'[u] = handles[u]
    BY <1>1 DEF UInv, TypeOK
<1>10. Exclusive' /\ Stages' /\ Accounted'
    BY <1>1, <1>2, <1>3, <1>5, <1>6, <1>7, <1>8, <1>9, SameKernel, Owner, OneEntry
<1>11. Blocked'
  <2> SUFFICES ASSUME NEW u \in Tids
               PROVE  joins[u] = IF where'[u] = "joining" THEN ktid'[idx[u]] ELSE 0
      BY <1>1 DEF Blocked
  <2>1. CASE u = t
      BY <1>1, <2>1 DEF UInv, TypeOK, Blocked
  <2>2. CASE u # t
    <3>1. where[u] = "joining" => idx[u] \in Slots \ {s}
        BY <1>3, <2>2, Owner DEF UInv, TypeOK, Owns, Holds
    <3> QED
        BY <1>5, <1>9, <2>2, <3>1 DEF UInv, Blocked
  <2> QED
      BY <2>1, <2>2
<1> QED
    BY <1>1, <1>2, <1>10, <1>11, SameKernel DEF UInv

LEMMA CallJoinInv ==
    ASSUME UInv, NEW t \in Tids, NEW s \in handles[t], CallJoin(t, s)
    PROVE  UInv'
<1>1. /\ s \in Slots /\ where[t] = "user" /\ where' = [where EXCEPT ![t] = "join"]
      /\ idx' = [idx EXCEPT ![t] = s] /\ handles' = [handles EXCEPT ![t] = @ \ {s}]
      /\ UNCHANGED <<life, joins, value, inuse, ktid, res, stack, stray>>
    BY DEF UInv, TypeOK, CallJoin, At, Goes, kernel
<1>2. TypeOK'
    BY <1>1, Ranges DEF UInv, TypeOK, Places
<1>3. Owns(t, s) /\ Holds(t, s)' /\ s \notin handles'[t]
    BY <1>1 DEF UInv, TypeOK, Holds, Owns
<1>4. StageOf(t)
    BY DEF UInv, Stages
<1>5. StageOf(t)'
  <2>1. where'[t] = "join" /\ idx'[t] = s /\ handles'[t] \subseteq handles[t]
      BY <1>1 DEF UInv, TypeOK
  <2> QED
      BY <1>1, <1>4, <2>1, SameKernel DEF StageOf
<1>6. AccountOf(s)'
    BY <1>1, <1>3, Owner, SameKernel DEF AccountOf, Owns
<1>7. \A r \in Slots \ {s} : /\ Holds(t, r)' <=> Holds(t, r)
                             /\ r \in handles'[t] <=> r \in handles[t]
    BY <1>1 DEF Holds, UInv, TypeOK
<1>8. \A u \in Tids \ {t} : /\ where'[u] = where[u] /\ idx'[u] = idx[u]
                            /\ handles'[u] = handles[u]
    BY <1>1 DEF UInv, TypeOK
<1>9. Exclusive' /\ Stages' /\ Accounted'
    BY <1>1, <1>2, <1>3, <1>5, <1>6, <1>7, <1>8, SameKernel, Owner, OneEntry
<1>10. Blocked'
    BY <1>1 DEF UInv, TypeOK, Blocked
<1> QED
    BY <1>1, <1>2, <1>9, <1>10, SameKernel DEF UInv

(* Only a handle is joined, so the kernel still knows its thread: the two  *)
(* error paths of thrd_join are not taken.                                 *)
LEMMA JoinNeverFails ==
    ASSUME UInv, NEW t \in Tids
    PROVE  ~SysJoinMissing(t) /\ ~SysJoinHangs(t)
<1>1. where[t] = "join" => ktid[idx[t]] \in Tids /\ Living(ktid[idx[t]])
    BY DEF UInv, Stages, StageOf, ChildOn
<1> QED
    BY <1>1, Ranges DEF SysJoinMissing, SysJoinHangs, At, Living

LEMMA SysJoinInv ==
    ASSUME UInv, NEW t \in Tids, SysJoin(t)
    PROVE  UInv'
<1> DEFINE s == idx[t]
<1>1. /\ s \in Slots /\ where[t] = "join" /\ where' = [where EXCEPT ![t] = "joining"]
      /\ joins' = [joins EXCEPT ![t] = ktid[s]]
      /\ UNCHANGED <<life, value, inuse, ktid, idx, res, handles, stack, stray>>
    BY DEF UInv, TypeOK, SysJoin, At, Goes, Krn!Join
<1>2. TypeOK'
    BY <1>1 DEF UInv, TypeOK, Places
<1>3. Holds(t, s) /\ Owns(t, s) /\ Holds(t, s)' /\ Owns(t, s)'
    BY <1>1 DEF UInv, TypeOK, Holds, Owns
<1>4. StageOf(t)'
  <2>1. StageOf(t)
      BY DEF UInv, Stages
  <2> QED
      BY <1>1, <2>1, SameKernel DEF StageOf, UInv, TypeOK
<1>5. AccountOf(s)'
    BY <1>1, <1>3, Owner, SameKernel DEF AccountOf
<1>6. \A r \in Slots \ {s} : Holds(t, r)' <=> Holds(t, r)
    BY <1>1 DEF Holds
<1>7. s \notin handles'[t]
    BY <1>1, <1>3 DEF UInv, Exclusive
<1>8. Exclusive' /\ Stages' /\ Accounted'
    BY <1>1, <1>2, <1>3, <1>4, <1>5, <1>6, <1>7, SameKernel, Owner, OneEntry DEF UInv, TypeOK
<1>9. Blocked'
    BY <1>1 DEF UInv, TypeOK, Blocked
<1> QED
    BY <1>1, <1>2, <1>8, <1>9, SameKernel DEF UInv

LEMMA KtidRange ==
    ASSUME TypeOK, NEW r \in Slots
    PROVE  ktid[r] = 0 \/ ktid[r] \in Tids
<1>1. ktid[r] \in 0 .. MaxTid
    BY DEF TypeOK
<1> QED
    BY <1>1, UThreadsAssumption DEF Tids

(* The new thread starts on the stack of an entry that no thread the       *)
(* kernel knows was started on.                                            *)
LEMMA SysCreateInv ==
    ASSUME UInv, NEW t \in Tids, NEW c \in Tids, SysCreate(t, c)
    PROVE  UInv'
<1> DEFINE s == idx[t]
<1>1. /\ s \in Slots /\ where[t] = "create" /\ where' = [where EXCEPT ![t] = "created"]
      /\ life[c] = "unborn" /\ life' = [life EXCEPT ![c] = "ready"]
      /\ stack' = [stack EXCEPT ![c] = s] /\ res' = [res EXCEPT ![t] = c]
      /\ UNCHANGED <<joins, value, inuse, ktid, idx, handles, stray>>
    BY DEF UInv, TypeOK, SysCreate, At, Goes, Krn!Spawn, Krn!IsNext
<1>2. TypeOK'
    BY <1>1, Ranges DEF UInv, TypeOK, Places
<1>3. Holds(t, s) /\ Owns(t, s) /\ Holds(t, s)' /\ Owns(t, s)'
    BY <1>1 DEF UInv, TypeOK, Holds, Owns
<1>4. /\ \A u \in Tids : Living(u)' <=> Living(u) \/ u = c
      /\ \A u \in Tids \ {c} : life'[u] = life[u] /\ stack'[u] = stack[u]
      /\ life'[c] = "ready" /\ stack'[c] = s /\ ~Living(c)
    BY <1>1 DEF UInv, TypeOK, Living
<1>5. StageOf(t) /\ Unused(s)
    BY <1>1 DEF UInv, Stages, StageOf
<1>6. \A d, r : ChildOn(d, r) => ChildOn(d, r)'
    BY <1>4 DEF ChildOn
<1>7. \A r \in Slots \ {s} : Unused(r) => Unused(r)'
    BY <1>4 DEF Unused
<1>8. \A r \in Slots : NegativeStatus(r)' <=> NegativeStatus(r)
  <2> SUFFICES ASSUME NEW r \in Slots PROVE NegativeStatus(r)' <=> NegativeStatus(r)
      OBVIOUS
  <2>1. ktid[r] = 0 \/ ktid[r] \in Tids
      BY KtidRange DEF UInv
  <2> QED
      BY <1>1, <1>4, <2>1 DEF NegativeStatus
<1>9. StageOf(t)'
  <2>1. where'[t] = "created" /\ res'[t] = c /\ ChildOn(c, s)'
      BY <1>1, <1>4 DEF UInv, TypeOK, ChildOn
  <2> QED
      BY <1>1, <1>5, <1>6, <2>1 DEF StageOf
<1>10. AccountOf(s)'
    BY <1>1, <1>3, <1>8, Owner DEF AccountOf
<1>11. \A r \in Slots \ {s} : Holds(t, r)' <=> Holds(t, r)
    BY <1>1 DEF Holds
<1>12. s \notin handles'[t]
    BY <1>1, <1>3 DEF UInv, Exclusive
<1>13. \A u \in Tids \ {t} : where'[u] = where[u] /\ res'[u] = res[u]
    BY <1>1 DEF UInv, TypeOK
<1>14. Exclusive' /\ Stages' /\ Accounted'
    BY <1>1, <1>2, <1>3, <1>6, <1>7, <1>8, <1>9, <1>10, <1>11, <1>12, <1>13, Owner, OneEntry
<1>15. Blocked'
    BY <1>1 DEF UInv, TypeOK, Blocked
<1>16. OneChild'
    BY <1>4, <1>5 DEF UInv, OneChild, Unused
<1> QED
    BY <1>1, <1>2, <1>14, <1>15, <1>16 DEF UInv

(* The joined thread is the only one on its stack: when the kernel has     *)
(* retired it the entry may be freed.                                      *)
LEMMA SysJoinedInv ==
    ASSUME UInv, NEW t \in Tids, SysJoined(t)
    PROVE  UInv'
<1> DEFINE s == idx[t]
           c == ktid[idx[t]]
<1>1. /\ s \in Slots /\ where[t] = "joining"
      /\ where' = [where EXCEPT ![t] = IF value[c] < 0 THEN "user" ELSE "free"]
      /\ life' = [life EXCEPT ![c] = "gone"] /\ joins' = [joins EXCEPT ![t] = 0]
      /\ UNCHANGED <<value, inuse, ktid, idx, res, handles, stack, stray>>
    BY DEF UInv, TypeOK, SysJoined, Goes, Krn!Retire
<1>2. TypeOK'
    BY <1>1, Ranges DEF UInv, TypeOK, Places
<1>3. Holds(t, s) /\ Owns(t, s) /\ s \notin handles[t]
    BY <1>1 DEF UInv, TypeOK, Holds, Owns, Exclusive
<1>4. StageOf(t) /\ ChildOn(c, s) /\ c \in Tids /\ Living(c) /\ stack[c] = s
    BY <1>1 DEF UInv, Stages, StageOf, ChildOn
<1>5. /\ \A u \in Tids : Living(u)' <=> Living(u) /\ u # c
      /\ \A u \in Tids \ {c} : life'[u] = life[u]
      /\ life'[c] = "gone"
    BY <1>1, <1>4 DEF UInv, TypeOK, Living
<1>6. \A r \in Slots \ {s} : \A d : ChildOn(d, r) => ChildOn(d, r)'
    BY <1>1, <1>4, <1>5 DEF ChildOn
<1>7. \A r : Unused(r) => Unused(r)'
    BY <1>1, <1>5 DEF Unused
<1>8. \A u \in Tids : Living(u) /\ u # c => stack[u] # s
  <2>1. s # 0
      BY <1>1, Ranges
  <2> QED
      BY <1>4, <2>1 DEF UInv, OneChild
<1>9. Unused(s)'
    BY <1>1, <1>5, <1>8 DEF Unused
<1>10. \A r \in Slots \ {s} : NegativeStatus(r)' <=> NegativeStatus(r)
  <2> SUFFICES ASSUME NEW r \in Slots \ {s}
               PROVE  NegativeStatus(r)' <=> NegativeStatus(r)
      OBVIOUS
  <2>1. ktid[r] = 0 \/ ktid[r] \in Tids
      BY KtidRange DEF UInv
  <2>2. CASE ktid[r] = c
      BY <1>1, <1>4, <2>2 DEF NegativeStatus
  <2>3. CASE ktid[r] # c
      BY <1>1, <1>5, <2>1, <2>3 DEF NegativeStatus
  <2> QED
      BY <2>2, <2>3
<1>11. NegativeStatus(s)' <=> value[c] < 0
    BY <1>1, <1>4, <1>5, Ranges DEF NegativeStatus
<1>12. where'[t] = IF value[c] < 0 THEN "user" ELSE "free"
    BY <1>1 DEF UInv, TypeOK
<1>13. StageOf(t)'
  <2>1. \A h \in handles[t] : ChildOn(ktid[h], h)'
    <3>1. handles[t] \subseteq Slots \ {s}
        BY <1>3 DEF UInv, TypeOK
    <3> QED
        BY <1>1, <1>4, <1>6, <3>1 DEF StageOf
  <2> QED
      BY <1>1, <1>9, <1>12, <2>1 DEF StageOf
<1>14. Owns(t, s)' <=> ~(value[c] < 0)
    BY <1>1, <1>3, <1>12 DEF Owns, Holds
<1>15. \A u \in Tids \ {t} : where'[u] = where[u]
    BY <1>1 DEF UInv, TypeOK
<1>16. \A u \in Tids \ {t} : ~Owns(u, s)'
    BY <1>1, <1>3, <1>15, Owner DEF Owns, Holds
<1>17. AccountOf(s)'
    BY <1>1, <1>3, <1>11, <1>14, <1>16, Owner DEF AccountOf
<1>18. \A r \in Slots \ {s} : Holds(t, r)' <=> Holds(t, r)
    BY <1>1 DEF Holds
<1>19. Exclusive' /\ Stages' /\ Accounted'
    BY <1>1, <1>2, <1>3, <1>6, <1>7, <1>10, <1>13, <1>15, <1>17, <1>18, Owner, OneEntry
<1>20. Blocked'
    BY <1>1, <1>12, <1>15 DEF UInv, TypeOK, Blocked
<1>21. OneChild'
    BY <1>1, <1>5 DEF UInv, OneChild
<1> QED
    BY <1>1, <1>2, <1>19, <1>20, <1>21 DEF UInv

(* The kernel gives the CPU to another thread, or a thread ends: who owns  *)
(* which entry does not change, and neither does who lives.                *)
LEMMA KernelStep ==
    ASSUME UInv, TypeOK',
           UNCHANGED <<joins, inuse, ktid, where, idx, res, handles, stack, stray>>,
           \A u \in Tids : /\ Living(u)' <=> Living(u)
                           /\ life'[u] = "gone" <=> life[u] = "gone"
                           /\ life[u] = "gone" => value'[u] = value[u]
    PROVE  UInv'
<1>1. \A u \in Tids : \A r : /\ Owns(u, r)' <=> Owns(u, r)
                             /\ Holds(u, r)' <=> Holds(u, r)
    BY DEF Owns, Holds
<1>2. Exclusive'
    BY <1>1 DEF UInv, Exclusive
<1>3. /\ \A r : Unused(r)' <=> Unused(r)
      /\ \A c, r : ChildOn(c, r)' <=> ChildOn(c, r)
    BY DEF Unused, ChildOn
<1>4. \A r \in Slots : NegativeStatus(r)' <=> NegativeStatus(r)
  <2> SUFFICES ASSUME NEW r \in Slots PROVE NegativeStatus(r)' <=> NegativeStatus(r)
      OBVIOUS
  <2>1. ktid[r] = 0 \/ ktid[r] \in Tids
      BY KtidRange DEF UInv
  <2> QED
      BY <2>1 DEF NegativeStatus
<1>5. Stages'
    BY <1>3 DEF UInv, Stages, StageOf
<1>6. Blocked' /\ OneChild'
    BY DEF UInv, Blocked, OneChild
<1>7. Accounted'
    BY <1>1, <1>3, <1>4 DEF UInv, Accounted, AccountOf
<1> QED
    BY <1>2, <1>5, <1>6, <1>7 DEF UInv

LEMMA ThreadReturnsInv ==
    ASSUME UInv, NEW t \in Tids, NEW n \in Tids, ThreadReturns(t, n)
    PROVE  UInv'
<1>1. /\ life[t] = "running" /\ life[n] = "ready"
      /\ life' = [life EXCEPT ![t] = "exited", ![n] = "running"]
      /\ UNCHANGED <<joins, inuse, ktid, where, idx, res, handles, stack, stray>>
    BY DEF ThreadReturns, Krn!End, Krn!Acts
<1>2. PICK v \in Status : value' = [value EXCEPT ![t] = v]
    BY DEF ThreadReturns, Krn!End
<1>3. TypeOK'
    BY <1>1, <1>2, UThreadsAssumption DEF UInv, TypeOK
<1> QED
    BY <1>1, <1>2, <1>3, KernelStep DEF UInv, TypeOK, Living

LEMMA MainReturnsInv ==
    ASSUME UInv, MainReturns
    PROVE  UInv'
<1>1. /\ life[Main] = "running" /\ life' = [life EXCEPT ![Main] = "exited"]
      /\ UNCHANGED <<joins, value, inuse, ktid, where, idx, res, handles, stack, stray>>
    BY DEF MainReturns, Krn!Quit, Krn!Acts
<1>2. TypeOK'
    BY <1>1 DEF UInv, TypeOK
<1> QED
    BY <1>1, <1>2, Ranges, KernelStep DEF UInv, TypeOK, Living

LEMMA SwitchInv ==
    ASSUME UInv, NEW r \in Tids, NEW n \in Tids, Switch(r, n)
    PROVE  UInv'
<1>1. /\ life[r] = "running" /\ life[n] = "ready"
      /\ life' = [life EXCEPT ![r] = "ready", ![n] = "running"]
      /\ UNCHANGED <<joins, value, inuse, ktid, where, idx, res, handles, stack, stray>>
    BY DEF Switch, Krn!Switch
<1>2. TypeOK'
    BY <1>1 DEF UInv, TypeOK
<1> QED
    BY <1>1, <1>2, KernelStep DEF UInv, TypeOK, Living

-----------------------------------------------------------------------------
LEMMA StepUInv ==
    ASSUME UInv, [Next]_uvars
    PROVE  UInv'
<1>1. ASSUME NEW t \in Tids, Library(t) PROVE UInv'
    BY <1>1, AllocTakeInv, AllocSkipInv, AllocFullInv, SysCreateFailsInv, SysCreateInv,
       StoreHandleInv, FreeInv, SysJoinInv, JoinNeverFails, SysJoinedInv DEF Library
<1>2. ASSUME NEW t \in Tids, AnyClient(t) PROVE UInv'
    BY <1>2, CallCreateInv, CallJoinInv, ThreadReturnsInv DEF AnyClient
<1>3. CASE UNCHANGED uvars
  <2>1. TypeOK'
      BY <1>3 DEF uvars, UInv, TypeOK
  <2> QED
      BY <1>3, <2>1, KernelStep DEF uvars, Living
<1> QED
    BY <1>1, <1>2, <1>3, MainReturnsInv, SwitchInv DEF Next, Scheduler

(* UInv holds of every state that programs joining only their own threads  *)
(* reach, however their library calls interleave.                          *)
THEOREM UThreadsInductive == Spec => []UInv
BY InitUInv, StepUInv, PTL DEF Spec

(* The type invariant: the scan of thrd_alloc stays inside uthrds[].       *)
THEOREM UThreadsType == Spec => []TypeOK
<1>1. UInv => TypeOK
    BY DEF UInv
<1> QED
    BY <1>1, UThreadsInductive, PTL

(* Threads that can run have stacks of their own, and thrd_create writes   *)
(* its argument words only on a stack that is out of use (threads.c 34-45, *)
(* 54-89).                                                                 *)
THEOREM StacksStayApart == Spec => []StacksApart
<1>1. UInv => StacksApart
  <2> SUFFICES ASSUME UInv PROVE StacksApart
      OBVIOUS
  <2>1. \A t \in Tids : Alive(t) => Living(t)
      BY DEF Alive, Living
  <2> QED
      BY <2>1 DEF UInv, StacksApart, OneChild, Stages, StageOf, Unused
<1> QED
    BY <1>1, UThreadsInductive, PTL

(* A thrd_t joins the thread that its holder has made (threads.c 54-89,    *)
(* 111-128).                                                               *)
THEOREM HandlesJoinTheirOwn == Spec => []HandleJoinsOwn
<1>1. UInv => HandleJoinsOwn
  <2> SUFFICES ASSUME UInv, NEW t \in Tids, NEW h \in handles[t]
               PROVE  /\ inuse[h] /\ ktid[h] \in Tids /\ stack[ktid[h]] = h
                      /\ life[ktid[h]] \in {"ready", "running", "exited"}
                      /\ \A u \in Tids : ~Holds(u, h) /\ (u # t => h \notin handles[u])
      BY DEF HandleJoinsOwn
  <2>1. h \in Slots /\ Owns(t, h)
      BY DEF UInv, TypeOK, Owns
  <2>2. inuse[h] /\ \A u \in Tids \ {t} : ~Owns(u, h)
      BY <2>1, Owner
  <2>3. ~Holds(t, h)
      BY <2>1 DEF UInv, Exclusive
  <2>4. ChildOn(ktid[h], h)
      BY DEF UInv, Stages, StageOf
  <2> QED
      BY <2>2, <2>3, <2>4 DEF Owns, ChildOn, Living
<1> QED
    BY <1>1, UThreadsInductive, PTL

(* No entry of uthrds[] is lost or freed twice, but for the ones whose     *)
(* threads returned a negative status (threads.c 123-126).                 *)
THEOREM EntriesAccounted == Spec => []SlotsAccounted
<1>1. UInv => SlotsAccounted
    BY DEF UInv, Accounted, AccountOf, SlotsAccounted, Owns
<1> QED
    BY <1>1, UThreadsInductive, PTL

-----------------------------------------------------------------------------
(* The threads program.  An inductive invariant of its own, since it joins  *)
(* handles that were never filled in, which UInv excludes.                  *)

\* Only main uses the library; where it can be in each of its loops.
Shape ==
    /\ nthreads \in N /\ loop \in {"create", "join"} /\ i \in 1 .. nthreads + 1
    /\ utids \in [N -> 0 .. THRD_MAX] /\ arg \in [Tids -> 0 .. MaxThreads]
    /\ results \in [N -> Int]
    /\ life \in [Tids -> {"unborn", "ready", "running", "exited", "gone"}]
    /\ inuse \in [Slots -> BOOLEAN] /\ ktid \in [Slots -> 0 .. MaxTid]
    /\ where \in [Tids -> Places] /\ idx \in [Tids -> 0 .. THRD_MAX]
    /\ res \in [Tids -> 0 .. MaxTid]
    /\ \A t \in Tids \ {Main} : where[t] = "user"
    /\ where[Main] \in IF loop = "create" THEN {"user", "alloc", "create", "created", "free"}
                       ELSE {"user", "join", "joining", "free", "hung"}
    /\ where[Main] # "user" => idx[Main] \in Slots /\ i >= 2

\* Each thread has an element of its own, of those that main has come to.
Argued ==
    /\ arg[Main] = 0 /\ life[Main] # "unborn"
    /\ \A t \in Tids \ {Main} : life[t] = "unborn" <=> arg[t] = 0
    /\ \A t, u \in Tids : arg[t] = arg[u] /\ arg[t] # 0 => t = u
    /\ loop = "create" =>
        /\ \A t \in Tids : /\ arg[t] < i
                           /\ where[Main] \in {"alloc", "create"} => arg[t] < i - 1
        /\ where[Main] = "created" => res[Main] \in Tids /\ arg[res[Main]] = i - 1

\* The handle of a thread's element is the entry with its tid, once thrd_create
\* has returned; while threads are made such entries stay in use, so that none
\* is taken twice.
Linked ==
    /\ \A t \in Tids : arg[t] # 0 =>
        \/ utids[arg[t]] \in Slots /\ ktid[utids[arg[t]]] = t
        \/ loop = "create" /\ where[Main] = "created" /\ res[Main] = t
    /\ loop = "create" =>
        /\ where[Main] \in {"create", "created", "free"} => inuse[idx[Main]]
        /\ \A k \in N : utids[k] # 0 =>
            /\ inuse[utids[k]]
            /\ where[Main] \in {"create", "created", "free"} => idx[Main] # utids[k]

\* The threads that main has joined are gone; the one it joins is the one that
\* the handle belongs to.
Joined ==
    loop = "join" => \A t \in Tids : arg[t] # 0 =>
        /\ arg[t] < i - 1 => life[t] = "gone"
        /\ arg[t] < i /\ where[Main] \in {"user", "free"} => life[t] = "gone"
        /\ arg[t] = i - 1 /\ where[Main] \in {"join", "joining"} => idx[Main] = utids[arg[t]]

\* A thread doubles its element before it ends, and nobody else does.
Doubled ==
    /\ did \subseteq Tids
    /\ \A t \in Tids \ {Main} : life[t] \in {"exited", "gone"} => t \in did
    /\ \A t \in did : arg[t] # 0
    /\ \A k \in N : results[k] = IF \E t \in did : arg[t] = k THEN 2 * k ELSE k

TInv == Shape /\ Argued /\ Linked /\ Joined /\ Doubled

LEMMA NRange == N \subseteq Nat /\ 0 \notin N
BY MaxThreadsAssumption DEF N

LEMMA InitTInv == TInit => TInv
<1> SUFFICES ASSUME TInit PROVE TInv
  OBVIOUS
<1>1. nthreads \in N /\ nthreads \in Nat \ {0} /\ i = 1 /\ loop = "create"
  BY MaxThreadsAssumption DEF TInit, N
<1>2. Shape
  BY <1>1, Ranges, NRange, UThreadsAssumption, MaxThreadsAssumption
     DEF TInit, Init, Shape, Places, N
<1>3. Argued
  BY <1>1, Ranges DEF TInit, Init, Argued
<1>4. Linked /\ Joined
  BY <1>1, Ranges DEF TInit, Init, Linked, Joined
<1>5. Doubled
  BY <1>1 DEF TInit, Init, Doubled
<1> QED BY <1>2, <1>3, <1>4, <1>5 DEF TInv

\* Main goes on in the library, or enters it, while threads are being made, and
\* neither threads, handles nor entries change.
LEMMA MainMoves ==
    ASSUME TInv, loop = "create", loop' = loop, nthreads' = nthreads,
           i' \in {i, i + 1}, i' \in 1 .. nthreads + 1,
           UNCHANGED <<life, inuse, ktid, res, utids, arg, did, results>>,
           NEW place \in {"user", "alloc", "create", "free"}, Goes(Main, place),
           idx' \in [Tids -> 0 .. THRD_MAX],
           place # "user" => idx'[Main] \in Slots /\ i' >= 2,
           place \in {"alloc", "create"} => \A t \in Tids : arg[t] < i' - 1,
           place \in {"create", "free"} => inuse[idx'[Main]],
           place \in {"create", "free"} => \A k \in N : utids[k] # 0 => idx'[Main] # utids[k],
           \A t \in Tids : arg[t] # 0 => utids[arg[t]] \in Slots /\ ktid[utids[arg[t]]] = t
    PROVE  TInv'
<1>1. where' = [where EXCEPT ![Main] = place] /\ where'[Main] = place
      /\ \A t \in Tids \ {Main} : where'[t] = where[t]
  BY Ranges DEF Goes, TInv, Shape
<1>2. i \in Int /\ i' \in Int /\ \A t \in Tids : arg[t] \in Int
  BY DEF TInv, Shape, N
<1>3. Shape'
  <2>1. where' \in [Tids -> Places]
    BY <1>1 DEF TInv, Shape, Places
  <2>2. \A t \in Tids \ {Main} : where'[t] = "user"
    BY <1>1 DEF TInv, Shape
  <2> QED BY <1>1, <2>1, <2>2 DEF TInv, Shape
<1>4. Argued'
  BY <1>1, <1>2 DEF TInv, Argued
<1>5. Linked'
  BY <1>1 DEF TInv, Linked
<1>6. Joined' /\ Doubled'
  BY DEF TInv, Joined, Doubled
<1> QED BY <1>3, <1>4, <1>5, <1>6 DEF TInv

\* The steps of the first loop that only move main.
LEMMA CreateMoves ==
    ASSUME TInv, loop = "create",
           \/ MainCreates
           \/ /\ AllocSkip(Main) \/ AllocFull(Main) \/ SysCreateFails(Main)
              /\ UNCHANGED pvars
    PROVE  TInv'
<1>1. Main \in Tids /\ 1 \in Slots /\ Slots \subseteq 0 .. THRD_MAX
  BY Ranges
<1>2. i \in Int /\ nthreads \in Int /\ \A t \in Tids : arg[t] \in Int
  BY DEF TInv, Shape, N
<1>3. where[Main] # "created" =>
        \A t \in Tids : arg[t] # 0 => utids[arg[t]] \in Slots /\ ktid[utids[arg[t]]] = t
  BY DEF TInv, Linked
<1>4. CASE MainCreates
  <2>1. /\ i <= nthreads /\ where[Main] = "user" /\ i' = i + 1
        /\ Goes(Main, "alloc") /\ idx' = [idx EXCEPT ![Main] = 1]
        /\ UNCHANGED <<life, inuse, ktid, res, utids, arg, did, results, loop, nthreads>>
    BY <1>4 DEF MainCreates, CallCreate, At, kernel
  <2>2. i' \in 1 .. nthreads + 1 /\ i' >= 2
    BY <1>2, <2>1 DEF TInv, Shape
  <2>3. idx' \in [Tids -> 0 .. THRD_MAX] /\ idx'[Main] \in Slots
    BY <1>1, <2>1 DEF TInv, Shape
  <2>4. \A t \in Tids : arg[t] < i' - 1
    BY <1>2, <2>1 DEF TInv, Argued
  <2> QED BY <1>3, <2>1, <2>2, <2>3, <2>4, MainMoves
<1>5. CASE AllocSkip(Main) /\ UNCHANGED pvars
  <2>1. /\ where[Main] = "alloc" /\ idx[Main] < THRD_MAX
        /\ idx' = [idx EXCEPT ![Main] = @ + 1] /\ where' = where
        /\ UNCHANGED <<life, inuse, ktid, res, utids, arg, did, results, loop, nthreads, i>>
    BY <1>5 DEF AllocSkip, At, kernel, pvars
  <2>2. Goes(Main, "alloc")
    BY <2>1 DEF Goes, TInv, Shape
  <2>3. idx[Main] \in Slots /\ i >= 2
    BY <2>1 DEF TInv, Shape
  <2>4. idx[Main] + 1 \in Slots
    BY <2>1, <2>3, UThreadsAssumption DEF Slots
  <2>5. idx' \in [Tids -> 0 .. THRD_MAX] /\ idx'[Main] \in Slots
    BY <1>1, <2>1, <2>4 DEF TInv, Shape
  <2>6. \A t \in Tids : arg[t] < i' - 1
    BY <2>1 DEF TInv, Argued
  <2>7. i' \in 1 .. nthreads + 1
    BY <2>1 DEF TInv, Shape
  <2> QED BY <1>3, <2>1, <2>2, <2>3, <2>5, <2>6, <2>7, MainMoves
<1>6. CASE AllocFull(Main) /\ UNCHANGED pvars
  <2>1. /\ where[Main] = "alloc" /\ Goes(Main, "user") /\ idx' = idx
        /\ UNCHANGED <<life, inuse, ktid, res, utids, arg, did, results, loop, nthreads, i>>
    BY <1>6 DEF AllocFull, At, kernel, pvars
  <2>2. i' \in 1 .. nthreads + 1 /\ idx' \in [Tids -> 0 .. THRD_MAX]
    BY <2>1 DEF TInv, Shape
  <2> QED BY <1>3, <2>1, <2>2, MainMoves
<1>7. CASE SysCreateFails(Main) /\ UNCHANGED pvars
  <2>1. /\ where[Main] = "create" /\ Goes(Main, "free") /\ idx' = idx
        /\ UNCHANGED <<life, inuse, ktid, res, utids, arg, did, results, loop, nthreads, i>>
    BY <1>7 DEF SysCreateFails, At, kernel, pvars
  <2>2. /\ i' \in 1 .. nthreads + 1 /\ idx' \in [Tids -> 0 .. THRD_MAX]
        /\ idx'[Main] \in Slots /\ i' >= 2
    BY <2>1 DEF TInv, Shape
  <2>3. inuse[idx'[Main]] /\ \A k \in N : utids[k] # 0 => idx'[Main] # utids[k]
    BY <2>1 DEF TInv, Linked
  <2> QED BY <1>3, <2>1, <2>2, <2>3, MainMoves
<1> QED BY <1>4, <1>5, <1>6, <1>7

\* thrd_alloc finds a free entry: none of those main has handles to.
LEMMA AllocTakeT ==
    ASSUME TInv, loop = "create", AllocTake(Main), UNCHANGED pvars
    PROVE  TInv'
<1>1. /\ where[Main] = "alloc" /\ ~inuse[idx[Main]]
      /\ inuse' = [inuse EXCEPT ![idx[Main]] = TRUE]
      /\ where' = [where EXCEPT ![Main] = "create"]
      /\ UNCHANGED <<life, idx, ktid, res, utids, arg, did, results, loop, nthreads, i>>
  BY DEF AllocTake, At, Goes, kernel, pvars
<1>2. idx[Main] \in Slots /\ i >= 2
  BY <1>1 DEF TInv, Shape
<1>3. where'[Main] = "create" /\ (\A t \in Tids \ {Main} : where'[t] = where[t])
      /\ where' \in [Tids -> Places]
  BY <1>1, Ranges DEF TInv, Shape, Places
<1>4. inuse' \in [Slots -> BOOLEAN] /\ inuse'[idx[Main]]
      /\ \A r \in Slots : inuse[r] => inuse'[r] /\ r # idx[Main]
  BY <1>1, <1>2 DEF TInv, Shape
<1>5. Shape'
  BY <1>1, <1>2, <1>3, <1>4 DEF TInv, Shape
<1>6. Argued'
  BY <1>1, <1>3 DEF TInv, Argued
<1>7. \A k \in N : utids[k] # 0 => utids[k] \in Slots
  BY DEF TInv, Shape, Slots
<1>8. Linked'
  BY <1>1, <1>3, <1>4, <1>7 DEF TInv, Linked
<1>9. Joined' /\ Doubled'
  BY <1>1 DEF TInv, Joined, Doubled
<1> QED BY <1>5, <1>6, <1>8, <1>9 DEF TInv

\* The new thread is given main's element of this turn.
LEMMA SysCreateT ==
    ASSUME TInv, loop = "create", NEW c \in Tids, SysCreate(Main, c),
           arg' = [arg EXCEPT ![c] = i - 1],
           UNCHANGED <<prog, nthreads, loop, i, utids, did, results>>
    PROVE  TInv'
<1>1. /\ where[Main] = "create" /\ life[c] = "unborn"
      /\ life' = [life EXCEPT ![c] = "ready"]
      /\ res' = [res EXCEPT ![Main] = c]
      /\ where' = [where EXCEPT ![Main] = "created"]
      /\ UNCHANGED <<inuse, ktid, idx>>
  BY DEF SysCreate, At, Goes, Krn!Spawn, Krn!IsNext
<1>2. Main \in Tids /\ c # Main /\ arg[c] = 0
  BY <1>1, Ranges DEF TInv, Argued
<1>3. i >= 2 /\ i - 1 \in N /\ i - 1 \in 1 .. MaxThreads /\ i \in Int
  <2>1. i >= 2 /\ i \in 1 .. nthreads + 1 /\ nthreads \in 1 .. MaxThreads
    BY <1>1 DEF TInv, Shape, N
  <2> QED BY <2>1, MaxThreadsAssumption DEF N
<1>4. where'[Main] = "created" /\ (\A t \in Tids \ {Main} : where'[t] = where[t])
      /\ where' \in [Tids -> Places] /\ res'[Main] = c /\ res' \in [Tids -> 0 .. MaxTid]
  BY <1>1, Ranges DEF TInv, Shape, Places
<1>5. arg' \in [Tids -> 0 .. MaxThreads] /\ arg'[c] = i - 1
      /\ \A t \in Tids \ {c} : arg'[t] = arg[t]
  BY <1>3 DEF TInv, Shape
<1>6. life' \in [Tids -> {"unborn", "ready", "running", "exited", "gone"}]
      /\ life'[c] = "ready" /\ \A t \in Tids \ {c} : life'[t] = life[t]
  BY <1>1 DEF TInv, Shape
<1>7. Shape'
  BY <1>1, <1>4, <1>5, <1>6 DEF TInv, Shape
<1>8. \A t \in Tids : arg[t] < i - 1 /\ arg[t] \in Int
  BY <1>1 DEF TInv, Argued, Shape
<1>9. Argued'
  <2>1. arg'[Main] = 0 /\ life'[Main] # "unborn"
    BY <1>2, <1>5, <1>6 DEF TInv, Argued
  <2>2. \A t \in Tids \ {Main} : life'[t] = "unborn" <=> arg'[t] = 0
    BY <1>3, <1>5, <1>6 DEF TInv, Argued
  <2>3. \A t, u \in Tids : arg'[t] = arg'[u] /\ arg'[t] # 0 => t = u
    BY <1>5, <1>8 DEF TInv, Argued
  <2>4. \A t \in Tids : arg'[t] < i
    BY <1>3, <1>5, <1>8
  <2> QED BY <1>4, <1>5, <2>1, <2>2, <2>3, <2>4 DEF Argued
<1>10. Linked'
  <2>1. \A t \in Tids \ {c} : arg[t] # 0 => utids[arg[t]] \in Slots /\ ktid[utids[arg[t]]] = t
    BY <1>1 DEF TInv, Linked
  <2> QED BY <1>1, <1>4, <1>5, <2>1 DEF TInv, Linked
<1>11. Joined'
  BY DEF Joined
<1>12. Doubled'
  <2>1. c \notin did
    BY <1>2 DEF TInv, Doubled
  <2>2. did \subseteq Tids \ {c}
    BY <2>1 DEF TInv, Doubled
  <2>3. \A t \in did : arg'[t] = arg[t]
    BY <1>5, <2>2
  <2>4. \A k \in N : results[k] = IF \E t \in did : arg'[t] = k THEN 2 * k ELSE k
    BY <2>3 DEF TInv, Doubled
  <2> QED BY <1>6, <2>3, <2>4 DEF TInv, Doubled
<1> QED BY <1>7, <1>9, <1>10, <1>11, <1>12 DEF TInv

\* thrd_create returns: the handle of the element is the entry of its thread.
LEMMA StoreHandleT ==
    ASSUME TInv, loop = "create", StoreHandle(Main), utids' = [utids EXCEPT ![i - 1] = idx[Main]],
           UNCHANGED <<prog, nthreads, loop, i, arg, did, results>>
    PROVE  TInv'
<1>1. /\ where[Main] = "created"
      /\ ktid' = [ktid EXCEPT ![idx[Main]] = res[Main]]
      /\ where' = [where EXCEPT ![Main] = "user"]
      /\ UNCHANGED <<life, inuse, idx, res>>
  BY DEF StoreHandle, At, Goes, kernel
<1>2. idx[Main] \in Slots /\ i >= 2 /\ res[Main] \in Tids /\ arg[res[Main]] = i - 1
  BY <1>1 DEF TInv, Shape, Argued
<1>3. i - 1 \in N /\ i - 1 # 0
  <2>1. i >= 2 /\ i \in 1 .. nthreads + 1 /\ nthreads \in 1 .. MaxThreads
    BY <1>2 DEF TInv, Shape, N
  <2> QED BY <2>1, MaxThreadsAssumption DEF N
<1>4. where'[Main] = "user" /\ (\A t \in Tids \ {Main} : where'[t] = where[t])
      /\ where' \in [Tids -> Places]
  BY <1>1, Ranges DEF TInv, Shape, Places
<1>5. ktid' \in [Slots -> 0 .. MaxTid] /\ ktid'[idx[Main]] = res[Main]
      /\ \A r \in Slots \ {idx[Main]} : ktid'[r] = ktid[r]
  BY <1>1, <1>2, Ranges DEF TInv, Shape
<1>6. utids' \in [N -> 0 .. THRD_MAX] /\ utids'[i - 1] = idx[Main]
      /\ \A k \in N \ {i - 1} : utids'[k] = utids[k]
  BY <1>2, <1>3, Ranges DEF TInv, Shape
<1>7. Shape'
  BY <1>1, <1>4, <1>5, <1>6 DEF TInv, Shape
<1>8. Argued'
  BY <1>1, <1>4 DEF TInv, Argued
<1>9. Linked'
  <2>1. ASSUME NEW t \in Tids, arg[t] # 0
        PROVE  utids'[arg[t]] \in Slots /\ ktid'[utids'[arg[t]]] = t
    <3>1. CASE t = res[Main]
      BY <1>2, <1>5, <1>6, <3>1
    <3>2. CASE t # res[Main]
      <4>1. arg[t] \in N /\ arg[t] # i - 1
        <5>1. arg[t] \in 0 .. MaxThreads /\ arg[t] # 0
          BY <2>1 DEF TInv, Shape
        <5>2. arg[t] # arg[res[Main]]
          BY <1>2, <2>1, <3>2 DEF TInv, Argued
        <5> QED BY <1>2, <5>1, <5>2, MaxThreadsAssumption DEF N
      <4>2. utids[arg[t]] \in Slots /\ ktid[utids[arg[t]]] = t
        BY <2>1, <3>2 DEF TInv, Linked
      <4>3. utids[arg[t]] # 0
        BY <4>2, Ranges
      <4>4. utids[arg[t]] # idx[Main]
        BY <1>1, <4>1, <4>3 DEF TInv, Linked
      <4> QED BY <1>5, <1>6, <4>1, <4>2, <4>4
    <3> QED BY <3>1, <3>2
  <2>2. ASSUME NEW k \in N, utids'[k] # 0
        PROVE  inuse[utids'[k]]
    BY <1>1, <1>6, <2>2 DEF TInv, Linked
  <2> QED BY <1>1, <1>4, <2>1, <2>2 DEF Linked
<1>10. Joined' /\ Doubled'
  BY <1>1 DEF TInv, Joined, Doubled
<1> QED BY <1>7, <1>8, <1>9, <1>10 DEF TInv

\* thrd_free, after a thrd_create that failed or a thrd_join.
LEMMA FreeT ==
    ASSUME TInv, Free(Main), UNCHANGED pvars
    PROVE  TInv'
<1>1. /\ where[Main] = "free"
      /\ inuse' = [inuse EXCEPT ![idx[Main]] = FALSE]
      /\ where' = [where EXCEPT ![Main] = "user"]
      /\ UNCHANGED <<life, idx, ktid, res, utids, arg, did, results, loop, nthreads, i>>
  BY DEF Free, At, Goes, kernel, pvars
<1>2. idx[Main] \in Slots /\ i >= 2
  BY <1>1 DEF TInv, Shape
<1>3. where'[Main] = "user" /\ (\A t \in Tids \ {Main} : where'[t] = where[t])
      /\ where' \in [Tids -> Places]
  BY <1>1, Ranges DEF TInv, Shape, Places
<1>4. inuse' \in [Slots -> BOOLEAN] /\ \A r \in Slots \ {idx[Main]} : inuse'[r] = inuse[r]
  BY <1>1, <1>2 DEF TInv, Shape
<1>5. Shape'
  BY <1>1, <1>2, <1>3, <1>4 DEF TInv, Shape
<1>6. Argued'
  BY <1>1, <1>3 DEF TInv, Argued
<1>7. \A k \in N : utids[k] # 0 => utids[k] \in Slots
  BY DEF TInv, Shape, Slots
<1>8. Linked'
  BY <1>1, <1>3, <1>4, <1>7 DEF TInv, Linked
<1>9. Joined' /\ Doubled'
  BY <1>1, <1>3 DEF TInv, Joined, Doubled
<1> QED BY <1>5, <1>6, <1>8, <1>9 DEF TInv

LEMMA MainTurnsT == ASSUME TInv, MainTurns PROVE TInv'
<1>1. /\ where[Main] = "user" /\ loop = "create" /\ loop' = "join" /\ i' = 1
      /\ UNCHANGED <<life, where, idx, inuse, ktid, res, utids, arg, did, results, nthreads>>
  BY DEF MainTurns, At, uvars
<1>2. Shape'
  <2>1. nthreads \in 1 .. MaxThreads
    BY DEF TInv, Shape, N
  <2>2. i' \in 1 .. nthreads + 1
    BY <1>1, <2>1, MaxThreadsAssumption
  <2> QED BY <1>1, <2>2 DEF TInv, Shape
<1>3. Argued' /\ Linked'
  BY <1>1 DEF TInv, Argued, Linked
<1>4. Joined'
  <2>1. \A t \in Tids : arg[t] \in 0 .. MaxThreads
    BY DEF TInv, Shape
  <2>2. ASSUME NEW t \in Tids, arg[t] # 0
        PROVE  ~(arg[t] < 1) /\ ~(arg[t] < 1 - 1) /\ arg[t] # 1 - 1
    BY <2>1, <2>2, MaxThreadsAssumption
  <2> QED BY <1>1, <2>2 DEF Joined
<1>5. Doubled'
  BY <1>1 DEF TInv, Doubled
<1> QED BY <1>2, <1>3, <1>4, <1>5 DEF TInv

\* Main moves while it joins: threads, handles and entries stay.  The two last
\* assumptions are what Joined asks of the new place.
LEMMA JoinMoves ==
    ASSUME TInv, loop = "join", loop' = loop, nthreads' = nthreads,
           i' \in 1 .. nthreads + 1,
           UNCHANGED <<life, inuse, ktid, res, utids, arg, did, results>>,
           where'[Main] \in {"user", "join", "joining", "free", "hung"},
           \A t \in Tids \ {Main} : where'[t] = where[t],
           where' \in [Tids -> Places], idx' \in [Tids -> 0 .. THRD_MAX],
           where'[Main] # "user" => idx'[Main] \in Slots /\ i' >= 2,
           \A t \in Tids : arg[t] # 0 =>
             /\ arg[t] < i' - 1 => life[t] = "gone"
             /\ arg[t] < i' /\ where'[Main] \in {"user", "free"} => life[t] = "gone"
             /\ arg[t] = i' - 1 /\ where'[Main] \in {"join", "joining"} =>
                  idx'[Main] = utids[arg[t]]
    PROVE  TInv'
<1>1. Shape'
  BY DEF TInv, Shape
<1>2. Argued' /\ Linked'
  BY DEF TInv, Argued, Linked
<1>3. Joined'
  BY DEF Joined
<1>4. Doubled'
  BY DEF TInv, Doubled
<1> QED BY <1>1, <1>2, <1>3, <1>4 DEF TInv

\* In the second loop every thread has its handle.
LEMMA HandleOf ==
    ASSUME TInv, loop = "join", NEW t \in Tids, arg[t] # 0
    PROVE  arg[t] \in N /\ utids[arg[t]] \in Slots /\ utids[arg[t]] # 0
           /\ ktid[utids[arg[t]]] = t
<1>1. arg[t] \in N
  BY MaxThreadsAssumption DEF TInv, Shape, N
<1>2. utids[arg[t]] \in Slots /\ ktid[utids[arg[t]]] = t
  BY DEF TInv, Linked
<1> QED BY <1>1, <1>2, Ranges

LEMMA MainJoinsT == ASSUME TInv, MainJoins PROVE TInv'
<1>1. /\ loop = "join" /\ i <= nthreads /\ where[Main] = "user" /\ i' = i + 1
      /\ UNCHANGED <<nthreads, loop, utids, arg, did, results>>
  BY DEF MainJoins, At
<1>2. i \in 1 .. nthreads + 1 /\ nthreads \in 1 .. MaxThreads /\ i \in Int
  BY DEF TInv, Shape, N
<1>3. i' \in 1 .. nthreads + 1 /\ i' >= 2 /\ i \in N /\ i' - 1 = i
  BY <1>1, <1>2, MaxThreadsAssumption DEF N
<1>4. \A t \in Tids : arg[t] \in Int
  BY DEF TInv, Shape
<1>5. \A t \in Tids : arg[t] # 0 /\ arg[t] < i => life[t] = "gone"
  BY <1>1 DEF TInv, Joined
<1>6. ASSUME NEW h \in Slots, At(Main, "user"), Goes(Main, "join"),
             idx' = [idx EXCEPT ![Main] = h], utids[i] \in {0, h},
             UNCHANGED <<life, inuse, ktid, res>>
      PROVE  TInv'
  <2>1. where'[Main] = "join" /\ (\A t \in Tids \ {Main} : where'[t] = where[t])
        /\ where' \in [Tids -> Places]
    BY <1>6, Ranges DEF TInv, Shape, Places, Goes
  <2>2. idx' \in [Tids -> 0 .. THRD_MAX] /\ idx'[Main] = h
    BY <1>6, Ranges DEF TInv, Shape
  <2>3. ASSUME NEW t \in Tids, arg[t] # 0, arg[t] = i
        PROVE  utids[arg[t]] = h
    BY <1>1, <1>6, <2>3, HandleOf
  <2> QED BY <1>1, <1>3, <1>4, <1>5, <1>6, <2>1, <2>2, <2>3, JoinMoves
<1>7. CASE utids[i] # 0 /\ CallJoin(Main, utids[i])
  <2>1. utids[i] \in Slots
    BY <1>3, <1>7 DEF TInv, Shape, Slots
  <2> QED BY <1>6, <1>7, <2>1 DEF CallJoin, kernel
<1>8. CASE utids[i] = 0 /\ \E h \in Slots : CallJoinStray(Main, h)
  BY <1>6, <1>8 DEF CallJoinStray, kernel
<1>9. CASE utids[i] = 0 /\ UNCHANGED uvars
  <2>1. \A t \in Tids : arg[t] # 0 => arg[t] # i
    BY <1>1, <1>9, HandleOf
  <2>2. \A t \in Tids : arg[t] # 0 /\ arg[t] < i' => life[t] = "gone"
    BY <1>1, <1>2, <1>4, <1>5, <2>1
  <2>3. UNCHANGED <<life, inuse, ktid, res, where, idx>>
    BY <1>9 DEF uvars
  <2>4. where' \in [Tids -> Places] /\ idx' \in [Tids -> 0 .. THRD_MAX]
    BY <2>3 DEF TInv, Shape
  <2>5. where'[Main] = "user"
    BY <1>1, <2>3
  <2> QED BY <1>1, <1>3, <1>5, <2>2, <2>3, <2>4, <2>5, JoinMoves
<1> QED BY <1>7, <1>8, <1>9 DEF MainJoins

LEMMA JoinCallT ==
    ASSUME TInv, UNCHANGED pvars,
           SysJoin(Main) \/ SysJoinMissing(Main) \/ SysJoinHangs(Main)
    PROVE  TInv'
<1>1. where[Main] = "join" /\ UNCHANGED <<life, inuse, ktid, res, idx>>
  BY DEF SysJoin, SysJoinMissing, SysJoinHangs, At, kernel, Krn!Join
<1>2. UNCHANGED <<loop, nthreads, i, utids, arg, did, results>>
  BY DEF pvars
<1>3. loop = "join" /\ idx[Main] \in Slots /\ i >= 2 /\ i \in 1 .. nthreads + 1
      /\ where[Main] \in Places /\ idx \in [Tids -> 0 .. THRD_MAX]
  BY <1>1, Ranges DEF TInv, Shape
<1>4. \A t \in Tids : arg[t] # 0 =>
        /\ arg[t] < i - 1 => life[t] = "gone"
        /\ arg[t] = i - 1 => idx[Main] = utids[arg[t]]
  BY <1>1, <1>3 DEF TInv, Joined
<1>5. ASSUME NEW place \in {"joining", "hung", "user"}, Goes(Main, place)
      PROVE  where'[Main] = place /\ (\A t \in Tids \ {Main} : where'[t] = where[t])
             /\ where' \in [Tids -> Places]
  BY <1>5, Ranges DEF TInv, Shape, Places, Goes
<1>6. CASE SysJoin(Main)
  <2>1. Goes(Main, "joining")
    BY <1>6 DEF SysJoin
  <2> QED BY <1>1, <1>2, <1>3, <1>4, <1>5, <2>1, JoinMoves
<1>7. CASE SysJoinHangs(Main)
  <2>1. Goes(Main, "hung")
    BY <1>7 DEF SysJoinHangs
  <2> QED BY <1>1, <1>2, <1>3, <1>4, <1>5, <2>1, JoinMoves
<1>8. CASE SysJoinMissing(Main)
  <2>1. Goes(Main, "user") /\ (ktid[idx[Main]] # 0 => life[ktid[idx[Main]]] = "gone")
    BY <1>8 DEF SysJoinMissing
  <2>2. ASSUME NEW t \in Tids, arg[t] # 0, arg[t] < i
        PROVE  life[t] = "gone"
    <3>1. arg[t] < i - 1 \/ arg[t] = i - 1
      BY <1>3, <2>2 DEF TInv, Shape, N
    <3>2. CASE arg[t] = i - 1
      BY <1>3, <1>4, <2>1, <2>2, <3>2, HandleOf, Ranges
    <3> QED BY <1>4, <2>2, <3>1, <3>2
  <2> QED BY <1>1, <1>2, <1>3, <1>4, <1>5, <2>1, <2>2, JoinMoves
<1> QED BY <1>6, <1>7, <1>8

\* The join retires the thread of the handle.
LEMMA SysJoinedT == ASSUME TInv, SysJoined(Main), UNCHANGED pvars PROVE TInv'
<1>1. PICK c : c = ktid[idx[Main]]
  OBVIOUS
<1>2. /\ where[Main] = "joining" /\ life[Main] = "running" /\ life[c] = "exited"
      /\ life' = [life EXCEPT ![c] = "gone"] /\ UNCHANGED <<inuse, ktid, res, idx>>
  BY <1>1 DEF SysJoined, Krn!Retire
<1>3. UNCHANGED <<loop, nthreads, i, utids, arg, did, results>>
  BY DEF pvars
<1>4. PICK place \in {"user", "free"} : Goes(Main, place)
  BY DEF SysJoined
<1>5. where'[Main] = place /\ (\A t \in Tids \ {Main} : where'[t] = where[t])
      /\ where' \in [Tids -> Places]
  BY <1>4, Ranges DEF TInv, Shape, Places, Goes
<1>6. life' \in [Tids -> {"unborn", "ready", "running", "exited", "gone"}]
      /\ \A t \in Tids : life'[t] = IF t = c THEN "gone" ELSE life[t]
  BY <1>2 DEF TInv, Shape
<1>7. loop = "join" /\ idx[Main] \in Slots /\ i >= 2 /\ i \in Int
  BY <1>2 DEF TInv, Shape
<1>8. Shape'
  BY <1>2, <1>3, <1>5, <1>6, <1>7 DEF TInv, Shape
<1>9. \A t \in Tids : life'[t] = "unborn" <=> life[t] = "unborn"
  BY <1>2, <1>6
<1>10. Argued'
  BY <1>3, <1>7, <1>9, Ranges DEF TInv, Argued
<1>11. Linked'
  BY <1>2, <1>3, <1>7 DEF TInv, Linked
<1>12. Joined'
  <2>1. ASSUME NEW t \in Tids, arg[t] # 0, arg[t] < i
        PROVE  life'[t] = "gone"
    <3>1. arg[t] < i - 1 \/ arg[t] = i - 1
      BY <1>7, <2>1 DEF TInv, Shape
    <3>2. CASE arg[t] < i - 1
      BY <1>6, <1>7, <2>1, <3>2 DEF TInv, Joined
    <3>3. CASE arg[t] = i - 1
      <4>1. idx[Main] = utids[arg[t]]
        BY <1>2, <1>7, <2>1, <3>3 DEF TInv, Joined
      <4>2. t = c
        BY <1>1, <1>7, <2>1, <4>1, HandleOf
      <4> QED BY <1>6, <4>2
    <3> QED BY <3>1, <3>2, <3>3
  <2>2. \A t \in Tids : arg[t] \in Int /\ (arg[t] < i - 1 => arg[t] < i)
    BY <1>7 DEF TInv, Shape
  <2> QED BY <1>3, <1>5, <2>1, <2>2 DEF Joined
<1>13. Doubled'
  <2>1. ASSUME NEW t \in Tids \ {Main}, life'[t] \in {"exited", "gone"}
        PROVE  t \in did
    BY <1>2, <1>6, <2>1 DEF TInv, Doubled
  <2> QED BY <1>3, <2>1 DEF TInv, Doubled
<1> QED BY <1>8, <1>10, <1>11, <1>12, <1>13 DEF TInv

\* Threads run, wait or end, but none that has not doubled its element.
LEMMA LivesT ==
    ASSUME TInv, UNCHANGED <<inuse, ktid, where, idx, res>>, UNCHANGED pvars,
           life' \in [Tids -> {"unborn", "ready", "running", "exited", "gone"}],
           \A t \in Tids : /\ life'[t] = "unborn" <=> life[t] = "unborn"
                           /\ life[t] = "gone" => life'[t] = "gone",
           \A t \in Tids \ {Main} : life'[t] \in {"exited", "gone"} => t \in did
    PROVE  TInv'
<1>1. UNCHANGED <<loop, nthreads, i, utids, arg, did, results>>
  BY DEF pvars
<1>2. Shape'
  BY <1>1 DEF TInv, Shape
<1>3. Argued'
  BY <1>1, Ranges DEF TInv, Argued
<1>4. Linked'
  BY <1>1 DEF TInv, Linked
<1>5. Joined'
  BY <1>1 DEF TInv, Joined
<1>6. Doubled'
  BY <1>1 DEF TInv, Doubled
<1> QED BY <1>2, <1>3, <1>4, <1>5, <1>6 DEF TInv

LEMMA SchedulerT == ASSUME TInv, Scheduler, UNCHANGED pvars PROVE TInv'
<1>1. PICK r, n \in Tids : Switch(r, n)
  BY DEF Scheduler
<1>2. /\ life[r] = "running" /\ life[n] = "ready"
      /\ life' = [life EXCEPT ![r] = "ready", ![n] = "running"]
      /\ UNCHANGED <<inuse, ktid, where, idx, res>>
  BY <1>1 DEF Switch, Krn!Switch
<1>3. life' \in [Tids -> {"unborn", "ready", "running", "exited", "gone"}]
  BY <1>2 DEF TInv, Shape
<1>4. \A t \in Tids : \/ life'[t] = life[t]
                      \/ life[t] \in {"ready", "running"} /\ life'[t] \in {"ready", "running"}
  BY <1>2 DEF TInv, Shape
<1> QED BY <1>2, <1>3, <1>4, LivesT DEF TInv, Doubled

LEMMA MainEndsT == ASSUME TInv, MainEnds PROVE TInv'
<1>1. /\ life[Main] = "running" /\ life' = [life EXCEPT ![Main] = "exited"]
      /\ UNCHANGED <<inuse, ktid, where, idx, res>> /\ UNCHANGED pvars
  BY DEF MainEnds, MainReturns, Krn!Quit, Krn!Acts
<1>2. life' \in [Tids -> {"unborn", "ready", "running", "exited", "gone"}]
      /\ life'[Main] = "exited" /\ \A t \in Tids \ {Main} : life'[t] = life[t]
  BY <1>1, Ranges DEF TInv, Shape
<1> QED BY <1>1, <1>2, LivesT DEF TInv, Doubled

LEMMA ThreadMainT ==
    ASSUME TInv, NEW t \in Tids \ {Main}, thread_main(t)
    PROVE  TInv'
<1>1. CASE t \in did /\ (\E u \in Tids : ThreadReturns(t, u)) /\ UNCHANGED pvars
  <2>1. PICK u \in Tids : ThreadReturns(t, u)
    BY <1>1
  <2>2. /\ life[t] = "running" /\ life[u] = "ready"
        /\ life' = [life EXCEPT ![t] = "exited", ![u] = "running"]
        /\ UNCHANGED <<inuse, ktid, where, idx, res>>
    BY <2>1 DEF ThreadReturns, Krn!End, Krn!Acts
  <2>3. life' \in [Tids -> {"unborn", "ready", "running", "exited", "gone"}]
    BY <2>2 DEF TInv, Shape
  <2>4. \A v \in Tids : \/ life'[v] = life[v]
                        \/ v = t /\ life[v] = "running" /\ life'[v] = "exited"
                        \/ life[v] = "ready" /\ life'[v] = "running"
    BY <2>2 DEF TInv, Shape
  <2> QED BY <1>1, <2>2, <2>3, <2>4, LivesT DEF TInv, Doubled
<1>2. CASE /\ Krn!Acts(t) /\ t \notin did
           /\ results' = [results EXCEPT ![arg[t]] = 2 * @]
           /\ did' = did \cup {t}
           /\ UNCHANGED <<uvars, prog, nthreads, loop, i, utids, arg>>
  <2>1. UNCHANGED <<life, inuse, ktid, where, idx, res, nthreads, loop, i, utids, arg>>
    BY <1>2 DEF uvars
  <2>2. PICK e : e = arg[t]
    OBVIOUS
  <2>3. e # 0
    BY <1>2, <2>2 DEF TInv, Argued, Krn!Acts
  <2>4. e \in N /\ e \in Int
    BY <2>2, <2>3, MaxThreadsAssumption DEF TInv, Shape, N
  <2>5. \A u \in did : arg[u] # e
    BY <1>2, <2>2, <2>3 DEF TInv, Argued, Doubled
  <2>6. results[e] = e
    BY <2>4, <2>5 DEF TInv, Doubled
  <2>7. results' \in [N -> Int] /\ results'[e] = 2 * e
        /\ \A k \in N \ {e} : results'[k] = results[k]
    BY <1>2, <2>2, <2>4, <2>6 DEF TInv, Shape
  <2>8. Shape'
    BY <2>1, <2>7 DEF TInv, Shape
  <2>9. Argued' /\ Linked' /\ Joined'
    BY <2>1 DEF TInv, Argued, Linked, Joined
  <2>10. \A k \in N : results'[k] = IF \E u \in did' : arg[u] = k THEN 2 * k ELSE k
    <3> SUFFICES ASSUME NEW k \in N
                 PROVE  results'[k] = IF \E u \in did' : arg[u] = k THEN 2 * k ELSE k
      OBVIOUS
    <3>1. CASE k = e
      BY <1>2, <2>2, <2>7, <3>1
    <3>2. CASE k # e
      <4>1. (\E u \in did' : arg[u] = k) <=> (\E u \in did : arg[u] = k)
        BY <1>2, <2>2, <3>2
      <4> QED BY <2>7, <3>2, <4>1 DEF TInv, Doubled
    <3> QED BY <3>1, <3>2
  <2>11. Doubled'
    BY <1>2, <2>1, <2>2, <2>3, <2>10 DEF TInv, Doubled
  <2> QED BY <2>8, <2>9, <2>11 DEF TInv
<1> QED BY <1>1, <1>2 DEF thread_main

-----------------------------------------------------------------------------
\* The program that chooses to be process/threads.c keeps TInv.
ProgramInv == prog = "threads" => TInv

LEMMA ThreadsMainT == ASSUME TInv, ThreadsMain PROVE TInv'
<1>1. loop \in {"create", "join"} /\ where[Main] \in
        IF loop = "create" THEN {"user", "alloc", "create", "created", "free"}
        ELSE {"user", "join", "joining", "free", "hung"}
  BY DEF TInv, Shape
<1>2. CASE MainInLibrary
  <2>1. CASE \E c \in Tids : /\ SysCreate(Main, c) /\ arg' = [arg EXCEPT ![c] = i - 1]
                             /\ UNCHANGED <<prog, nthreads, loop, i, utids, did, results>>
    <3>1. loop = "create"
      BY <1>1, <2>1 DEF SysCreate, At
    <3> QED BY <2>1, <3>1, SysCreateT
  <2>2. CASE /\ StoreHandle(Main) /\ utids' = [utids EXCEPT ![i - 1] = idx[Main]]
             /\ UNCHANGED <<prog, nthreads, loop, i, arg, did, results>>
    <3>1. loop = "create"
      BY <1>1, <2>2 DEF StoreHandle, At
    <3> QED BY <2>2, <3>1, StoreHandleT
  <2>3. CASE UNCHANGED pvars /\ (AllocTake(Main) \/ AllocSkip(Main) \/ AllocFull(Main)
                                 \/ SysCreateFails(Main))
    <3>1. loop = "create"
      BY <1>1, <2>3 DEF AllocTake, AllocSkip, AllocFull, SysCreateFails, At
    <3> QED BY <2>3, <3>1, AllocTakeT, CreateMoves
  <2>4. CASE UNCHANGED pvars /\ (Free(Main) \/ SysJoin(Main) \/ SysJoinMissing(Main)
                                 \/ SysJoinHangs(Main) \/ SysJoined(Main))
    BY <2>4, FreeT, JoinCallT, SysJoinedT
  <2> QED BY <1>2, <2>1, <2>2, <2>3, <2>4 DEF MainInLibrary
<1>3. CASE MainCreates
  BY <1>3, CreateMoves DEF MainCreates
<1> QED BY <1>2, <1>3, MainTurnsT, MainJoinsT, MainEndsT, ThreadMainT DEF ThreadsMain

\* When the threads program prints its array, each element whose thread could be
\* made is doubled, exactly once, and the others are untouched - for every size of
\* uthrds[], every option -n and every schedule, also when thrd_create failed and
\* main joins handles that were never filled in (process/threads.c 61-78).
THEOREM ProgramDoublesResults == TSpec => []ResultsDoubled
<1>1. TInit => ProgramInv
  BY InitTInv DEF ProgramInv
<1>2. ProgramInv /\ [TNext]_vars => ProgramInv'
  <2> SUFFICES ASSUME ProgramInv, [TNext]_vars, prog' = "threads" PROVE TInv'
    BY DEF ProgramInv
  <2>1. CASE UNCHANGED vars
    <3>1. TInv /\ UNCHANGED uvars /\ UNCHANGED pvars
      BY <2>1 DEF vars, ProgramInv, pvars
    <3>2. UNCHANGED <<life, inuse, ktid, where, idx, res>>
      BY <3>1 DEF uvars
    <3>3. life' \in [Tids -> {"unborn", "ready", "running", "exited", "gone"}]
      BY <3>1, <3>2 DEF TInv, Shape
    <3> QED BY <3>1, <3>2, <3>3, LivesT DEF TInv, Doubled
  <2>2. CASE prog = "threads" /\ ThreadsMain
    BY <2>2, ThreadsMainT DEF ProgramInv
  <2>3. CASE Scheduler /\ UNCHANGED pvars
    BY <2>3, SchedulerT DEF ProgramInv, pvars
  <2>4. CASE prog = "any" /\ UNCHANGED pvars
    BY <2>4 DEF pvars
  <2> QED BY <2>1, <2>2, <2>3, <2>4 DEF TNext
<1>3. ProgramInv => ResultsDoubled
  <2> SUFFICES ASSUME TInv, Done, NEW k \in 1 .. nthreads
               PROVE  results[k] = IF \E t \in Tids : arg[t] = k THEN 2 * k ELSE k
    BY DEF ProgramInv, ResultsDoubled
  <2>1. k \in N /\ k # 0 /\ k < i /\ loop = "join" /\ where[Main] = "user"
    <3>1. nthreads \in 1 .. MaxThreads /\ i \in Int /\ i > nthreads
      BY DEF TInv, Shape, N, Done
    <3> QED BY <3>1, MaxThreadsAssumption DEF N, Done
  <2>2. ASSUME NEW t \in Tids, arg[t] = k PROVE t \in did
    <3>1. life[t] = "gone" /\ t # Main
      BY <2>1, <2>2 DEF TInv, Joined, Argued
    <3> QED BY <3>1 DEF TInv, Doubled
  <2>3. (\E t \in Tids : arg[t] = k) <=> (\E t \in did : arg[t] = k)
    BY <2>2 DEF TInv, Doubled
  <2> QED BY <2>1, <2>3 DEF TInv, Doubled
<1> QED BY <1>1, <1>2, <1>3, PTL DEF TSpec
=============================================================================
