--------------------------- MODULE DataRaceProofs ---------------------------
(***************************************************************************)
(* TLAPS proofs about DataRace, for every number of threads and rounds and *)
(* every width of the counters: what main prints.                          *)
(***************************************************************************)
EXTENDS DataRace, TLAPS

-----------------------------------------------------------------------------
(* Sums over the threads.  There are at most 8, so no recursion is needed. *)

Term(f, t) == IF t \in Threads THEN f[t] ELSE 0
Total(f) == Term(f, 1) + Term(f, 2) + Term(f, 3) + Term(f, 4)
            + Term(f, 5) + Term(f, 6) + Term(f, 7) + Term(f, 8)

LEMMA ThreadRange ==
    /\ nthreads \in {1, 2, 3, 4, 5, 6, 7, 8}
    /\ Threads \subseteq {1, 2, 3, 4, 5, 6, 7, 8}
    /\ Threads \subseteq Nat /\ 1 \in Threads /\ nthreads \in Threads
BY RaceAssumption DEF Threads

LEMMA TotalNat ==
    ASSUME NEW f \in [Threads -> Nat]
    PROVE  Total(f) \in Nat
<1>1. \A t \in 1 .. 8 : Term(f, t) \in Nat
  BY DEF Term
<1> QED BY <1>1 DEF Total

\* One thread more, one more in the sum.
LEMMA TotalPlus ==
    ASSUME NEW f \in [Threads -> Nat], NEW t \in Threads
    PROVE  Total([f EXCEPT ![t] = @ + 1]) = Total(f) + 1
<1> DEFINE g == [f EXCEPT ![t] = @ + 1]
<1>1. \A u \in 1 .. 8 : /\ Term(f, u) \in Nat
                       /\ Term(g, u) = IF u = t THEN Term(f, u) + 1 ELSE Term(f, u)
  BY DEF Term
<1>2. t \in {1, 2, 3, 4, 5, 6, 7, 8}
  BY ThreadRange
<1> HIDE DEF g
<1>3. Total(g) = Total(f) + 1
  BY <1>1, <1>2 DEF Total
<1> QED BY <1>3 DEF g

\* What every thread stays below, the sum stays below nthreads times.
LEMMA TotalBound ==
    ASSUME NEW k \in Nat, NEW f \in [Threads -> 0 .. k]
    PROVE  /\ Total(f) <= nthreads * k
           /\ (\A t \in Threads : f[t] = k) => Total(f) = nthreads * k
<1> DEFINE Cap(t) == IF t <= nthreads THEN k ELSE 0
<1>1. \A t \in 1 .. 8 : t <= nthreads <=> t \in Threads
  BY RaceAssumption DEF Threads
<1>2. \A t \in 1 .. 8 :
        /\ Term(f, t) \in Nat /\ Cap(t) \in Nat /\ Term(f, t) <= Cap(t)
        /\ (\A u \in Threads : f[u] = k) => Term(f, t) = Cap(t)
  <2> TAKE t \in 1 .. 8
  <2>1. CASE t \in Threads
    <3>1. f[t] \in Nat /\ f[t] <= k
      BY <2>1
    <3> QED BY <1>1, <2>1, <3>1 DEF Term
  <2>2. CASE t \notin Threads
    BY <1>1, <2>2 DEF Term
  <2> QED BY <2>1, <2>2
<1>3. Cap(1) + Cap(2) + Cap(3) + Cap(4) + Cap(5) + Cap(6) + Cap(7) + Cap(8)
        = nthreads * k
  <2>1. CASE nthreads \in {1, 2}
    BY <2>1
  <2>2. CASE nthreads \in {3, 4}
    BY <2>2
  <2>3. CASE nthreads \in {5, 6}
    BY <2>3
  <2>4. CASE nthreads \in {7, 8}
    BY <2>4
  <2> QED BY <2>1, <2>2, <2>3, <2>4, ThreadRange
<1> HIDE DEF Cap
<1>4. Total(f) <= nthreads * k
  BY <1>2, <1>3 DEF Total
<1>5. ASSUME \A t \in Threads : f[t] = k PROVE Total(f) = nthreads * k
  <2>1. \A t \in 1 .. 8 : Term(f, t) = Cap(t)
    BY <1>2, <1>5
  <2> QED BY <2>1, <1>3 DEF Total
<1> QED BY <1>4, <1>5

\* The remainder is the one number below r that differs by a multiple of r.
LEMMA Remainder ==
    ASSUME NEW r \in Nat \ {0}, NEW q \in Int, NEW d \in 0 .. r - 1
    PROVE  (r * q + d) % r = d
<1> DEFINE a == r * q + d
<1>1. PICK q2 \in Int, d2 \in 0 .. r - 1 : a = r * q2 + d2 /\ d2 = a % r
  <2>1. a \in Int
    OBVIOUS
  <2> HIDE DEF a
  <2>2. a % r \in 0 .. r - 1 /\ a \div r \in Int /\ a = r * (a \div r) + (a % r)
    BY <2>1
  <2> QED BY <2>2
<1>2. r * (q - q2) = d2 - d
  BY <1>1
<1>3. ~(q - q2 >= 1)
  <2> SUFFICES ASSUME q - q2 >= 1 PROVE FALSE
    OBVIOUS
  <2>1. r * (q - q2) >= r
    <3>1. \A m \in Nat \ {0} : r * m >= r
      OBVIOUS
    <3> QED BY <3>1
  <2> QED BY <2>1, <1>2
<1>4. ~(q2 - q >= 1)
  <2> SUFFICES ASSUME q2 - q >= 1 PROVE FALSE
    OBVIOUS
  <2>1. r * (q2 - q) >= r
    <3>1. \A m \in Nat \ {0} : r * m >= r
      OBVIOUS
    <3> QED BY <3>1
  <2>2. r * (q2 - q) = d - d2
    BY <1>2
  <2> QED BY <2>1, <2>2
<1>5. q = q2
  BY <1>3, <1>4
<1> QED BY <1>1, <1>5

\* Adding 1 to a counter that wraps.
LEMMA WrapPlus ==
    ASSUME NEW x \in Nat, NEW r \in Nat \ {0}
    PROVE  ((x % r) + 1) % r = (x + 1) % r
<1>1. PICK q \in Int, d \in 0 .. r - 1 : x = r * q + d
  <2>1. x % r \in 0 .. r - 1 /\ x \div r \in Int /\ x = r * (x \div r) + (x % r)
    OBVIOUS
  <2> QED BY <2>1
<1>2. x % r = d
  BY <1>1, Remainder
<1>3. CASE d + 1 < r
  <2>1. d + 1 \in 0 .. r - 1 /\ x + 1 = r * q + (d + 1)
    BY <1>1, <1>3
  <2>2. (x + 1) % r = d + 1
    BY <2>1, Remainder
  <2>3. d + 1 = r * 0 + (d + 1)
    OBVIOUS
  <2>4. (d + 1) % r = d + 1
    BY <2>1, <2>3, Remainder
  <2> QED BY <1>2, <2>2, <2>4
<1>4. CASE d + 1 = r
  <2> PICK p \in Int : p = q + 1
    OBVIOUS
  <2>1. 0 \in 0 .. r - 1 /\ x + 1 = r * p + 0 /\ d + 1 = r * 1 + 0
    BY <1>1, <1>4
  <2>2. \A m \in Int : (r * m + 0) % r = 0
    BY <2>1, Remainder
  <2>3. (x + 1) % r = 0
    BY <2>1, <2>2
  <2>4. (d + 1) % r = 0
    BY <2>1, <2>2
  <2> QED BY <1>2, <2>3, <2>4
<1> QED BY <1>3, <1>4

\* A number below the width is not changed by it.
LEMMA NoWrap ==
    ASSUME NEW x \in Nat, NEW r \in Nat, x < r
    PROVE  x % r = x
<1>1. x = r * 0 + x /\ x \in 0 .. r - 1 /\ r # 0
  OBVIOUS
<1> QED BY <1>1, Remainder

-----------------------------------------------------------------------------
(* The inductive invariant. *)

\* The places of a round behind the store to a counter.
Behind(c) ==
    CASE c = "shared_split" ->
            Places \ {"unborn", "round", "done", "split"}
      [] c = "shared_oneline" ->
            Places \ {"unborn", "round", "done", "split", "oneline", "oneline_st"}
      [] c = "shared_atomic" ->
            {"lock", "split_ld_mtx", "split_mtx", "oneline_mtx", "oneline_st_mtx",
             "unlock"}
      [] c = "shared_split_mtx" -> {"oneline_mtx", "oneline_st_mtx", "unlock"}
      [] c = "shared_oneline_mtx" -> {"unlock"}
\* How often each thread has added to a counter.
Added(c) == [t \in Threads |-> i[t] + (IF pc[t] \in Behind(c) THEN 1 ELSE 0)]

\* The place between the load and the store of a counter.
Mid(c) == CASE c = "shared_split" -> "split"
            [] c = "shared_oneline" -> "oneline_st"
            [] c = "shared_split_mtx" -> "split_mtx"
            [] c = "shared_oneline_mtx" -> "oneline_st_mtx"
Critical == {"split_ld_mtx", "split_mtx", "oneline_mtx", "oneline_st_mtx", "unlock"}

\* main starts each thread once and prints when all are done; a thread that is
\* done has made its rounds.
Progress ==
    /\ \A t \in Threads :
        /\ pc[t] = "done" => i[t] = count
        /\ pc[t] \notin {"unborn", "round", "done"} => i[t] < count
        /\ main.at = "create" /\ t >= main.i => pc[t] = "unborn"
        /\ main.at = "join" /\ t < main.i => pc[t] = "done"
        /\ main.at = "print" => pc[t] = "done"

\* Mutual exclusion, and what a thread has loaded under the mutex is fresh.
Exclusion ==
    \A t \in Threads : pc[t] \in Critical =>
        /\ mutex \in locked
        /\ \A u \in Threads : pc[u] \in Critical => u = t
        /\ \A c \in {"shared_split_mtx", "shared_oneline_mtx"} :
                pc[t] = Mid(c) => tmp[t] = shared[c]

\* The protected counters count every addition, modulo their width.
Exact == \A c \in Counters \ Racy : shared[c] = Total(Added(c)) % SHR_RANGE

\* A racing counter that cannot wrap.
RacyAt(c) ==
    /\ shared[c] <= Total(Added(c))
    /\ \A t \in Threads : /\ Added(c)[t] >= 1 => shared[c] >= 1
                          /\ nthreads = 1 => shared[c] = Added(c)[t]
    /\ (\A t \in Threads : Added(c)[t] >= 2) => shared[c] >= 2
    /\ \A t \in Threads : pc[t] = Mid(c) =>
            /\ tmp[t] <= Total(Added(c))
            /\ Added(c)[t] >= 1 => tmp[t] >= 1
            /\ nthreads = 1 => tmp[t] = Added(c)[t]
RacySound == Expected < SHR_RANGE => \A c \in Racy : RacyAt(c)

RInv == TypeOK /\ Progress /\ Exclusion /\ Exact /\ RacySound

-----------------------------------------------------------------------------
(* What a step does to the counters. *)

LEMMA BehindPlaces ==
    /\ "unborn" \notin Behind("shared_split") /\ "round" \notin Behind("shared_split")
    /\ \A c \in Counters : Behind(c) \subseteq Places \ {"unborn", "round", "done", "split"}
    /\ \A c \in Counters \ {"shared_atomic"} : Mid(c) \notin Behind(c) /\ Mid(c) \in Places
BY DEF Behind, Mid, Counters, Places

LEMMA AddedNat ==
    ASSUME TypeOK, NEW c \in Counters
    PROVE  Added(c) \in [Threads -> Nat]
<1>1. \A t \in Threads : i[t] \in Nat
  BY DEF TypeOK
<1> QED BY <1>1 DEF Added

\* A thread adds to a counter at most once in each of its rounds.
LEMMA AddedType ==
    ASSUME TypeOK, Progress, NEW c \in Counters
    PROVE  Added(c) \in [Threads -> 0 .. count]
<1> SUFFICES ASSUME NEW t \in Threads
             PROVE  i[t] + (IF pc[t] \in Behind(c) THEN 1 ELSE 0) \in 0 .. count
  BY DEF Added
<1>1. i[t] \in 0 .. count /\ count \in Nat
  BY DEF TypeOK
<1>2. CASE pc[t] \in Behind(c)
  <2>1. i[t] < count
    BY <1>2, BehindPlaces DEF Progress
  <2> QED BY <1>1, <1>2, <2>1
<1>3. CASE pc[t] \notin Behind(c)
  BY <1>1, <1>3
<1> QED BY <1>2, <1>3

LEMMA AddedBound ==
    ASSUME TypeOK, Progress, NEW c \in Counters
    PROVE  /\ Total(Added(c)) \in Nat /\ Expected \in Nat
           /\ Total(Added(c)) <= Expected
           /\ (\A t \in Threads : pc[t] = "done") => Total(Added(c)) = Expected
<1>1. count \in Nat /\ nthreads \in Nat /\ Expected = nthreads * count
  BY ThreadRange, RaceAssumption DEF TypeOK, Expected, step
<1>2. Added(c) \in [Threads -> 0 .. count]
  BY AddedType
<1>3. Total(Added(c)) \in Nat
  BY AddedNat, TotalNat
<1>4. ASSUME \A t \in Threads : pc[t] = "done"
      PROVE  \A t \in Threads : Added(c)[t] = count
  <2> TAKE t \in Threads
  <2>1. i[t] = count /\ pc[t] \notin Behind(c)
    BY <1>4, BehindPlaces DEF Progress
  <2> QED BY <1>1, <2>1 DEF Added
<1>5. nthreads * count \in Nat
  BY <1>1
<1> QED BY <1>1, <1>2, <1>3, <1>4, <1>5, TotalBound

\* A thread that goes from p to q, without ending its round, has added to c when
\* the store to c lies between.
LEMMA Moves ==
    ASSUME TypeOK, NEW c \in Counters, NEW t \in Threads, NEW p, NEW q,
           At(t, p, q), i' = i
    PROVE  /\ (p \in Behind(c) <=> q \in Behind(c)) => Added(c)' = Added(c)
           /\ p \notin Behind(c) /\ q \in Behind(c) =>
                Added(c)' = [Added(c) EXCEPT ![t] = @ + 1]
<1>1. /\ pc[t] = p /\ pc'[t] = q
      /\ \A u \in Threads : u # t => pc'[u] = pc[u]
      /\ \A u \in Threads : i'[u] = i[u] /\ i[u] \in Nat
  BY DEF At, TypeOK
<1> DEFINE New(u) == i'[u] + (IF pc'[u] \in Behind(c) THEN 1 ELSE 0)
           Old(u) == i[u] + (IF pc[u] \in Behind(c) THEN 1 ELSE 0)
<1>2. Added(c)' = [u \in Threads |-> New(u)] /\ Added(c) = [u \in Threads |-> Old(u)]
  BY DEF Added
<1>3. ASSUME p \in Behind(c) <=> q \in Behind(c)
      PROVE  Added(c)' = Added(c)
  <2>1. \A u \in Threads : New(u) = Old(u)
    BY <1>1, <1>3
  <2> QED BY <1>2, <2>1
<1>4. ASSUME p \notin Behind(c), q \in Behind(c)
      PROVE  Added(c)' = [Added(c) EXCEPT ![t] = @ + 1]
  <2>1. \A u \in Threads : New(u) = IF u = t THEN Old(u) + 1 ELSE Old(u)
    BY <1>1, <1>4
  <2> HIDE DEF New, Old
  <2> QED BY <1>2, <2>1
<1> QED BY <1>3, <1>4

\* The counter c and the additions to it stay as they are.
Kept(c) == shared'[c] = shared[c] /\ Added(c)' = Added(c)
\* t adds to c what it loaded, or, for the atomic counter, what it finds.
Source(c, t) == IF c = "shared_atomic" THEN shared[c] ELSE tmp[t]
StorePlace(c) == IF c = "shared_atomic" THEN "atomic" ELSE Mid(c)
AddedBy(c, t) ==
    /\ pc[t] = StorePlace(c)
    /\ shared'[c] = plus(Source(c, t))
    /\ Added(c)' = [Added(c) EXCEPT ![t] = @ + 1]

\* A store to d, seen from the counter c.
LEMMA StoreMoves ==
    ASSUME TypeOK, NEW c \in Counters, NEW d \in Counters, NEW t \in Threads, NEW q,
           At(t, StorePlace(d), q), i' = i,
           shared' = [shared EXCEPT ![d] = plus(Source(d, t))],
           StorePlace(d) \notin Behind(d), q \in Behind(d),
           c # d => (StorePlace(d) \in Behind(c) <=> q \in Behind(c))
    PROVE  Kept(c) \/ AddedBy(c, t)
<1>1. pc[t] = StorePlace(d)
  BY DEF At
<1>2. shared'[c] = IF c = d THEN plus(Source(d, t)) ELSE shared[c]
  BY DEF TypeOK
<1>3. CASE c = d
  BY <1>1, <1>2, <1>3, Moves DEF AddedBy
<1>4. CASE c # d
  BY <1>2, <1>4, Moves DEF Kept
<1> QED BY <1>3, <1>4

LEMMA CounterStep ==
    ASSUME TypeOK, Progress, Next, NEW c \in Counters
    PROVE  Kept(c) \/ \E t \in Threads : AddedBy(c, t)
<1>1. CASE MainCreate
  <2>1. /\ main.i \in Threads /\ pc[main.i] = "unborn"
        /\ At(main.i, "unborn", "round") /\ i' = i /\ shared' = shared
    BY <1>1, ThreadRange DEF MainCreate, At, TypeOK, Progress
  <2>2. "unborn" \notin Behind(c) /\ "round" \notin Behind(c)
    BY BehindPlaces
  <2> QED BY <2>1, <2>2, Moves DEF Kept
<1>2. CASE MainJoin
  BY <1>2 DEF MainJoin, Kept, Added
<1>3. ASSUME NEW t \in Threads, thread_main(t)
      PROVE  Kept(c) \/ AddedBy(c, t)
  <2>1. CASE Round(t)
    BY <2>1, Moves DEF Round, Kept, Behind, Counters, Places
  <2>2. CASE Return(t)
    BY <2>2, Moves DEF Return, Kept, Behind, Counters, Places
  <2>3. CASE Store(t, "shared_split", "split", "oneline")
    <3>1. /\ StorePlace("shared_split") = "split"
          /\ Source("shared_split", t) = tmp[t]
      BY DEF StorePlace, Source, Mid
    <3>2. /\ "split" \notin Behind("shared_split")
          /\ "oneline" \in Behind("shared_split")
          /\ c # "shared_split" =>
                ("split" \in Behind(c) <=> "oneline" \in Behind(c))
      BY DEF Behind, Counters, Places
    <3>3. "shared_split" \in Counters
      BY DEF Counters
    <3> QED BY <2>3, <3>1, <3>2, <3>3, StoreMoves DEF Store
  <2>4. CASE Load(t, "shared_oneline", "oneline", "oneline_st")
    BY <2>4, Moves DEF Load, Kept, Behind, Counters, Places
  <2>5. CASE Store(t, "shared_oneline", "oneline_st", "atomic")
    <3>1. /\ StorePlace("shared_oneline") = "oneline_st"
          /\ Source("shared_oneline", t) = tmp[t]
      BY DEF StorePlace, Source, Mid
    <3>2. /\ "oneline_st" \notin Behind("shared_oneline")
          /\ "atomic" \in Behind("shared_oneline")
          /\ c # "shared_oneline" =>
                ("oneline_st" \in Behind(c) <=> "atomic" \in Behind(c))
      BY DEF Behind, Counters, Places
    <3>3. "shared_oneline" \in Counters
      BY DEF Counters
    <3> QED BY <2>5, <3>1, <3>2, <3>3, StoreMoves DEF Store
  <2>6. CASE AddAtomic(t)
    <3>1. /\ StorePlace("shared_atomic") = "atomic"
          /\ Source("shared_atomic", t) = shared["shared_atomic"]
      BY DEF StorePlace, Source
    <3>2. /\ "atomic" \notin Behind("shared_atomic")
          /\ "lock" \in Behind("shared_atomic")
          /\ c # "shared_atomic" => ("atomic" \in Behind(c) <=> "lock" \in Behind(c))
      BY DEF Behind, Counters, Places
    <3>3. "shared_atomic" \in Counters
      BY DEF Counters
    <3>4. shared' = [shared EXCEPT !["shared_atomic"] = plus(shared["shared_atomic"])]
      BY <2>6, <3>3 DEF AddAtomic, TypeOK
    <3> QED BY <2>6, <3>1, <3>2, <3>3, <3>4, StoreMoves DEF AddAtomic
  <2>7. CASE LockMutex(t)
    BY <2>7, Moves DEF LockMutex, Kept, Behind, Counters, Places
  <2>8. CASE Load(t, "shared_split_mtx", "split_ld_mtx", "split_mtx")
    BY <2>8, Moves DEF Load, Kept, Behind, Counters, Places
  <2>9. CASE Store(t, "shared_split_mtx", "split_mtx", "oneline_mtx")
    <3>1. /\ StorePlace("shared_split_mtx") = "split_mtx"
          /\ Source("shared_split_mtx", t) = tmp[t]
      BY DEF StorePlace, Source, Mid
    <3>2. /\ "split_mtx" \notin Behind("shared_split_mtx")
          /\ "oneline_mtx" \in Behind("shared_split_mtx")
          /\ c # "shared_split_mtx" =>
                ("split_mtx" \in Behind(c) <=> "oneline_mtx" \in Behind(c))
      BY DEF Behind, Counters, Places
    <3>3. "shared_split_mtx" \in Counters
      BY DEF Counters
    <3> QED BY <2>9, <3>1, <3>2, <3>3, StoreMoves DEF Store
  <2>10. CASE Load(t, "shared_oneline_mtx", "oneline_mtx", "oneline_st_mtx")
    BY <2>10, Moves DEF Load, Kept, Behind, Counters, Places
  <2>11. CASE Store(t, "shared_oneline_mtx", "oneline_st_mtx", "unlock")
    <3>1. /\ StorePlace("shared_oneline_mtx") = "oneline_st_mtx"
          /\ Source("shared_oneline_mtx", t) = tmp[t]
      BY DEF StorePlace, Source, Mid
    <3>2. /\ "oneline_st_mtx" \notin Behind("shared_oneline_mtx")
          /\ "unlock" \in Behind("shared_oneline_mtx")
          /\ c # "shared_oneline_mtx" =>
                ("oneline_st_mtx" \in Behind(c) <=> "unlock" \in Behind(c))
      BY DEF Behind, Counters, Places
    <3>3. "shared_oneline_mtx" \in Counters
      BY DEF Counters
    <3> QED BY <2>11, <3>1, <3>2, <3>3, StoreMoves DEF Store
  <2>12. CASE UnlockMutex(t)
    <3>1. "unlock" \in Behind(c) /\ "round" \notin Behind(c)
      BY DEF Behind, Counters, Places
    <3>2. /\ pc[t] = "unlock" /\ pc'[t] = "round" /\ i'[t] = i[t] + 1
          /\ \A u \in Threads : u # t => pc'[u] = pc[u] /\ i'[u] = i[u]
          /\ \A u \in Threads : i[u] \in Nat
          /\ shared' = shared
      BY <2>12 DEF UnlockMutex, At, TypeOK
    <3>3. \A u \in Threads : i'[u] + (IF pc'[u] \in Behind(c) THEN 1 ELSE 0)
                             = i[u] + (IF pc[u] \in Behind(c) THEN 1 ELSE 0)
      BY <3>1, <3>2
    <3> QED BY <3>2, <3>3 DEF Kept, Added
  <2> QED BY <1>3, <2>1, <2>2, <2>3, <2>4, <2>5, <2>6, <2>7, <2>8, <2>9, <2>10,
             <2>11, <2>12 DEF thread_main
<1> QED BY <1>1, <1>2, <1>3 DEF Next

-----------------------------------------------------------------------------
(* Every step keeps the parts of the invariant. *)

LEMMA PlusRange ==
    ASSUME NEW v \in Nat
    PROVE  plus(v) \in 0 .. SHR_RANGE - 1
BY RaceAssumption DEF plus, step

LEMMA TypeStep ==
    ASSUME TypeOK, Progress, Next
    PROVE  TypeOK'
<1> USE DEF TypeOK
<1>1. CASE MainCreate
  <2>1. main' \in [at : {"create", "join", "print"}, i : Threads]
    <3>1. main.i < nthreads => main.i + 1 \in Threads
      BY RaceAssumption DEF Threads
    <3>2. 1 \in Threads
      BY ThreadRange
    <3> QED BY <1>1, <3>1, <3>2 DEF MainCreate
  <2> QED BY <1>1, <2>1 DEF MainCreate, Places
<1>2. CASE MainJoin
  <2>1. main' \in [at : {"create", "join", "print"}, i : Threads]
    BY <1>2, RaceAssumption, SMTT(30) DEF MainJoin, Threads
  <2> QED BY <1>2, <2>1 DEF MainJoin
<1>3. ASSUME NEW t \in Threads, thread_main(t)
      PROVE  TypeOK'
  <2>1. CASE Round(t)
    BY <2>1 DEF Round, At, Places, Counters
  <2>2. CASE Return(t)
    BY <2>2 DEF Return, At, Places
  <2>3. ASSUME NEW c \in Counters, NEW p, NEW q \in Places, Load(t, c, p, q)
        PROVE  TypeOK'
    BY <2>3 DEF Load, At
  <2>4. ASSUME NEW c \in Counters, NEW p, NEW q \in Places, Store(t, c, p, q)
        PROVE  TypeOK'
    <3>1. plus(tmp[t]) \in 0 .. SHR_RANGE - 1
      BY PlusRange, RaceAssumption
    <3> QED BY <2>4, <3>1 DEF Store, At
  <2>5. CASE AddAtomic(t)
    <3>1. plus(shared["shared_atomic"]) \in 0 .. SHR_RANGE - 1
      BY PlusRange, RaceAssumption DEF Counters
    <3> QED BY <2>5, <3>1 DEF AddAtomic, At, Places
  <2>6. CASE LockMutex(t)
    BY <2>6 DEF LockMutex, mtx_lock, At, Places
  <2>7. CASE UnlockMutex(t)
    <3>1. i[t] < count /\ i[t] \in 0 .. count /\ count \in Nat
      BY <2>7 DEF UnlockMutex, At, Progress
    <3>2. i' \in [Threads -> 0 .. count]
      BY <2>7, <3>1 DEF UnlockMutex
    <3> QED BY <2>7, <3>2 DEF UnlockMutex, mtx_unlock, At, Places
  <2>8. Counters = {"shared_split", "shared_oneline", "shared_atomic",
                    "shared_split_mtx", "shared_oneline_mtx"}
    BY DEF Counters
  <2>9. {"oneline", "oneline_st", "atomic", "split_mtx", "oneline_mtx",
         "oneline_st_mtx", "unlock"} \subseteq Places
    BY DEF Places
  <2> HIDE DEF TypeOK
  <2> QED BY <1>3, <2>1, <2>2, <2>3, <2>4, <2>5, <2>6, <2>7, <2>8, <2>9
          DEF thread_main
<1> QED BY <1>1, <1>2, <1>3 DEF Next

\* Where a thread may go in one step, and with which count of rounds.
LEMMA ThreadMove ==
    ASSUME TypeOK, NEW t \in Threads, thread_main(t)
    PROVE  /\ main' = main /\ count' = count
           /\ \A u \in Threads : u # t => pc'[u] = pc[u] /\ i'[u] = i[u]
           /\ pc[t] \notin {"unborn", "done"} /\ pc'[t] # "unborn"
           /\ \/ pc'[t] = "done" /\ pc[t] = "round" /\ i'[t] = i[t] /\ i[t] >= count
              \/ pc[t] = "round" /\ pc'[t] \notin {"round", "done"}
                 /\ i'[t] = i[t] /\ i[t] < count
              \/ pc[t] # "round" /\ pc'[t] \notin {"round", "done"} /\ i'[t] = i[t]
              \/ pc'[t] = "round"
<1>1. pc \in [Threads -> Places] /\ i \in [Threads -> 0 .. count]
  BY DEF TypeOK
<1>2. CASE Round(t) \/ Return(t) \/ LockMutex(t) \/ UnlockMutex(t) \/ AddAtomic(t)
  BY <1>1, <1>2 DEF Round, Return, LockMutex, UnlockMutex, AddAtomic, At
<1>3. ASSUME NEW c, NEW p, NEW q,
             p \notin {"unborn", "round", "done"}, q \notin {"unborn", "round", "done"},
             Load(t, c, p, q) \/ Store(t, c, p, q)
      PROVE  /\ main' = main /\ count' = count
             /\ \A u \in Threads : u # t => pc'[u] = pc[u] /\ i'[u] = i[u]
             /\ pc[t] = p /\ pc'[t] = q /\ i'[t] = i[t]
  BY <1>1, <1>3 DEF Load, Store, At
<1>4. CASE \/ Store(t, "shared_split", "split", "oneline")
           \/ Load(t, "shared_oneline", "oneline", "oneline_st")
           \/ Store(t, "shared_oneline", "oneline_st", "atomic")
           \/ Load(t, "shared_split_mtx", "split_ld_mtx", "split_mtx")
           \/ Store(t, "shared_split_mtx", "split_mtx", "oneline_mtx")
           \/ Load(t, "shared_oneline_mtx", "oneline_mtx", "oneline_st_mtx")
           \/ Store(t, "shared_oneline_mtx", "oneline_st_mtx", "unlock")
  BY <1>3, <1>4
<1> QED BY <1>2, <1>4 DEF thread_main

LEMMA ProgressStep ==
    ASSUME TypeOK, Progress, Next
    PROVE  Progress'
<1>0. /\ main.i \in Threads /\ main.at \in {"create", "join", "print"}
      /\ \A t \in Threads : i[t] \in 0 .. count
      /\ count \in Nat /\ Threads \subseteq Nat
      /\ pc \in [Threads -> Places]
  BY ThreadRange, RaceAssumption DEF TypeOK
<1>1. CASE MainCreate
  <2>1. /\ i' = i /\ count' = count /\ pc[main.i] = "unborn"
        /\ \A t \in Threads : pc'[t] = IF t = main.i THEN "round" ELSE pc[t]
    BY <1>0, <1>1 DEF MainCreate, Progress
  <2>2. \/ main'.at = "create" /\ main'.i = main.i + 1
        \/ main'.at = "join" /\ main'.i = 1
    BY <1>1 DEF MainCreate, TypeOK
  <2>3. \A t \in Threads : t \in Nat /\ t >= 1
    BY DEF Threads
  <2> QED BY <1>0, <1>1, <2>1, <2>2, <2>3 DEF Progress, MainCreate
<1>2. CASE MainJoin
  <2>1. pc' = pc /\ i' = i /\ count' = count /\ main.at = "join" /\ pc[main.i] = "done"
    BY <1>2 DEF MainJoin, joined
  <2>2. \/ main'.at = "join" /\ main'.i = main.i + 1
        \/ main'.at = "print" /\ main.i >= nthreads
    BY <1>0, <1>2, ThreadRange DEF MainJoin, TypeOK
  <2>3. \A t \in Threads : t \in Nat /\ t <= nthreads /\ nthreads \in Nat
    BY RaceAssumption DEF Threads
  <2>4. \A t \in Threads : main'.at = "join" /\ t < main'.i => t < main.i \/ t = main.i
    <3> PICK m \in Nat : m = main.i
      BY <1>0
    <3>1. \A t \in Nat : t < m + 1 => t < m \/ t = m
      OBVIOUS
    <3> QED BY <2>2, <2>3, <3>1
  <2>5. \A t \in Threads : main'.at = "print" => t < main.i \/ t = main.i
    <3> PICK m \in Nat : m = main.i
      BY <1>0
    <3>1. \A t \in Nat : t <= nthreads /\ nthreads \in Nat /\ m >= nthreads => t < m \/ t = m
      OBVIOUS
    <3> QED BY <2>2, <2>3, <3>1
  <2>6. main'.at # "create"
    BY <2>2
  <2> QED BY <2>1, <2>4, <2>5, <2>6 DEF Progress
<1>3. ASSUME NEW t \in Threads, thread_main(t)
      PROVE  Progress'
  <2>1. /\ main' = main /\ count' = count
        /\ \A u \in Threads : u # t => pc'[u] = pc[u] /\ i'[u] = i[u]
        /\ pc[t] \notin {"unborn", "done"}
        /\ pc'[t] = "done" => i'[t] = count
        /\ pc'[t] \notin {"unborn", "round", "done"} => i'[t] < count
    BY <1>0, <1>3, ThreadMove DEF Progress
  <2> QED BY <2>1 DEF Progress
<1> QED BY <1>1, <1>2, <1>3 DEF Next

Guarded == {"shared_split_mtx", "shared_oneline_mtx"}

\* A step of a thread outside the critical section.
LEMMA OutsideStep ==
    ASSUME TypeOK, Exclusion, NEW t \in Threads,
           pc[t] \notin Critical, pc'[t] \notin Critical,
           \A u \in Threads : u # t => pc'[u] = pc[u] /\ tmp'[u] = tmp[u],
           locked' = locked, \A c \in Guarded : shared'[c] = shared[c]
    PROVE  Exclusion'
<1>1. \A u \in Threads : pc'[u] \in Critical => u # t /\ pc[u] \in Critical
  OBVIOUS
<1> QED BY <1>1 DEF Exclusion, Guarded

\* A step of the thread inside it.
LEMMA InsideStep ==
    ASSUME TypeOK, Exclusion, NEW t \in Threads, pc[t] \in Critical,
           \A u \in Threads : u # t => pc'[u] = pc[u],
           locked' = locked,
           \A c \in Guarded : pc'[t] = Mid(c) => tmp'[t] = shared'[c]
    PROVE  Exclusion'
<1>1. mutex \in locked /\ \A u \in Threads : pc'[u] \in Critical => u = t
  BY DEF Exclusion
<1> QED BY <1>1 DEF Exclusion, Guarded

LEMMA ExclusionStep ==
    ASSUME TypeOK, Progress, Exclusion, Next
    PROVE  Exclusion'
<1>0. /\ pc \in [Threads -> Places] /\ tmp \in [Threads -> 0 .. SHR_RANGE - 1]
      /\ shared \in [Counters -> 0 .. SHR_RANGE - 1]
  BY DEF TypeOK
<1>1. CASE MainCreate
  <2>1. /\ main.i \in Threads
        /\ \A u \in Threads : u # main.i => pc'[u] = pc[u] /\ tmp'[u] = tmp[u]
        /\ pc[main.i] = "unborn" /\ pc'[main.i] = "round"
        /\ locked' = locked /\ shared' = shared
    BY <1>0, <1>1, ThreadRange DEF MainCreate, TypeOK, Progress
  <2>2. "unborn" \notin Critical /\ "round" \notin Critical
    BY DEF Critical
  <2> QED BY <2>1, <2>2, OutsideStep
<1>2. CASE MainJoin
  BY <1>2 DEF MainJoin, Exclusion
<1>3. ASSUME NEW t \in Threads, thread_main(t)
      PROVE  Exclusion'
  <2>1. CASE Round(t)
    BY <1>0, <2>1, OutsideStep DEF Round, At, Critical
  <2>2. CASE Return(t)
    BY <1>0, <2>2, OutsideStep DEF Return, At, Critical
  <2>3. CASE Store(t, "shared_split", "split", "oneline")
    BY <1>0, <2>3, OutsideStep DEF Store, At, Critical, Guarded, Counters
  <2>4. CASE Load(t, "shared_oneline", "oneline", "oneline_st")
    BY <1>0, <2>4, OutsideStep DEF Load, At, Critical
  <2>5. CASE Store(t, "shared_oneline", "oneline_st", "atomic")
    BY <1>0, <2>5, OutsideStep DEF Store, At, Critical, Guarded, Counters
  <2>6. CASE AddAtomic(t)
    BY <1>0, <2>6, OutsideStep DEF AddAtomic, At, Critical, Guarded, Counters
  <2>7. CASE LockMutex(t)
    <3>1. \A u \in Threads : pc[u] \notin Critical
      BY <2>7 DEF LockMutex, mtx_lock, Exclusion
    <3>2. /\ \A u \in Threads : u # t => pc'[u] = pc[u]
          /\ pc'[t] = "split_ld_mtx" /\ mutex \in locked'
      BY <1>0, <2>7 DEF LockMutex, mtx_lock, At
    <3>3. \A c \in Guarded : Mid(c) # "split_ld_mtx"
      BY DEF Mid, Guarded
    <3> QED BY <3>1, <3>2, <3>3 DEF Exclusion, Guarded
  <2>8. CASE Load(t, "shared_split_mtx", "split_ld_mtx", "split_mtx")
    BY <1>0, <2>8, InsideStep DEF Load, At, Critical, Guarded, Mid
  <2>9. CASE Store(t, "shared_split_mtx", "split_mtx", "oneline_mtx")
    BY <1>0, <2>9, InsideStep DEF Store, At, Critical, Guarded, Mid
  <2>10. CASE Load(t, "shared_oneline_mtx", "oneline_mtx", "oneline_st_mtx")
    BY <1>0, <2>10, InsideStep DEF Load, At, Critical, Guarded, Mid
  <2>11. CASE Store(t, "shared_oneline_mtx", "oneline_st_mtx", "unlock")
    BY <1>0, <2>11, InsideStep DEF Store, At, Critical, Guarded, Mid
  <2>12. CASE UnlockMutex(t)
    <3>1. /\ pc[t] \in Critical /\ pc'[t] \notin Critical
          /\ \A u \in Threads : u # t => pc'[u] = pc[u]
      BY <1>0, <2>12 DEF UnlockMutex, At, Critical
    <3>2. \A u \in Threads : pc'[u] \notin Critical
      BY <3>1 DEF Exclusion
    <3> QED BY <3>2 DEF Exclusion
  <2> QED BY <1>3, <2>1, <2>2, <2>3, <2>4, <2>5, <2>6, <2>7, <2>8, <2>9, <2>10,
             <2>11, <2>12 DEF thread_main
<1> QED BY <1>1, <1>2, <1>3 DEF Next

\* The sum of the additions grows with the counter.
LEMMA TotalStep ==
    ASSUME TypeOK, NEW c \in Counters, NEW t \in Threads, AddedBy(c, t)
    PROVE  Total(Added(c)') = Total(Added(c)) + 1
BY AddedNat, TotalPlus DEF AddedBy

LEMMA ExactStep ==
    ASSUME TypeOK, Progress, Exclusion, Exact, Next
    PROVE  Exact'
<1> SUFFICES ASSUME NEW c \in Counters \ Racy
             PROVE  shared'[c] = Total(Added(c)') % SHR_RANGE
  BY DEF Exact, Total, Term
<1>1. shared[c] = Total(Added(c)) % SHR_RANGE
  BY DEF Exact
<1>2. CASE Kept(c)
  BY <1>1, <1>2 DEF Kept
<1>3. ASSUME NEW t \in Threads, AddedBy(c, t)
      PROVE  shared'[c] = Total(Added(c)') % SHR_RANGE
  <2>1. Source(c, t) = shared[c]
    <3>1. CASE c = "shared_atomic"
      BY <3>1 DEF Source
    <3>2. CASE c \in Guarded
      <4>1. Mid(c) \in Critical /\ c # "shared_atomic"
        BY <3>2 DEF Mid, Critical, Guarded
      <4>2. pc[t] = Mid(c)
        BY <1>3, <4>1 DEF AddedBy, StorePlace
      <4> QED BY <3>2, <4>1, <4>2 DEF Exclusion, Source, Guarded
    <3> QED BY <3>1, <3>2 DEF Counters, Racy, Guarded
  <2>2. shared'[c] = ((Total(Added(c)) % SHR_RANGE) + 1) % SHR_RANGE
    BY <1>1, <1>3, <2>1 DEF AddedBy, plus, step
  <2>3. Total(Added(c)) \in Nat /\ SHR_RANGE \in Nat \ {0}
    BY AddedNat, TotalNat, RaceAssumption
  <2>4. shared'[c] = (Total(Added(c)) + 1) % SHR_RANGE
    BY <2>2, <2>3, WrapPlus
  <2> QED BY <1>3, <2>4, TotalStep
<1> QED BY <1>2, <1>3, CounterStep

\* A thread between the load and the store of c was there before, or has just
\* loaded c.
LEMMA LoadStep ==
    ASSUME TypeOK, Progress, Next, NEW c \in Racy, NEW u \in Threads, pc'[u] = Mid(c)
    PROVE  \/ pc[u] = Mid(c) /\ tmp'[u] = tmp[u] /\ Added(c)'[u] = Added(c)[u]
           \/ tmp'[u] = shared[c] /\ Kept(c)
<1>0. /\ pc \in [Threads -> Places] /\ tmp \in [Threads -> 0 .. SHR_RANGE - 1]
      /\ i \in [Threads -> 0 .. count] /\ c \in Counters
      /\ Mid(c) = IF c = "shared_split" THEN "split" ELSE "oneline_st"
  BY DEF TypeOK, Racy, Counters, Mid
<1>1. ASSUME pc'[u] = pc[u], i'[u] = i[u] PROVE Added(c)'[u] = Added(c)[u]
  BY <1>1 DEF Added
<1>2. CASE MainCreate
  <2>1. pc'[u] = pc[u] /\ tmp' = tmp /\ i' = i
    BY <1>0, <1>2 DEF MainCreate
  <2> QED BY <1>1, <2>1
<1>3. CASE MainJoin
  BY <1>1, <1>3 DEF MainJoin
<1>4. ASSUME NEW t \in Threads, thread_main(t), t # u
      PROVE  pc[u] = Mid(c) /\ tmp'[u] = tmp[u] /\ Added(c)'[u] = Added(c)[u]
  <2>1. pc'[u] = pc[u] /\ i'[u] = i[u]
    BY <1>4, ThreadMove
  <2>2. tmp'[u] = tmp[u]
    BY <1>0, <1>4 DEF thread_main, Round, Return, Load, Store, AddAtomic, LockMutex,
                      UnlockMutex
  <2> QED BY <1>1, <2>1, <2>2
<1>5. ASSUME thread_main(u)
      PROVE  tmp'[u] = shared[c] /\ Kept(c)
  <2>1. CASE c = "shared_split"
    <3>1. Round(u)
      BY <1>0, <1>5, <2>1 DEF thread_main, Round, Return, Load, Store, AddAtomic,
                              LockMutex, UnlockMutex, At
    <3>2. "round" \notin Behind(c) /\ "split" \notin Behind(c)
      BY <1>0, BehindPlaces
    <3> QED BY <1>0, <2>1, <3>1, <3>2, Moves DEF Round, Kept
  <2>2. CASE c = "shared_oneline"
    <3>1. Load(u, "shared_oneline", "oneline", "oneline_st")
      BY <1>0, <1>5, <2>2 DEF thread_main, Round, Return, Load, Store, AddAtomic,
                              LockMutex, UnlockMutex, At
    <3>2. "oneline" \notin Behind(c) /\ "oneline_st" \notin Behind(c)
      BY <2>2 DEF Behind
    <3> QED BY <1>0, <2>2, <3>1, <3>2, Moves DEF Load, Kept
  <2> QED BY <2>1, <2>2 DEF Racy
<1> QED BY <1>2, <1>3, <1>4, <1>5 DEF Next, MainCreate, MainJoin

\* AddedBound, in the state before and in the state after a step.
LEMMA AddedBelow ==
    TypeOK /\ Progress =>
        \A c \in Counters : Added(c) \in [Threads -> Nat] /\ Total(Added(c)) <= Expected
BY AddedNat, AddedBound

LEMMA AddedBelowNext ==
    TypeOK' /\ Progress' =>
        (\A c \in Counters : Added(c) \in [Threads -> Nat] /\ Total(Added(c)) <= Expected)'
BY AddedBelow, PTL

LEMMA RacyStep ==
    ASSUME TypeOK, TypeOK', Progress, Progress', RacySound, Next
    PROVE  RacySound'
<1>0. count' = count /\ Expected' = Expected
  BY DEF Next, MainCreate, MainJoin, thread_main, Round, Return, Load, Store, AddAtomic,
         LockMutex, UnlockMutex, Expected, step
<1> SUFFICES ASSUME Expected < SHR_RANGE, NEW c \in Racy
             PROVE  RacyAt(c)'
  BY <1>0 DEF RacySound
<1> DEFINE A == Added(c)
           B == Added(c)'
<1>1. c \in Counters /\ RacyAt(c) /\ c # "shared_atomic"
  BY DEF RacySound, Racy, Counters
<1>2. /\ A \in [Threads -> Nat] /\ B \in [Threads -> Nat]
      /\ Total(B) <= Expected
  BY <1>0, <1>1, AddedBelow, AddedBelowNext
<1>3. /\ Total(A) \in Nat /\ Total(B) \in Nat /\ Expected \in Nat
      /\ shared[c] \in Nat /\ shared'[c] \in Nat
      /\ \A t \in Threads : tmp[t] \in Nat /\ A[t] \in Nat /\ B[t] \in Nat
  BY <1>1, <1>2, TotalNat, AddedBound, RaceAssumption DEF TypeOK
<1>4. /\ shared[c] <= Total(A)
      /\ \A t \in Threads : /\ A[t] >= 1 => shared[c] >= 1
                            /\ nthreads = 1 => shared[c] = A[t]
      /\ (\A t \in Threads : A[t] >= 2) => shared[c] >= 2
      /\ \A t \in Threads : pc[t] = Mid(c) =>
            /\ tmp[t] <= Total(A)
            /\ A[t] >= 1 => tmp[t] >= 1
            /\ nthreads = 1 => tmp[t] = A[t]
  BY <1>1 DEF RacyAt
<1>5. \/ Kept(c)
      \/ \E t \in Threads : AddedBy(c, t)
  BY <1>1, CounterStep
<1> HIDE DEF A, B
\* A store: t put back one more than it had loaded.
<1>6. ASSUME NEW t \in Threads, AddedBy(c, t)
      PROVE  /\ pc[t] = Mid(c) /\ B = [A EXCEPT ![t] = @ + 1]
             /\ Total(B) = Total(A) + 1 /\ shared'[c] = tmp[t] + 1
  <2>1. pc[t] = Mid(c) /\ B = [A EXCEPT ![t] = @ + 1] /\ shared'[c] = plus(tmp[t])
    BY <1>1, <1>6 DEF AddedBy, StorePlace, Source, A, B
  <2>2. Total(B) = Total(A) + 1
    BY <1>2, <2>1, TotalPlus
  <2>3. tmp[t] + 1 < SHR_RANGE
    BY <1>2, <1>3, <1>4, <2>1, <2>2, RaceAssumption
  <2>4. plus(tmp[t]) = tmp[t] + 1
    BY <1>3, <2>3, NoWrap, RaceAssumption DEF plus, step
  <2> QED BY <2>1, <2>2, <2>4
<1>7. Total(A) <= Total(B) /\ (Kept(c) => A = B /\ shared'[c] = shared[c])
  <2>1. Kept(c) => A = B /\ shared'[c] = shared[c]
    BY DEF Kept, A, B
  <2> QED BY <1>3, <1>5, <1>6, <2>1
<1>8. shared'[c] <= Total(B)
  BY <1>3, <1>4, <1>5, <1>6, <1>7
<1>9. \A t \in Threads : B[t] >= 1 => shared'[c] >= 1
  BY <1>3, <1>4, <1>5, <1>6, <1>7
<1>10. nthreads = 1 => \A t \in Threads : shared'[c] = B[t]
  <2> SUFFICES ASSUME nthreads = 1, NEW u \in Threads PROVE shared'[c] = B[u]
    OBVIOUS
  <2>1. \A t \in Threads : t = u
    BY DEF Threads
  <2>2. CASE Kept(c)
    BY <1>4, <1>7, <2>2
  <2>3. CASE AddedBy(c, u)
    BY <1>2, <1>3, <1>4, <1>6, <2>3
  <2> QED BY <1>5, <2>1, <2>2, <2>3
<1>11. (\A t \in Threads : B[t] >= 2) => shared'[c] >= 2
  <2>1. CASE Kept(c)
    BY <1>4, <1>7, <2>1
  <2>2. ASSUME NEW t \in Threads, AddedBy(c, t), B[t] >= 2
        PROVE  shared'[c] >= 2
    <3>1. B[t] = A[t] + 1
      BY <1>2, <1>6, <2>2
    <3>2. A[t] >= 1
      BY <1>3, <2>2, <3>1
    <3> QED BY <1>3, <1>4, <1>6, <2>2, <3>2
  <2> QED BY <1>5, <2>1, <2>2
<1>12. ASSUME NEW u \in Threads, pc'[u] = Mid(c)
       PROVE  /\ tmp'[u] <= Total(B)
              /\ B[u] >= 1 => tmp'[u] >= 1
              /\ nthreads = 1 => tmp'[u] = B[u]
  <2>1. CASE pc[u] = Mid(c) /\ tmp'[u] = tmp[u] /\ B[u] = A[u]
    BY <1>3, <1>4, <1>7, <2>1
  <2>2. CASE tmp'[u] = shared[c] /\ Kept(c)
    BY <1>4, <1>7, <2>2
  <2> QED BY <1>12, <2>1, <2>2, LoadStep DEF A, B
<1> QED BY <1>8, <1>9, <1>10, <1>11, <1>12 DEF RacyAt, A, B

-----------------------------------------------------------------------------
(* The theorems. *)

LEMMA InitRInv == Init => RInv
<1> SUFFICES ASSUME Init PROVE RInv
  OBVIOUS
<1>1. TypeOK
  BY ThreadRange, RaceAssumption DEF Init, TypeOK, Places, mtx_init
<1>2. Progress /\ Exclusion
  BY ThreadRange DEF Init, Progress, Exclusion, Critical
<1>3. ASSUME NEW c \in Counters
      PROVE  Total(Added(c)) = 0 /\ shared[c] = 0 /\ \A t \in Threads : Added(c)[t] = 0
  <2>1. \A t \in Threads : i[t] = 0 /\ pc[t] \notin Behind(c)
    BY BehindPlaces DEF Init
  <2>2. \A t \in Threads : Added(c)[t] = 0
    BY <2>1 DEF Added
  <2>3. Added(c) \in [Threads -> 0 .. 0]
    BY <2>2 DEF Added
  <2>4. Total(Added(c)) = nthreads * 0
    BY <2>2, <2>3, TotalBound
  <2> QED BY <2>2, <2>4, ThreadRange DEF Init
<1>4. Exact
  <2>1. 0 % SHR_RANGE = 0
    BY RaceAssumption, NoWrap
  <2> QED BY <1>3, <2>1 DEF Exact
<1>5. RacySound
  <2>1. \A c \in Racy : c \in Counters /\ Mid(c) # "unborn"
    BY DEF Racy, Counters, Mid
  <2>2. \A t \in Threads : pc[t] = "unborn"
    BY DEF Init
  <2>3. 1 \in Threads
    BY ThreadRange
  <2> QED BY <1>3, <2>1, <2>2, <2>3 DEF RacySound, RacyAt
<1> QED BY <1>1, <1>2, <1>4, <1>5 DEF RInv

LEMMA StepRInv == RInv /\ [Next]_vars => RInv'
<1> SUFFICES ASSUME RInv, [Next]_vars PROVE RInv'
  OBVIOUS
<1>1. CASE Next
  BY <1>1, TypeStep, ProgressStep, ExclusionStep, ExactStep, RacyStep DEF RInv
<1>2. CASE UNCHANGED vars
  BY <1>2 DEF vars, RInv, TypeOK, Progress, Exclusion, Exact, RacySound, RacyAt, Added,
              Expected, Total, Term
<1> QED BY <1>1, <1>2

\* The inductive invariant holds in every behaviour.
THEOREM CountingInductive == Spec => []RInv
BY InitRInv, StepRInv, PTL DEF Spec

\* The counters of process/datarace.c stay in the range of a shr_t and every loop
\* variable within its loop, for every number of threads and rounds.
THEOREM CountersTyped == Spec => []TypeOK
<1>1. RInv => TypeOK
  BY DEF RInv
<1> QED BY <1>1, CountingInductive, PTL

\* What process/datarace.c prints for the atomic counter and the two that the mutex
\* protects is the number of rounds of all threads, modulo the width of a shr_t:
\* the mutex and the atomic addition lose no update under any interleaving.
THEOREM ProtectedCountersExact == Spec => []ExactCounters
<1>1. RInv => ExactCounters
  <2> SUFFICES ASSUME RInv, main.at = "print", NEW c \in Counters \ Racy
               PROVE  shared[c] = Expected % SHR_RANGE
    BY DEF ExactCounters
  <2>1. \A t \in Threads : pc[t] = "done"
    BY DEF RInv, Progress
  <2> QED BY <2>1, AddedBound DEF RInv, Exact
<1> QED BY <1>1, CountingInductive, PTL

\* The counters that process/datarace.c leaves unprotected print at most the
\* expected result and, from two threads of two rounds on, at least 2.
THEOREM RacyCountersBounded == Spec => []RacyBounds
<1>1. RInv => RacyBounds
  <2> SUFFICES ASSUME RInv, main.at = "print", Expected < SHR_RANGE, NEW c \in Racy
               PROVE  /\ shared[c] <= Expected
                      /\ shared[c] >= IF count < 2 \/ nthreads = 1 THEN count ELSE 2
    BY DEF RacyBounds
  <2>1. /\ c \in Counters /\ count \in Nat /\ shared[c] \in Nat
        /\ \A t \in Threads : pc[t] = "done"
    BY RaceAssumption DEF RInv, TypeOK, Progress, Racy, Counters
  <2>2. Total(Added(c)) = Expected /\ RacyAt(c)
    BY <2>1, AddedBound DEF RInv, RacySound
  <2>3. \A t \in Threads : Added(c)[t] = count
    <3> TAKE t \in Threads
    <3>1. i[t] = count /\ pc[t] \notin Behind(c)
      BY <2>1, BehindPlaces DEF RInv, Progress
    <3> QED BY <2>1, <3>1 DEF Added
  <2>4. 1 \in Threads
    BY ThreadRange
  <2>5. shared[c] <= Expected
    BY <2>2 DEF RacyAt
  <2>6. /\ count >= 1 => shared[c] >= 1
        /\ nthreads = 1 => shared[c] = count
        /\ count >= 2 => shared[c] >= 2
    BY <2>2, <2>3, <2>4 DEF RacyAt
  <2>7. CASE nthreads = 1
    BY <2>1, <2>5, <2>6, <2>7
  <2>8. CASE nthreads # 1 /\ count < 2
    <3>1. count = 0 \/ count = 1
      BY <2>1, <2>8
    <3> QED BY <2>1, <2>5, <2>6, <2>8, <3>1
  <2>9. CASE nthreads # 1 /\ count >= 2
    BY <2>1, <2>5, <2>6, <2>9
  <2> QED BY <2>1, <2>7, <2>8, <2>9
<1> QED BY <1>1, CountingInductive, PTL
=============================================================================
