------------------------------ MODULE DataRace ------------------------------
(***************************************************************************)
(* The counting threads of process/datarace.c.  A thread adds 1 to five    *)
(* shared counters in every round; a timer tick may come between any two   *)
(* machine instructions.  "shared_oneline += step" may be one instruction  *)
(* or a load and a store; the second has all the outcomes of the first.    *)
(***************************************************************************)
EXTENDS Integers, Mutex

CONSTANTS
    nthreads,       \* option -n
    MaxCount,       \* bound: option -c
    SHR_RANGE       \* values of a shr_t: 2^32

\* The user-thread library has THRD_MAX = 8 threads to give away, so that every
\* thrd_create below succeeds.
ASSUME RaceAssumption ==
    nthreads \in 1 .. 8 /\ MaxCount \in Nat /\ SHR_RANGE \in Nat /\ MaxCount < SHR_RANGE

Threads == 1 .. nthreads
mutex == 0
step == 1
Counters == {"shared_split", "shared_oneline", "shared_atomic",
             "shared_split_mtx", "shared_oneline_mtx"}
Racy == {"shared_split", "shared_oneline"}
Places == {"unborn", "round", "split", "oneline", "oneline_st", "atomic", "lock",
           "split_ld_mtx", "split_mtx", "oneline_mtx", "oneline_st_mtx", "unlock",
           "done"}

VARIABLES
    count,      \* rounds of each thread
    shared,     \* the counters
    pc,         \* the next instruction of each thread
    i,          \* rounds done
    tmp,        \* the register that holds a loaded counter
    main        \* [at, i]: main's place and loop index

vars == <<locked, count, shared, pc, i, tmp, main>>

Init ==
    /\ mtx_init
    /\ count \in 0 .. MaxCount
    /\ shared = [c \in Counters |-> 0]
    /\ pc = [t \in Threads |-> "unborn"]
    /\ i = [t \in Threads |-> 0]
    /\ tmp = [t \in Threads |-> 0]
    /\ main = [at |-> "create", i |-> 1]

-----------------------------------------------------------------------------
(* The main thread. *)

MainCreate ==
    /\ main.at = "create"
    /\ pc' = [pc EXCEPT ![main.i] = "round"]
    /\ main' = IF main.i < nthreads THEN [main EXCEPT !.i = @ + 1]
               ELSE [at |-> "join", i |-> 1]
    /\ UNCHANGED <<locked, count, shared, i, tmp>>

\* Bug: the join returns at once.
joined_at_once(t) == TRUE
joined(t) == pc[t] = "done"

\* After the last join main prints the counters.
MainJoin ==
    /\ main.at = "join"
    /\ joined(main.i)
    /\ main' = IF main.i < nthreads THEN [main EXCEPT !.i = @ + 1]
               ELSE [at |-> "print", i |-> 1]
    /\ UNCHANGED <<locked, count, shared, pc, i, tmp>>

-----------------------------------------------------------------------------
(* thread_main. *)

At(t, p, q) == pc[t] = p /\ pc' = [pc EXCEPT ![t] = q]

plus(v) == (v + step) % SHR_RANGE

\* The head of the loop, and the load of shared_split.
Round(t) ==
    /\ i[t] < count
    /\ At(t, "round", "split")
    /\ tmp' = [tmp EXCEPT ![t] = shared["shared_split"]]
    /\ UNCHANGED <<locked, count, shared, i, main>>

\* A load of c, and the store that adds to what was loaded.
Load(t, c, p, q) ==
    /\ At(t, p, q)
    /\ tmp' = [tmp EXCEPT ![t] = shared[c]]
    /\ UNCHANGED <<locked, count, shared, i, main>>
Store(t, c, p, q) ==
    /\ At(t, p, q)
    /\ shared' = [shared EXCEPT ![c] = plus(tmp[t])]
    /\ UNCHANGED <<locked, count, i, tmp, main>>

AddAtomic(t) ==
    /\ At(t, "atomic", "lock")
    /\ shared' = [shared EXCEPT !["shared_atomic"] = plus(@)]
    /\ UNCHANGED <<locked, count, i, tmp, main>>
LockMutex(t) ==
    /\ At(t, "lock", "split_ld_mtx")
    /\ mtx_lock(mutex)
    /\ UNCHANGED <<count, shared, i, tmp, main>>
UnlockMutex(t) ==
    /\ At(t, "unlock", "round")
    /\ mtx_unlock(mutex)
    /\ i' = [i EXCEPT ![t] = @ + 1]
    /\ UNCHANGED <<count, shared, tmp, main>>
Return(t) ==
    /\ i[t] >= count
    /\ At(t, "round", "done")
    /\ UNCHANGED <<locked, count, shared, i, tmp, main>>

thread_main(t) ==
    \/ Round(t) \/ Return(t)
    \/ Store(t, "shared_split", "split", "oneline")
    \/ Load(t, "shared_oneline", "oneline", "oneline_st")
    \/ Store(t, "shared_oneline", "oneline_st", "atomic")
    \/ AddAtomic(t) \/ LockMutex(t)
    \/ Load(t, "shared_split_mtx", "split_ld_mtx", "split_mtx")
    \/ Store(t, "shared_split_mtx", "split_mtx", "oneline_mtx")
    \/ Load(t, "shared_oneline_mtx", "oneline_mtx", "oneline_st_mtx")
    \/ Store(t, "shared_oneline_mtx", "oneline_st_mtx", "unlock")
    \/ UnlockMutex(t)

Next == MainCreate \/ MainJoin \/ \E t \in Threads : thread_main(t)
Spec == Init /\ [][Next]_vars

-----------------------------------------------------------------------------
(* Properties. *)

\* Every variable has its type, a counter that of an unsigned long.
TypeOK ==
    /\ locked \subseteq {mutex}
    /\ count \in 0 .. MaxCount
    /\ shared \in [Counters -> 0 .. SHR_RANGE - 1]
    /\ pc \in [Threads -> Places]
    /\ i \in [Threads -> 0 .. count]
    /\ tmp \in [Threads -> 0 .. SHR_RANGE - 1]
    /\ main \in [at : {"create", "join", "print"}, i : Threads]

Expected == nthreads * count * step

\* When main prints, the atomic counter and the counters that the mutex protects
\* have the expected result, also when it wraps.
ExactCounters ==
    main.at = "print" =>
        \A c \in Counters \ Racy : shared[c] = Expected % SHR_RANGE

\* A racing counter that cannot wrap never exceeds the expected result, and
\* however many updates are lost, with two rounds or more at least 2 is left: not
\* the count of one thread, but not 1 either.
RacyBounds ==
    main.at = "print" /\ Expected < SHR_RANGE =>
        \A c \in Racy :
            /\ shared[c] <= Expected
            /\ shared[c] >= IF count < 2 \/ nthreads = 1 THEN count ELSE 2
=============================================================================
