--------------------------- MODULE ThreadsProgram ---------------------------
(***************************************************************************)
(* process/threads.c over the user threads library: main makes a thread    *)
(* per element of an array, each thread doubles its element, main joins    *)
(* all handles - also those thrd_create has not filled in - and prints.    *)
(* The variable prog chooses between this program and any program, so that *)
(* one run explores both.                                                  *)
(***************************************************************************)
EXTENDS UThreads

CONSTANT MaxThreads     \* bound on the option -n
ASSUME MaxThreadsAssumption == MaxThreads \in Nat \ {0}

VARIABLES
    prog,       \* "threads" or "any"
    nthreads,
    loop, i,    \* the loop main is in and its counter
    utids,      \* 0 while uninitialised
    arg,        \* index a thread was given, 0 for none
    did,        \* threads that have doubled their element
    results

pvars == <<prog, nthreads, loop, i, utids, arg, did, results>>
vars == <<uvars, pvars>>

N == 1 .. MaxThreads

TInit ==
    /\ Init
    /\ prog \in {"threads", "any"}
    /\ nthreads \in N
    /\ prog = "any" => nthreads = 1
    /\ loop = "create" /\ i = 1
    /\ utids = [k \in N |-> 0]
    /\ arg = [t \in Tids |-> 0]
    /\ did = {}
    /\ results = [k \in N |-> k]

\* The first loop of main; thrd_create's result is only printed.
MainCreates ==
    /\ loop = "create" /\ i <= nthreads
    /\ CallCreate(Main)
    /\ i' = i + 1
    /\ UNCHANGED <<prog, nthreads, loop, utids, arg, did, results>>

MainTurns ==
    /\ loop = "create" /\ i > nthreads /\ At(Main, "user")
    /\ loop' = "join" /\ i' = 1
    /\ UNCHANGED <<uvars, prog, nthreads, utids, arg, did, results>>

\* The second loop.  An uninitialised handle may have any value.
MainJoins ==
    /\ loop = "join" /\ i <= nthreads /\ At(Main, "user")
    /\ \/ utids[i] # 0 /\ CallJoin(Main, utids[i])
       \/ utids[i] = 0 /\ \E h \in Slots : CallJoinStray(Main, h)
       \/ utids[i] = 0 /\ UNCHANGED uvars
    /\ i' = i + 1
    /\ UNCHANGED <<prog, nthreads, loop, utids, arg, did, results>>

Done == loop = "join" /\ i > nthreads /\ where[Main] = "user"

MainEnds == Done /\ MainReturns /\ UNCHANGED pvars

\* Main's library calls, with the argument and the result they pass.
MainInLibrary ==
    \/ /\ \E c \in Tids : SysCreate(Main, c) /\ arg' = [arg EXCEPT ![c] = i - 1]
       /\ UNCHANGED <<prog, nthreads, loop, i, utids, did, results>>
    \/ /\ StoreHandle(Main)
       /\ utids' = [utids EXCEPT ![i - 1] = idx[Main]]
       /\ UNCHANGED <<prog, nthreads, loop, i, arg, did, results>>
    \/ /\ \/ AllocTake(Main) \/ AllocSkip(Main) \/ AllocFull(Main) \/ SysCreateFails(Main)
          \/ Free(Main) \/ SysJoin(Main) \/ SysJoinMissing(Main)
          \/ SysJoinHangs(Main) \/ SysJoined(Main)
       /\ UNCHANGED pvars

\* thread_main: its element is doubled, then it returns 0.
thread_main(t) ==
    \/ /\ Krn!Acts(t) /\ t \notin did
       /\ results' = [results EXCEPT ![arg[t]] = 2 * @]
       /\ did' = did \cup {t}
       /\ UNCHANGED <<uvars, prog, nthreads, loop, i, utids, arg>>
    \/ /\ t \in did
       /\ \E u \in Tids : ThreadReturns(t, u)
       /\ value'[t] = 0
       /\ UNCHANGED pvars

ThreadsMain ==
    \/ MainCreates \/ MainTurns \/ MainJoins \/ MainEnds \/ MainInLibrary
    \/ \E t \in Tids \ {Main} : thread_main(t)

TNext ==
    \/ prog = "threads" /\ ThreadsMain
    \/ prog = "any" /\ (\E t \in Tids : Library(t) \/ AnyClient(t)) /\ UNCHANGED pvars
    \/ prog = "any" /\ MainReturns /\ UNCHANGED pvars
    \/ Scheduler /\ UNCHANGED pvars

TSpec == TInit /\ [][TNext]_vars

(* When main prints the array, the elements of the threads that could be   *)
(* made are doubled, once, and the others are as they were: main has       *)
(* waited for every thread, also when handles were never filled in         *)
(* (threads.c 61-78, mulibc/threads.c 79-88, 111-128).                     *)
ResultsDoubled ==
    prog = "threads" /\ Done =>
        \A k \in 1 .. nthreads :
            results[k] = IF \E t \in Tids : arg[t] = k THEN 2 * k ELSE k
=============================================================================
