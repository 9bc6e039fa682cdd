------------------------------ MODULE UThreads ------------------------------
(***************************************************************************)
(* The user side of threads: the table uthrds[] of mulibc/threads.c, its   *)
(* stacks, and the calls thrd_create, thrd_join and thrd_exit, over what   *)
(* the kernel promises (ThreadLife).  A tick may come between any two      *)
(* steps of a library call, so calls of several threads interleave.  The   *)
(* client is any program whose threads join only threads they have made.   *)
(***************************************************************************)
EXTENDS Integers

CONSTANTS
    THRD_MAX,   \* entries of uthrds[]
    MaxTid,     \* bound: tids handed out
    Status      \* what thread functions return

ASSUME UThreadsAssumption ==
    THRD_MAX \in Nat \ {0} /\ MaxTid \in Nat \ {0} /\ Status \subseteq Int /\ 0 \in Status

VARIABLES
    life, joins, value,     \* of the kernel's threads (ThreadLife)
    inuse, ktid,            \* fields of uthrds[]
    where,                  \* the place of a thread in a library call
    idx, res,               \* its locals ut and res
    handles,                \* thrd_t values a thread got and has not joined
    stack,                  \* the entry whose stack a thread was started on
    stray                   \* history: an uninitialised thrd_t was joined

kernel == <<life, joins, value>>
uvars == <<life, joins, value, inuse, ktid, where, idx, res, handles, stack, stray>>

Krn == INSTANCE ThreadLife

Tids == 1 .. MaxTid
Slots == 1 .. THRD_MAX
Main == 1
Places == {"user", "alloc", "create", "created", "join", "joining", "free", "hung"}

\* t has the CPU and is at place p of the library.
At(t, p) == Krn!Acts(t) /\ where[t] = p
Goes(t, p) == where' = [where EXCEPT ![t] = p]

\* crt0 has called main.
Init ==
    /\ life = [t \in Tids |-> IF t = Main THEN "running" ELSE "unborn"]
    /\ joins = [t \in Tids |-> 0]
    /\ value = [t \in Tids |-> 0]
    /\ inuse = [s \in Slots |-> FALSE]
    /\ ktid = [s \in Slots |-> 0]
    /\ where = [t \in Tids |-> "user"]
    /\ idx = [t \in Tids |-> 0]
    /\ res = [t \in Tids |-> 0]
    /\ handles = [t \in Tids |-> {}]
    /\ stack = [t \in Tids |-> 0]
    /\ stray = FALSE

-----------------------------------------------------------------------------
(* thrd_create *)

CallCreate(t) ==
    /\ At(t, "user")
    /\ Goes(t, "alloc")
    /\ idx' = [idx EXCEPT ![t] = 1]
    /\ UNCHANGED <<kernel, inuse, ktid, res, handles, stack, stray>>

\* Bug: the flag is tested here and set when the thread has been made.
AllocTakeUnset(t) ==
    /\ At(t, "alloc") /\ ~inuse[idx[t]]
    /\ Goes(t, "create")
    /\ UNCHANGED <<kernel, inuse, ktid, idx, res, handles, stack, stray>>

\* One test-and-set of thrd_alloc that finds its entry free.
AllocTake(t) ==
    /\ At(t, "alloc") /\ ~inuse[idx[t]]
    /\ inuse' = [inuse EXCEPT ![idx[t]] = TRUE]
    /\ Goes(t, "create")
    /\ UNCHANGED <<kernel, ktid, idx, res, handles, stack, stray>>

\* Bug: the scan runs over the end of the table.
AllocSkipOver(t) ==
    /\ At(t, "alloc") /\ inuse[idx[t]]
    /\ idx' = [idx EXCEPT ![t] = @ + 1]
    /\ UNCHANGED <<kernel, inuse, ktid, where, res, handles, stack, stray>>

AllocSkip(t) ==
    /\ At(t, "alloc") /\ inuse[idx[t]] /\ idx[t] < THRD_MAX
    /\ idx' = [idx EXCEPT ![t] = @ + 1]
    /\ UNCHANGED <<kernel, inuse, ktid, where, res, handles, stack, stray>>

\* thrd_create returns -ENOMEM.
AllocFull(t) ==
    /\ At(t, "alloc") /\ inuse[idx[t]] /\ idx[t] = THRD_MAX
    /\ Goes(t, "user")
    /\ UNCHANGED <<kernel, inuse, ktid, idx, res, handles, stack, stray>>

\* The system call, its argument words already pushed on the new stack.
SysCreate(t, c) ==
    /\ At(t, "create") /\ Krn!Spawn(c)
    /\ stack' = [stack EXCEPT ![c] = idx[t]]
    /\ res' = [res EXCEPT ![t] = c]
    /\ Goes(t, "created")
    /\ UNCHANGED <<inuse, ktid, idx, handles, stray>>

\* The kernel's own table is full of threads that earlier programs left.
SysCreateFails(t) ==
    /\ At(t, "create")
    /\ Goes(t, "free")
    /\ UNCHANGED <<kernel, inuse, ktid, idx, res, handles, stack, stray>>

\* Bug: the handle is returned without the new thread's tid.
StoreHandleStale(t) ==
    /\ At(t, "created")
    /\ handles' = [handles EXCEPT ![t] = @ \cup {idx[t]}]
    /\ Goes(t, "user")
    /\ UNCHANGED <<kernel, inuse, ktid, idx, res, stack, stray>>

StoreHandle(t) ==
    /\ At(t, "created")
    /\ ktid' = [ktid EXCEPT ![idx[t]] = res[t]]
    /\ handles' = [handles EXCEPT ![t] = @ \cup {idx[t]}]
    /\ Goes(t, "user")
    /\ UNCHANGED <<kernel, inuse, idx, res, stack, stray>>

Free(t) ==
    /\ At(t, "free")
    /\ inuse' = [inuse EXCEPT ![idx[t]] = FALSE]
    /\ Goes(t, "user")
    /\ UNCHANGED <<kernel, ktid, idx, res, handles, stack, stray>>

-----------------------------------------------------------------------------
(* thrd_join *)

CallJoin(t, h) ==
    /\ At(t, "user")
    /\ Goes(t, "join")
    /\ idx' = [idx EXCEPT ![t] = h]
    /\ handles' = [handles EXCEPT ![t] = @ \ {h}]
    /\ UNCHANGED <<kernel, inuse, ktid, res, stack, stray>>

\* The program joins a handle that no thrd_create has filled in, by chance
\* the address of an entry.  Any other address ends at thrd_ok.
CallJoinStray(t, h) ==
    /\ At(t, "user")
    /\ Goes(t, "join")
    /\ idx' = [idx EXCEPT ![t] = h]
    /\ stray' = TRUE
    /\ UNCHANGED <<kernel, inuse, ktid, res, handles, stack>>

SysJoin(t) ==
    /\ At(t, "join") /\ ktid[idx[t]] # 0
    /\ Krn!Join(t, ktid[idx[t]])
    /\ Goes(t, "joining")
    /\ UNCHANGED <<inuse, ktid, idx, res, handles, stack, stray>>

\* The kernel has no such tid any more: -ESRCH, and the entry is left alone.
SysJoinMissing(t) ==
    /\ At(t, "join")
    /\ ktid[idx[t]] # 0 => life[ktid[idx[t]]] = "gone"
    /\ Goes(t, "user")
    /\ UNCHANGED <<kernel, inuse, ktid, idx, res, handles, stack, stray>>

\* thread_join(0) takes a free entry of the kernel's table for a thread.
SysJoinHangs(t) ==
    /\ At(t, "join") /\ ktid[idx[t]] = 0
    /\ Goes(t, "hung")
    /\ UNCHANGED <<kernel, inuse, ktid, idx, res, handles, stack, stray>>

\* Bug: an entry whose thread returned 0 is not freed either.
SysJoinedZero(t) ==
    /\ where[t] = "joining"
    /\ Krn!Retire(t, ktid[idx[t]])
    /\ Goes(t, IF value[ktid[idx[t]]] <= 0 THEN "user" ELSE "free")
    /\ UNCHANGED <<inuse, ktid, idx, res, handles, stack, stray>>

\* The join returns the thread's status; a negative one counts as an error.
SysJoined(t) ==
    /\ where[t] = "joining"
    /\ Krn!Retire(t, ktid[idx[t]])
    /\ Goes(t, IF value[ktid[idx[t]]] < 0 THEN "user" ELSE "free")
    /\ UNCHANGED <<inuse, ktid, idx, res, handles, stack, stray>>

-----------------------------------------------------------------------------
(* The thread function returns to _thread_start_munix, which calls         *)
(* thrd_exit; main returns to crt0, which calls _exit.                     *)

ThreadReturns(t, n) ==
    /\ t # Main /\ where[t] = "user"
    /\ Krn!End(t, n)
    /\ UNCHANGED <<inuse, ktid, where, idx, res, handles, stack, stray>>

MainReturns ==
    /\ where[Main] = "user"
    /\ Krn!Quit(Main)
    /\ UNCHANGED <<inuse, ktid, where, idx, res, handles, stack, stray>>

\* thrd_yield, a tick, or one round of the kernel's wait in a join.
Switch(r, n) ==
    /\ Krn!Switch(r, n)
    /\ UNCHANGED <<inuse, ktid, where, idx, res, handles, stack, stray>>

Library(t) ==
    \/ AllocTake(t) \/ AllocSkip(t) \/ AllocFull(t) \/ SysCreateFails(t)
    \/ \E c \in Tids : SysCreate(t, c)
    \/ StoreHandle(t) \/ Free(t)
    \/ SysJoin(t) \/ SysJoinMissing(t) \/ SysJoinHangs(t) \/ SysJoined(t)

Scheduler == \E r, n \in Tids : Switch(r, n)

AnyClient(t) ==
    \/ CallCreate(t)
    \/ \E h \in handles[t] : CallJoin(t, h)
    \/ \E n \in Tids : ThreadReturns(t, n)

Next == (\E t \in Tids : Library(t) \/ AnyClient(t)) \/ MainReturns \/ Scheduler

Spec == Init /\ [][Next]_uvars

-----------------------------------------------------------------------------
(* Every variable keeps its type; idx stays within the table while an      *)
(* entry is worked on.                                                     *)
TypeOK ==
    /\ life \in [Tids -> {"unborn", "ready", "running", "exited", "gone"}]
    /\ joins \in [Tids -> 0 .. MaxTid]
    /\ value \in [Tids -> Int]
    /\ inuse \in [Slots -> BOOLEAN]
    /\ ktid \in [Slots -> 0 .. MaxTid]
    /\ where \in [Tids -> Places]
    /\ idx \in [Tids -> 0 .. THRD_MAX]
    /\ res \in [Tids -> 0 .. MaxTid]
    /\ handles \in [Tids -> SUBSET Slots]
    /\ stack \in [Tids -> 0 .. THRD_MAX]
    /\ stray \in BOOLEAN
    /\ \A t \in Tids : where[t] # "user" => idx[t] \in Slots

\* t works on entry s in the middle of a call.
Holds(t, s) == where[t] \notin {"user", "alloc", "hung"} /\ idx[t] = s
Alive(t) == life[t] \in {"ready", "running"}

(* No two threads that can run have the same stack, and thrd_create does   *)
(* not push words on a stack that a thread still runs on (threads.c 34-45, *)
(* 54-89, 111-128): an entry is free only after its thread has ended.      *)
StacksApart ==
    /\ \A t, u \in Tids :
          t # u /\ Alive(t) /\ Alive(u) /\ stack[t] # 0 => stack[t] # stack[u]
    /\ \A t, u \in Tids :
          where[t] = "create" /\ Alive(u) => stack[u] # idx[t]

(* A handle denotes the thread that its holder made: entry, stack and tid  *)
(* belong together, nobody else can join it, and it is still to be joined. *)
HandleJoinsOwn ==
    ~stray => \A t \in Tids : \A h \in handles[t] :
        /\ inuse[h] /\ ktid[h] \in Tids
        /\ stack[ktid[h]] = h
        /\ life[ktid[h]] \in {"ready", "running", "exited"}
        /\ \A u \in Tids : ~Holds(u, h) /\ (u # t => h \notin handles[u])

\* The thread of entry s was joined and its status was negative.
NegativeStatus(s) ==
    /\ ktid[s] # 0 /\ life[ktid[s]] = "gone" /\ value[ktid[s]] < 0
    /\ stack[ktid[s]] = s

(* An entry is in use exactly while a call works on it, while a handle to  *)
(* it exists, or - for ever - after a join took the negative status of its *)
(* thread for an error (threads.c 123-126); nothing else is lost or freed. *)
SlotsAccounted ==
    ~stray => \A s \in Slots :
        inuse[s] <=> \/ \E t \in Tids : Holds(t, s) \/ s \in handles[t]
                     \/ NegativeStatus(s)
=============================================================================
