----------------------------- MODULE KernelLists ----------------------------
(***************************************************************************)
(* The kernel's two kinds of lists at the level of their pointers: the     *)
(* ready queue, and the list of threads in every process, each thread      *)
(* having a node for either.  Kernel.tla has the queue as a sequence and   *)
(* leaves the process's list out; here both are the pointers, and the      *)
(* sequences they should spell are kept beside them.                       *)
(*                                                                         *)
(* process_load_path and process_close clear a struct process and with it  *)
(* the head of its list, whether or not threads are still linked to it:    *)
(* the main thread, whose entry of tcb[] is never closed, always is.       *)
(***************************************************************************)
EXTENDS ListHead, FiniteSets, SequencesExt

CONSTANTS LThreads, LProcs      \* entries of tcb[] and pcb[]

ASSUME ListsAssumption == IsFiniteSet(LThreads) /\ 0 \notin LThreads

VARIABLES
    link,       \* the list_head structs
    tst,        \* of each thread: "free", "ready" or "exited"
    tproc,      \* thread->process
    tcur,       \* current_thread, 0 for NULL
    shell,      \* the shell runs, not tcur
    (* history *)
    qseq,       \* the threads the ready queue should hold
    thseq,      \* of each process: the threads its list should hold
    strays,     \* threads linked to a head that was cleared
    dirty       \* a stray has been unlinked

lists == <<link, tst, tproc, tcur, shell, qseq, thseq, strays, dirty>>

Q(t) == <<"queue", t>>              \* &thread->queue
PT(t) == <<"process_threads", t>>   \* &thread->process_threads
READY == <<"ready_queue", 0>>
TH(p) == <<"threads", p>>           \* &process->threads
LNodes == {Q(t) : t \in LThreads} \cup {PT(t) : t \in LThreads}
            \cup {TH(p) : p \in LProcs} \cup {READY}
LBound == 2 * (Cardinality(LThreads) + 1)

ListsInit ==
    /\ link = [n \in LNodes |-> Zeroed]
    /\ tst = [t \in LThreads |-> "free"]
    /\ tproc = [t \in LThreads |-> 0]
    /\ tcur = 0 /\ shell = TRUE
    /\ qseq = <<>> /\ thseq = [p \in LProcs |-> <<>>]
    /\ strays = {} /\ dirty = FALSE

In(s) == {s[i] : i \in DOMAIN s}
Without(s, t) == RemoveAt(s, CHOOSE i \in DOMAIN s : s[i] = t)

\* schedule() and sched_remove on pointers m and queue q, with run states ts:
\* the current thread, if it is ready, is queued, and the first is taken.
schedule_lists(m, q, ts) ==
    LET back == tcur # 0 /\ (tcur # 0 => ts[tcur] = "ready")
        n == IF back THEN list_add_tail(m, Q(tcur), READY) ELSE m
        s == IF back THEN Append(q, tcur) ELSE q
        first == list_first(n, READY)
    IN  /\ s # <<>>
        /\ tcur' = first[2] /\ shell' = FALSE
        /\ link' = list_del_linked(n, first)
        /\ qseq' = Tail(s)

\* thread_create: the pointers with thread t in both lists.
create_lists(m, t, p) == list_add_tail(list_add(m, PT(t), TH(p)), Q(t), READY)
Create(t, p) ==
    /\ tst[t] = "free"
    /\ tst' = [tst EXCEPT ![t] = "ready"]
    /\ tproc' = [tproc EXCEPT ![t] = p]

\* process_load_path clears the entry, process_start creates the main thread
\* and schedules.
ListsStart ==
    /\ shell
    /\ \E p \in LProcs, t \in LThreads :
        /\ Create(t, p)
        /\ thseq' = [thseq EXCEPT ![p] = <<t>>]
        /\ strays' = strays \cup In(thseq[p])
        /\ schedule_lists(create_lists([link EXCEPT ![TH(p)] = Zeroed], t, p),
                          Append(qseq, t), tst')
    /\ UNCHANGED dirty

\* thread_create fails because tcb[] is full; process_start schedules all the
\* same.  (With nothing to schedule it takes the head for a thread: Kernel.)
ListsStartFull ==
    /\ shell
    /\ \A t \in LThreads : tst[t] # "free"
    /\ \E p \in LProcs :
        /\ thseq' = [thseq EXCEPT ![p] = <<>>]
        /\ strays' = strays \cup In(thseq[p])
        /\ schedule_lists([link EXCEPT ![TH(p)] = Zeroed], qseq, tst)
    /\ UNCHANGED <<tst, tproc, dirty>>

\* SYS_thrd_create.
ListsCreate ==
    /\ ~shell
    /\ \E t \in LThreads :
        LET p == tproc[tcur]
        IN  /\ Create(t, p)
            /\ link' = create_lists(link, t, p)
            /\ qseq' = Append(qseq, t)
            /\ thseq' = [thseq EXCEPT ![p] = <<t>> \o @]
    /\ UNCHANGED <<tcur, shell, strays, dirty>>

\* SYS_thrd_yield or a tick.
ListsYield ==
    /\ ~shell
    /\ schedule_lists(link, qseq, tst)
    /\ UNCHANGED <<tst, tproc, thseq, strays, dirty>>

\* SYS_thrd_exit.
ListsThrdExit ==
    /\ ~shell
    /\ tst' = [tst EXCEPT ![tcur] = "exited"]
    /\ schedule_lists(link, qseq, tst')
    /\ UNCHANGED <<tproc, thseq, strays, dirty>>

\* The end of SYS_thrd_join: thread_close unlinks the entry and clears it.
ListsJoined ==
    /\ ~shell
    /\ \E t \in LThreads :
        /\ tst[t] = "exited"
        /\ link' = list_del_linked(list_del_linked(link, PT(t)), Q(t))
        /\ tst' = [tst EXCEPT ![t] = "free"]
        /\ thseq' = IF t \in strays THEN thseq
                    ELSE [thseq EXCEPT ![tproc[t]] = Without(@, t)]
        /\ strays' = strays \ {t}
        /\ dirty' = (dirty \/ t \in strays)
    /\ UNCHANGED <<tproc, tcur, shell, qseq>>

\* process_close: the struct is cleared, and the shell takes over.
process_clear ==
    LET p == tproc[tcur]
    IN  /\ ~shell /\ shell' = TRUE
        /\ link' = [link EXCEPT ![TH(p)] = Zeroed]
        /\ thseq' = [thseq EXCEPT ![p] = <<>>]
        /\ strays' = strays \cup In(thseq[p])
        /\ UNCHANGED <<tproc, tcur, qseq, dirty>>

\* SYS_exit.
ListsProcessExit == process_clear /\ tst' = [tst EXCEPT ![tcur] = "exited"]

\* handle_exception: the killed thread stays current and ready.
ListsKill == process_clear /\ UNCHANGED tst

\* choose_next_thread passes over the first thread of the queue.
ListsSkip ==
    /\ Len(qseq) > 1
    /\ link' = list_rotate_left(link, READY)
    /\ qseq' = Append(Tail(qseq), Head(qseq))
    /\ UNCHANGED <<tst, tproc, tcur, shell, thseq, strays, dirty>>

ListsNext ==
    \/ ListsStart \/ ListsStartFull \/ ListsCreate \/ ListsYield \/ ListsThrdExit
    \/ ListsJoined \/ ListsProcessExit \/ ListsKill \/ ListsSkip

\* Both directions of a list spell the sequence, and its ends are the
\* sequence's.
Spells(h, s, node(_)) ==
    LET fwd == list_for_each_entry(link, h, LBound)
        bwd == list_for_each_entry_prev(link, h, LBound)
    IN  /\ fwd = [i \in 1 .. Len(s) |-> node(s[i])]
        /\ bwd = [i \in 1 .. Len(s) |-> node(s[Len(s) + 1 - i])]
        /\ list_empty(link, h) <=> s = <<>>
        /\ s # <<>> => list_last(link, h) = node(s[Len(s)])

\* The lists are what the kernel takes them for (list.h, scheduler.c:37,
\* process.c:46-60).  The ready queue is always exact, forwards and backwards,
\* and only queued threads are linked to it.  A process's list is exact until
\* a thread that outlived an earlier use of a process entry is closed: its
\* neighbours' pointers are then written although the head they belong to has
\* been cleared and perhaps used again.
ListsExact ==
    /\ Spells(READY, qseq, Q)
    /\ \A t \in LThreads : link[Q(t)] # Zeroed <=> t \in In(qseq)
    /\ ~dirty => /\ \A p \in LProcs : Spells(TH(p), thseq[p], PT)
                 /\ \A t \in LThreads : link[PT(t)] = Zeroed <=> tst[t] = "free"
=============================================================================
