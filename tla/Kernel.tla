------------------------------- MODULE Kernel -------------------------------
(***************************************************************************)
(* The scheduling core of the Munix kernel: the thread table and the ready *)
(* queue (process.c, scheduler.c), the process table and the address space *)
(* loaded in CR3, the timer interrupt and the exception handler            *)
(* (interrupt.c), the thread system calls (syscall_dispatch.c) and the     *)
(* in-kernel shell that loads and starts programs (kshell.c, kernel.c).    *)
(*                                                                         *)
(* There is one CPU.  Kernel code entered by an interrupt gate runs with   *)
(* interrupts off, so a system call, an IRQ or an exception is one action; *)
(* only the boot shell, which kernel_main starts after intr_setenabled(1), *)
(* runs kernel code with interrupts on.                                    *)
(***************************************************************************)
EXTENDS Integers, Sequences, FiniteSets

CONSTANTS
    THREAD_MAX,     \* entries of tcb[]
    PROCESS_MAX,    \* entries of pcb[]
    Status,         \* exit statuses programs use
    Env,            \* what programs and devices may do beyond EnvKinds' comment
    MaxTid,         \* bound: tids handed out
    MaxPid          \* bound: pids handed out

(***************************************************************************)
(* With Env = {} every program keeps the fork-join discipline of the       *)
(* programs in src/process: it joins each of its own threads at most once, *)
(* calls exit() when its other threads are done, never ends its last       *)
(* thread with thrd_exit(), never faults, has a well-formed ELF file, and  *)
(* the first timer tick finds the boot shell waiting at its prompt.        *)
(***************************************************************************)
EnvKinds ==
    { "fault",      \* a user thread raises a CPU exception (divzero.c)
      "orphan",     \* exit() while sibling threads live (philosophers -e)
      "rejoin",     \* thrd_join of any tid: twice, foreign, own, or 0
      "lastexit",   \* the last thread of a program calls thrd_exit
      "badload",    \* process_load_path fails after it has set CR3
      "earlytick" } \* the first tick hits the boot shell starting a program

ASSUME KernelAssumption ==
    /\ THREAD_MAX \in Nat \ {0}
    /\ PROCESS_MAX \in Nat \ {0, 1}
    /\ Status \subseteq Int /\ 0 \in Status
    /\ Env \subseteq EnvKinds
    /\ MaxTid \in Nat /\ MaxPid \in Nat

Slots == 0 .. THREAD_MAX - 1        \* indices of tcb[]
Procs == 0 .. PROCESS_MAX - 1       \* indices of pcb[]
NoThread == -1                      \* a NULL struct thread *
NoProc == -1                        \* a NULL struct process *

VARIABLES
    (* struct thread, field by field; tid 0 marks a free entry *)
    tid, process, runstate, exit_status,
    saved,          \* the mode that restoring saved_state resumes in
    temp,           \* thread_join's local on the thread's kernel stack
    ready_queue,    \* thread slots, head first
    current_thread, current_process,
    pid,            \* struct process: pid 0 marks a free entry
    loaded,         \* entries of pcb[] whose addrspc owns page tables
    noentry,        \* pids of processes whose start_addr stayed 0
    cr3,            \* pid whose page tables are in CR3, 0 for the kernel's
    mode,           \* what the CPU executes, see Modes
    shp,            \* kshell_read_exec's local p
    shell_if,       \* the shell runs with interrupts enabled
    next_tid, next_pid,
    (* history, read by no action except the Env guards *)
    owner,          \* pid of the process that created the thread
    asked,          \* tid passed to the thread_join in progress
    passed          \* status a tid passed to thrd_exit

tcbvars == <<tid, process, owner, exit_status, temp, asked>>
pcbvars == <<pid, loaded, noentry, cr3, shp, next_pid>>
vars == <<tid, process, runstate, exit_status, saved, temp, ready_queue,
          current_thread, current_process, pid, loaded, noentry, cr3, mode,
          shp, shell_if, next_tid, next_pid, owner, asked, passed>>

(***************************************************************************)
(* "prompt", "loaded" and "resumed" are places in kshell_read_exec: before *)
(* process_alloc, before process_start and after process_start returned.   *)
(* "join" is the head of thread_join's loop.  "undefined" is reached when  *)
(* the kernel takes the list head for a thread, or clears the page tables  *)
(* it runs on; nothing is said of what happens then.                       *)
(***************************************************************************)
Modes == {"prompt", "loaded", "resumed", "user", "join", "undefined"}
Contexts == {"none", "user", "join", "resumed"}
Runstates == {"NEW", "READY", "EXITED"}
Running == mode \in {"user", "join"}
Queued == {ready_queue[i] : i \in DOMAIN ready_queue}
Live(s) == tid[s] # 0 /\ runstate[s] # "EXITED"

Init ==
    /\ tid = [s \in Slots |-> 0]
    /\ process = [s \in Slots |-> NoProc]
    /\ runstate = [s \in Slots |-> "NEW"]
    /\ exit_status = [s \in Slots |-> 0]
    /\ saved = [s \in Slots |-> "none"]
    /\ temp = [s \in Slots |-> NoThread]
    /\ ready_queue = <<>>
    /\ current_thread = NoThread /\ current_process = NoProc
    /\ pid = [p \in Procs |-> 0]
    /\ loaded = {} /\ noentry = {}
    /\ cr3 = 0
    /\ mode = "prompt" /\ shp = NoProc /\ shell_if = TRUE
    /\ next_tid = 1 /\ next_pid = 1
    /\ owner = [s \in Slots |-> 0]
    /\ asked = [s \in Slots |-> 0]
    /\ passed = [t \in 1 .. MaxTid |-> 0]

-----------------------------------------------------------------------------
(* Operators marked "Bug:" are the mistakes the properties are tested with;  *)
(* no action uses them.                                                     *)

(* The scheduler. *)

\* Thread s is the first entry of tcb[] that holds tid t.
tcb_first(s, t) == tid[s] = t /\ \A r \in Slots : r < s => tid[r] # t

\* Bug: an exited thread's entry is taken for free before it is joined.
thread_alloc_exited(s) ==
    LET free(r) == tid[r] = 0 \/ runstate[r] = "EXITED"
    IN  free(s) /\ \A r \in Slots : r < s => ~free(r)
thread_alloc(s) == tcb_first(s, 0)

\* Bug: list_add for list_add_tail.
sched_add_front(q, s) == <<s>> \o q
sched_add(q, s) == Append(q, s)

\* Bug: list_last_entry for list_first_entry.
choose_last_thread(rs, q) ==
    IF q = <<>> THEN q ELSE <<q[Len(q)]>> \o SubSeq(q, 1, Len(q) - 1)

\* The queue with its first runnable thread at the head.  A queue without a
\* runnable thread would be rotated forever.
choose_next_thread(rs, q) ==
    IF q = <<>> \/ rs[Head(q)] # "EXITED" THEN q
    ELSE LET Runnable == {i \in DOMAIN q : rs[q[i]] # "EXITED"}
         IN  IF Runnable = {} THEN <<>>
             ELSE LET k == CHOOSE i \in Runnable : \A j \in Runnable : i <= j
                  IN  SubSeq(q, k, Len(q)) \o SubSeq(q, 1, k - 1)

\* Bug: the outgoing context is not saved.
cpu_task_unsaved(ctx) == saved
cpu_task_save(ctx) ==
    IF current_thread = NoThread THEN saved
    ELSE [saved EXCEPT ![current_thread] = ctx]

\* Leave the current thread, whose saved state resumes in ctx, for the head
\* of the queue.  rs is the run state of the threads on entry.
thread_switch(rs, q, ctx) ==
    LET next == Head(q)
        sv == cpu_task_save(ctx)
    IN  /\ ready_queue' = Tail(q)
        /\ saved' = sv
        /\ runstate' = [rs EXCEPT ![next] = "READY"]
        /\ current_thread' = next
        /\ current_process' = process'[next]
        /\ mode' = IF rs[next] = "NEW" THEN "user" ELSE sv[next]

\* Bug: the run state is not tested, or the thread is never put back.
goes_back_always(rs) == current_thread # NoThread
goes_back_never(rs) == FALSE
\* schedule() puts the current thread back at the end of the queue.
goes_back(rs) == current_thread # NoThread /\ rs[current_thread] = "READY"

\* With nothing to run, list_first_entry turns the initialised but empty list
\* head into a thread pointer that is not NULL.
schedule(rs, q, ctx) ==
    LET rq == choose_next_thread(rs, IF goes_back(rs)
                                     THEN sched_add(q, current_thread) ELSE q)
    IN  IF rq = <<>>
        THEN /\ mode' = "undefined"
             /\ runstate' = rs /\ ready_queue' = q
             /\ UNCHANGED <<saved, current_thread, current_process>>
        ELSE thread_switch(rs, rq, ctx)

-----------------------------------------------------------------------------
(* Threads and processes. *)

\* Bug: next_tid is not advanced.
tid_reused(n) == n
tid_after(n) == n + 1

\* thread_create up to sched_add: the entry's fields.
thread_fill(s, p) ==
    /\ next_tid <= MaxTid
    /\ tid' = [tid EXCEPT ![s] = next_tid]
    /\ process' = [process EXCEPT ![s] = p]
    /\ owner' = [owner EXCEPT ![s] = pid[p]]
    /\ next_tid' = tid_after(next_tid)
    /\ UNCHANGED <<exit_status, temp, asked>>

\* Bug: the entry is not cleared.
process_close_uncleared(p, cp) ==
    /\ loaded' = loaded \ {p}
    /\ cr3' = 0
    /\ current_process' = IF p = cp THEN NoProc ELSE cp
    /\ UNCHANGED <<pid, noentry, shp, next_pid>>

\* process_close, where current_process = cp: the kernel's page tables go back
\* into CR3 before the process's own are freed.
process_close(p, cp) ==
    /\ pid' = [pid EXCEPT ![p] = 0]
    /\ loaded' = loaded \ {p}
    /\ cr3' = 0
    /\ current_process' = IF p = cp THEN NoProc ELSE cp
    /\ UNCHANGED <<noentry, shp, next_pid>>

\* Bug: kernel_noreturn returns to the interrupted thread.
kernel_return == UNCHANGED mode /\ shell_if' = FALSE

\* kernel_noreturn: a fresh shell on the kernel stack.  Its callers were
\* entered through interrupt gates, so interrupts stay off.
kernel_noreturn ==
    /\ mode' = "prompt"
    /\ shell_if' = FALSE

\* process_kill: process_close has cleared current_process by the time it is
\* compared, so process_kill itself returns.
process_kill(p) == process_close(p, p)

\* handle_exception: kill the current process cp and drop to the shell.
handle_exception(cp) == process_kill(cp) /\ kernel_noreturn

-----------------------------------------------------------------------------
(* The shell. *)

\* Bug: the pool of page tables is not limited.
addrspc_unlimited == TRUE
\* The pool of PHYSPAGES_MAX page tables serves the kernel and one process,
\* so addrspc_init fails while another process owns tables.
addrspc_fits == loaded = {}

\* Process p is the first free entry of pcb[].
process_alloc(p) == pid[p] = 0 /\ \A r \in Procs : r < p => pid[r] # 0

\* process_load_path succeeds; or fails after it has put the new page tables
\* in CR3, and takes every mapping, the kernel's too, out of the tables the
\* CPU is using; or fails in addrspc_init, before CR3 and the entry point.
process_load_path(p) ==
    /\ pid' = [pid EXCEPT ![p] = next_pid]
    /\ next_pid' = next_pid + 1
    /\ \/ /\ addrspc_fits
          /\ loaded' = loaded \cup {p}
          /\ cr3' = next_pid
          /\ mode' = "loaded"
          /\ UNCHANGED noentry
       \/ /\ "badload" \in Env
          /\ addrspc_fits
          /\ cr3' = next_pid
          /\ mode' = "undefined"
          /\ UNCHANGED <<loaded, noentry>>
       \/ /\ ~addrspc_fits
          /\ noentry' = noentry \cup {next_pid}
          /\ mode' = "loaded"
          /\ UNCHANGED <<loaded, cr3>>

\* kshell_read_exec finds an executable.  The shell reports an error of
\* process_load_path and goes on.
ShellLoad ==
    /\ mode = "prompt"
    /\ next_pid <= MaxPid /\ next_tid <= MaxTid
    /\ \E p \in Procs :
        /\ process_alloc(p)
        /\ process_load_path(p)
        /\ shp' = p
    /\ UNCHANGED <<tcbvars, runstate, saved, ready_queue, next_tid,
                   current_thread, current_process, shell_if, passed>>

\* process_start: push_args writes to the user stack, which the tables of any
\* process map; the main thread is created and queued, then schedule().  A
\* failing thread_create is ignored.
ProcessStart ==
    /\ mode = "loaded"
    /\ cr3 # 0
    /\ \/ \E s \in Slots :
            /\ thread_alloc(s)
            /\ thread_fill(s, shp)
            /\ schedule([runstate EXCEPT ![s] = "NEW"],
                        sched_add(ready_queue, s), "resumed")
       \/ /\ \A s \in Slots : tid[s] # 0
          /\ UNCHANGED <<tcbvars, next_tid>>
          /\ schedule(runstate, ready_queue, "resumed")
    /\ shell_if' = FALSE
    /\ UNCHANGED <<pcbvars, passed>>

\* process_start of a process whose address space could not be made, with the
\* kernel's tables in CR3: push_args faults on the unmapped user stack and the
\* exception handler kills the process.
StartFaults ==
    /\ mode = "loaded"
    /\ cr3 = 0
    /\ handle_exception(shp)
    /\ UNCHANGED <<tcbvars, runstate, saved, ready_queue, next_tid,
                   current_thread, passed>>

\* A killed thread left as current_thread holds the shell's context; when it
\* is scheduled, process_start returns to the shell, which closes p.
ShellResume ==
    /\ mode = "resumed"
    /\ process_close(shp, current_process)
    /\ kernel_noreturn
    /\ UNCHANGED <<tcbvars, runstate, saved, ready_queue, next_tid,
                   current_thread, passed>>

\* The first timer tick finds the boot shell.  There is no current thread and
\* the list head is still NULL, so schedule() falls through to a fresh shell.
BootTick ==
    /\ shell_if
    /\ mode = "prompt" \/ (mode = "loaded" /\ "earlytick" \in Env)
    /\ kernel_noreturn
    /\ UNCHANGED <<tcbvars, runstate, saved, ready_queue, next_tid,
                   current_thread, current_process, pcbvars, passed>>

\* The first tick finds the boot shell inside process_start: between the
\* entry's fields and sched_add, or where the initialised queue is empty
\* (inside list_add_tail, and from sched_remove to the jump to user mode).
BootTickInStart ==
    /\ shell_if
    /\ mode = "loaded" /\ "earlytick" \in Env
    /\ \E s \in Slots :
        /\ thread_alloc(s)
        /\ thread_fill(s, shp)
        /\ runstate' = [runstate EXCEPT ![s] = "NEW"]
    /\ current_process' = shp
    /\ \/ kernel_noreturn
       \/ mode' = "undefined" /\ shell_if' = FALSE
    /\ UNCHANGED <<saved, ready_queue, current_thread, pcbvars, passed>>

-----------------------------------------------------------------------------
(* Interrupts and system calls of the running thread. *)

\* User code executes instructions: without an entry point the thread starts
\* at address 0, which user mode may not read, and can only fault.
Executes == mode = "user" /\ owner[current_thread] \notin noentry

thread_preempt ==
    schedule([runstate EXCEPT ![current_thread] = "READY"], ready_queue, "user")

\* thread_yield of a thread that goes on in ctx.
thread_yield(ctx) ==
    schedule([runstate EXCEPT ![current_thread] = "READY"], ready_queue, ctx)

\* IRQ_TIMER.
Tick ==
    /\ mode = "user"
    /\ UNCHANGED <<tcbvars, next_tid, shell_if, pcbvars, passed>>
    /\ thread_preempt

\* SYS_thrd_yield.
ThrdYield ==
    /\ Executes
    /\ UNCHANGED <<tcbvars, next_tid, shell_if, pcbvars, passed>>
    /\ thread_yield("user")

\* SYS_thrd_create: thread_create.  With no free entry the call returns
\* -ENOSYS and changes nothing.
ThrdCreate ==
    /\ Executes
    /\ \E s \in Slots :
        /\ thread_alloc(s)
        /\ thread_fill(s, current_process)
        /\ runstate' = [runstate EXCEPT ![s] = "NEW"]
        /\ ready_queue' = sched_add(ready_queue, s)
    /\ UNCHANGED <<saved, current_thread, current_process, mode, shell_if,
                   pcbvars, passed>>

\* SYS_thrd_exit: thread_exit.
ThrdExit ==
    /\ Executes
    /\ \/ "lastexit" \in Env
       \/ \E r \in Slots \ {current_thread} :
            Live(r) /\ owner[r] = owner[current_thread]
    /\ \E st \in Status :
        /\ exit_status' = [exit_status EXCEPT ![current_thread] = st]
        /\ passed' = [passed EXCEPT ![tid[current_thread]] = st]
    /\ UNCHANGED <<tid, process, owner, temp, asked, next_tid,
                   shell_if, pcbvars>>
    /\ schedule([runstate EXCEPT ![current_thread] = "EXITED"], ready_queue,
                "none")

\* SYS_thrd_join: thread_join finds the entry.  A tid that no entry holds
\* returns -ESRCH and changes nothing.
ThrdJoin ==
    /\ Executes
    /\ \E s \in Slots, t \in 0 .. MaxTid :
        /\ tcb_first(s, t)
        /\ \/ "rejoin" \in Env
           \/ /\ t # 0 /\ s # current_thread
              /\ owner[s] = owner[current_thread]
              /\ \A r \in Slots : temp[r] # s
        /\ temp' = [temp EXCEPT ![current_thread] = s]
        /\ asked' = [asked EXCEPT ![current_thread] = t]
    /\ mode' = "join"
    /\ UNCHANGED <<tid, process, owner, exit_status, runstate, saved,
                   ready_queue, next_tid, current_thread, current_process,
                   shell_if, pcbvars, passed>>

\* thread_close: unlink the entry and clear it.
thread_close(s) ==
    /\ ready_queue' = IF s \in Queued
                      THEN SelectSeq(ready_queue, LAMBDA x : x # s)
                      ELSE ready_queue
    /\ tid' = [tid EXCEPT ![s] = 0]
    /\ process' = [process EXCEPT ![s] = NoProc]
    /\ owner' = [owner EXCEPT ![s] = 0]
    /\ runstate' = [runstate EXCEPT ![s] = "NEW"]
    /\ exit_status' = [exit_status EXCEPT ![s] = 0]
    /\ saved' = [saved EXCEPT ![s] = "none"]

\* Bug: the loop waits for a cleared entry, or does not wait.
join_waits_clear(s) == runstate[s] = "NEW"
join_no_wait(s) == TRUE
\* The condition that ends thread_join's loop.
join_done(s) == runstate[s] = "EXITED"

\* thread_join's loop found the entry EXITED: close it and return.
JoinReap ==
    /\ mode = "join"
    /\ join_done(temp[current_thread])
    /\ thread_close(temp[current_thread])
    /\ temp' = [temp EXCEPT ![current_thread] = NoThread,
                            ![temp[current_thread]] = NoThread]
    /\ asked' = [asked EXCEPT ![current_thread] = 0,
                              ![temp[current_thread]] = 0]
    /\ mode' = "user"
    /\ UNCHANGED <<next_tid, current_thread, current_process,
                   shell_if, pcbvars, passed>>

\* thread_join's loop found it in another state: thread_yield.
JoinYield ==
    /\ mode = "join"
    /\ ~join_done(temp[current_thread])
    /\ UNCHANGED <<tcbvars, next_tid, shell_if, pcbvars, passed>>
    /\ thread_yield("join")

\* SYS_exit: process_exit.  The other threads of the process stay queued.
ProcessExit ==
    /\ Executes
    /\ \/ "orphan" \in Env
       \/ \A r \in Slots \ {current_thread} :
            Live(r) => owner[r] # owner[current_thread]
    /\ process_close(current_process, current_process)
    /\ runstate' = [runstate EXCEPT ![current_thread] = "EXITED"]
    /\ kernel_noreturn
    /\ UNCHANGED <<tcbvars, saved, ready_queue, next_tid,
                   current_thread, passed>>

\* A CPU exception in user mode.  The thread keeps its run state.
Fault ==
    /\ mode = "user"
    /\ Executes => "fault" \in Env
    /\ handle_exception(current_process)
    /\ UNCHANGED <<tcbvars, runstate, saved, ready_queue, next_tid,
                   current_thread, passed>>

-----------------------------------------------------------------------------
Next ==
    \/ ShellLoad \/ ProcessStart \/ StartFaults \/ ShellResume
    \/ BootTick \/ BootTickInStart
    \/ Tick \/ ThrdYield \/ ThrdCreate \/ ThrdExit
    \/ ThrdJoin \/ JoinReap \/ JoinYield
    \/ ProcessExit \/ Fault

Spec == Init /\ [][Next]_vars

(***************************************************************************)
(* The PIT keeps raising IRQ 0 and user mode runs with interrupts enabled, *)
(* so a thread cannot keep the CPU: Tick is fair.  The rest of the kernel  *)
(* code just runs on.  Nothing makes a program issue a system call.        *)
(***************************************************************************)
Fairness == WF_vars(Tick) /\ WF_vars(JoinReap) /\ WF_vars(JoinYield)
            /\ WF_vars(ShellResume) /\ WF_vars(ProcessStart)
            /\ WF_vars(StartFaults)
FairSpec == Spec /\ Fairness

-----------------------------------------------------------------------------
(* Properties. *)

\* Every variable has its type.
TypeOK ==
    /\ tid \in [Slots -> 0 .. MaxTid]
    /\ process \in [Slots -> Procs \cup {NoProc}]
    /\ runstate \in [Slots -> Runstates]
    /\ exit_status \in [Slots -> Status]
    /\ saved \in [Slots -> Contexts]
    /\ temp \in [Slots -> Slots \cup {NoThread}]
    /\ ready_queue \in Seq(Slots)
    /\ current_thread \in Slots \cup {NoThread}
    /\ current_process \in Procs \cup {NoProc}
    /\ pid \in [Procs -> 0 .. MaxPid]
    /\ loaded \subseteq Procs
    /\ noentry \subseteq 1 .. MaxPid
    /\ cr3 \in 0 .. MaxPid
    /\ mode \in Modes
    /\ shp \in Procs \cup {NoProc}
    /\ shell_if \in BOOLEAN
    /\ next_tid \in 1 .. MaxTid + 1
    /\ next_pid \in 1 .. MaxPid + 1
    /\ owner \in [Slots -> 0 .. MaxPid]
    /\ asked \in [Slots -> 0 .. MaxTid]
    /\ passed \in [1 .. MaxTid -> Status]

\* The ready queue holds no thread twice, never the current thread and never
\* a free or exited entry, whatever programs do: list_add_tail and list_del
\* on t->queue are only ever called on unlinked and linked entries.
QueueSound ==
    /\ \A i, j \in DOMAIN ready_queue :
            ready_queue[i] = ready_queue[j] => i = j
    /\ \A s \in Queued : Live(s) /\ s # current_thread

\* The CPU runs user code only for a live entry of tcb[] in state READY, and
\* current_process is that thread's process.
RunningSound ==
    Running => /\ current_thread # NoThread
               /\ tid[current_thread] # 0
               /\ runstate[current_thread] = "READY"
               /\ current_process = process[current_thread]

\* No two entries of tcb[] hold the same tid, and no tid is handed out twice.
TidsUnique ==
    \A r, s \in Slots : tid[s] # 0 =>
        /\ tid[s] < next_tid
        /\ r # s => tid[r] # tid[s]

\* Whatever fails, process_alloc finds a free pcb entry for the shell, which
\* uses the result without testing it.
ProcessAllocSucceeds == mode = "prompt" => \E p \in Procs : pid[p] = 0

\* Until a load fails half-way, CR3 holds the kernel's page tables or those of
\* a process that is still open and owns them; user code does not run on the
\* kernel's; at most one process owns page tables.
Cr3Open ==
    /\ Running => cr3 # 0
    /\ mode # "undefined" /\ cr3 # 0 => \E p \in loaded : pid[p] = cr3
    /\ \A p, r \in loaded : p = r /\ pid[p] # 0

Ahead(q, s, t) == \E i, j \in DOMAIN q : i < j /\ q[i] = s /\ q[j] = t
\* No thread, old or new, gets ahead of one that is already waiting in the
\* ready queue.
FifoOrder ==
    \A s \in Queued, t \in Slots :
        ~Ahead(ready_queue, t, s) => ~Ahead(ready_queue', t, s)
NoOvertaking == [][FifoOrder]_vars

\* No thread is lost: each one that can run is queued or current.
NoLostThread == \A s \in Slots : Live(s) => s \in Queued \cup {current_thread}

\* While programs keep the fork-join discipline, a thread runs on the page
\* tables of the process that created it, and its process pointer still
\* leads to that process.
OwnAddressSpace ==
    Running => /\ cr3 = owner[current_thread]
               /\ cr3 = pid[process[current_thread]]

\* The join of a disciplined program closes the entry of the thread it was
\* asked for, and its result is the status that thread passed to thrd_exit.
JoinResult ==
    mode = "join" /\ mode' = "user" /\ current_thread' = current_thread =>
        LET s == temp[current_thread]
        IN  /\ tid[s] = asked[current_thread]
            /\ exit_status[s] = passed[asked[current_thread]]
            /\ tid'[s] = 0
JoinReapsAsked == [][JoinResult]_vars

\* When a disciplined program gives the CPU back to the shell, nothing of it
\* is left to run and its process entry is free.
PromptIdle ==
    mode = "prompt" => /\ ready_queue = <<>>
                       /\ \A p \in Procs : pid[p] = 0
                       /\ \A s \in Slots : ~Live(s)

\* While programs are disciplined, the scheduler finds its queue empty only
\* when every entry of tcb[] is held by an exited thread nobody closed.
UndefinedOnlyWhenFull ==
    mode = "undefined" =>
        \A s \in Slots : tid[s] # 0 /\ runstate[s] = "EXITED"

\* Every queued thread runs, or the shell gets the CPU: timer preemption
\* leaves no thread waiting behind the others.
QueuedRuns ==
    \A s \in Slots :
        s \in Queued ~> current_thread = s \/ mode \in {"prompt", "undefined"}

\* A join whose thread has exited returns, or the shell gets the CPU.
JoinReturns ==
    \A s \in Slots :
        (temp[s] # NoThread /\ Live(s) /\ runstate[temp[s]] = "EXITED")
            ~> (temp[s] = NoThread \/ mode \in {"prompt", "undefined"})

-----------------------------------------------------------------------------
(* What the code's own comments say and the kernel does not keep. *)

\* list.h:207: list_entry is never applied to the free-floating head of the
\* ready queue.
NeverListHead == mode # "undefined"

\* scheduler.c:77: schedule() puts a thread back in the queue only if it is
\* running.
OnlyRunningRequeued ==
    [][\A s \in Queued' \ Queued : tid'[s] # tid[s] \/ Running]_vars

\* philosophers.c:182: exit() ends the program, so none of its threads is
\* left to run when the shell is back.
ExitEndsThreads == mode = "prompt" => ready_queue = <<>>
=============================================================================
