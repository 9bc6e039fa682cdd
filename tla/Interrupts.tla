----------------------------- MODULE Interrupts -----------------------------
(***************************************************************************)
(* The way from a device or an instruction to the kernel and back: the     *)
(* segment and interrupt tables (x86_seg.c, cpu_interrupt.c), their set-up *)
(* in the order of kernel_main, the dispatch of interrupts (interrupt.c)   *)
(* and the return to user code.  What Kernel.tla takes as one action, a    *)
(* tick, is here the entry, the calls of the handler and the return, with  *)
(* the handler's rest left on the stack of a thread that is switched away. *)
(* Threads are abstract: the scheduler picks any that can run.             *)
(*                                                                         *)
(* isr_common_x86 loads the index KSEG_KERNEL_DATA where a selector is     *)
(* expected, which selects the null descriptor.  The reference emulator    *)
(* lets the kernel use it; a CPU that checks segments would not.           *)
(***************************************************************************)
EXTENDS Chips, Sequences

CONSTANTS IThreads      \* threads
ASSUME IThreadsAssumption == 0 \notin IThreads

VARIABLES
    bstage,     \* how far kernel_main has come
    gdt,        \* of each index in use: the descriptor's privilege level
    task,       \* index in the task register
    idt,        \* of each vector with a gate: the gate's privilege level
    pics, pit,  \* the chips
    iflag,      \* interrupts are enabled
    cpu,        \* "boot", "shell", "user", "handler" or "reset"
    ds,         \* selector in DS and ES
    esp0,       \* the thread whose kernel stack the TSS names
    icur,       \* current thread, 0 for none
    ist,        \* of each thread: "none", "new", "saved"
    todo,       \* calls the running handler has still to make
    kont,       \* of each saved thread: todo and the saved ds of its handler
    live,       \* the shell runs and the current thread, whose process was
                \* killed, is still ready
    frame,      \* what the running handler interrupted: cpu, ds, interrupt flag
    kills       \* history: why the kernel dropped to a shell

interrupts == <<bstage, gdt, task, idt, pics, pit, iflag, cpu, ds, esp0, icur, ist, todo,
                kont, live, frame, kills>>
tables == <<bstage, gdt, task, idt, pit>>

PL_KERNEL == 0
PL_USER == 3
KSEG_KERNEL_CODE == 1
KSEG_KERNEL_DATA == 2
KSEG_USER_CODE == 3
KSEG_USER_DATA == 4
KSEG_TSS == 5
X86_SEGSEL_INIT(idx, rpl) == idx * 8 + rpl
X86_SEGSEL_IDX(sel) == sel \div 8
IVEC_IRQ_0 == 32
IVEC_SYSCALL == 48
IVEC_USER_START == 32

UserData == X86_SEGSEL_INIT(KSEG_USER_DATA, PL_USER)

\* A table with an entry set.
With(table, idx, dpl) == [k \in DOMAIN table \cup {idx} |-> IF k = idx THEN dpl ELSE table[k]]

kernel_gdt == [idx \in KSEG_KERNEL_CODE .. KSEG_USER_DATA |->
                 IF idx \in {KSEG_USER_CODE, KSEG_USER_DATA} THEN PL_USER ELSE PL_KERNEL]

\* HANDLERS[]: the vectors with a macro-generated service routine.
HANDLERS == {0, 6, 8, 10, 11, 12, 13, 14, IVEC_IRQ_0 + IRQ_TIMER}

InterruptsInit ==
    /\ bstage = "start" /\ cpu = "boot" /\ iflag = FALSE
    /\ gdt = <<>> /\ task = 0 /\ idt = <<>>
    /\ pics = [master |-> PicAtBoot(8), slave |-> PicAtBoot(112)] /\ pit = PitAtBoot
    /\ ds = 0 /\ esp0 = 0 /\ icur = 0
    /\ ist = [t \in IThreads |-> "none"]
    /\ kont = [t \in IThreads |-> [todo |-> <<>>, ds |-> 0]]
    /\ todo = <<>> /\ live = FALSE /\ frame = [cpu |-> "boot", ds |-> 0, iflag |-> FALSE]
    /\ kills = {}

-----------------------------------------------------------------------------
(* kernel_main's set-up, in its order.  Devices may raise their lines all    *)
(* the while.                                                               *)

later == <<iflag, cpu, esp0, icur, ist, todo, kont, live, frame, kills>>

init_gdt ==
    /\ bstage = "start" /\ bstage' = "gdt"
    /\ gdt' = kernel_gdt
    /\ ds' = X86_SEGSEL_INIT(KSEG_KERNEL_DATA, PL_KERNEL)
    /\ UNCHANGED <<task, idt, pics, pit, later>>

x86_idt_add_isr(table, vec, dpl) == With(table, vec, dpl)

x86_init_idt ==
    /\ bstage = "gdt" /\ bstage' = "idt"
    /\ idt' = x86_idt_add_isr([v \in HANDLERS |-> PL_KERNEL], IVEC_SYSCALL, PL_USER)
    /\ UNCHANGED <<gdt, task, pics, pit, ds, later>>

init_tss ==
    /\ bstage = "idt" /\ bstage' = "tss"
    /\ gdt' = With(gdt, KSEG_TSS, PL_KERNEL)
    /\ task' = X86_SEGSEL_IDX(X86_SEGSEL_INIT(KSEG_TSS, PL_KERNEL))
    /\ UNCHANGED <<idt, pics, pit, ds, later>>

\* The mask is set to block: all but the timer.
init_int_controller ==
    /\ bstage = "tss" /\ bstage' = "pic"
    /\ pics' = pic_set_mask(pic_init(pics, IVEC_IRQ_0), 65535 - 2^IRQ_TIMER)
    /\ UNCHANGED <<gdt, task, idt, pit, ds, later>>

init_timer_interrupt ==
    /\ bstage = "pic" /\ bstage' = "timer"
    /\ pit' = pit_set_irq_freq(pit, PIT_MODE_SQUARE_WAVE, 1000)
    /\ UNCHANGED <<gdt, task, idt, pics, ds, later>>

\* intr_setenabled(1), and the boot shell runs.
BootDone ==
    /\ bstage = "timer" /\ bstage' = "run"
    /\ iflag' = TRUE /\ cpu' = "shell"
    /\ UNCHANGED <<gdt, task, idt, pics, pit, ds, esp0, icur, ist, todo, kont, live, frame, kills>>

RaiseLine(irq) ==
    /\ pics' = PicRaise(pics, irq)
    /\ pics' # pics
    /\ UNCHANGED <<tables, ds, later>>

-----------------------------------------------------------------------------
(* Entry.  A handler is the sequence of the calls it makes. *)

Call(name) == <<name, 0>>
Eoi(irq) == <<"eoi", irq>>

\* Bug: the end of interrupt is sent when thread_preempt returns.
handle_irq_late(irq) ==
    IF irq = IRQ_TIMER THEN <<Call("preempt"), Eoi(irq)>> ELSE <<Eoi(irq)>>
\* handle_irq: the calls it makes.
handle_irq(irq) ==
    IF irq = IRQ_TIMER THEN <<Eoi(irq), Call("preempt")>> ELSE <<Eoi(irq)>>

\* interrupt_dispatch: exceptions, IRQs; other vectors are ignored.
interrupt_dispatch(vec) ==
    IF vec < IVEC_USER_START THEN <<Call("exception")>>
    ELSE IF IVEC_IRQ_0 <= vec /\ vec < IVEC_IRQ_0 + 16 THEN handle_irq(vec - IVEC_IRQ_0)
    ELSE <<>>

\* External: the gate the CPU goes through for vec: a missing gate raises #NP
\* (11), a gate closed to an INT instruction #GP (13), and a missing gate for
\* those #DF (8); -1 is a reset.
Gate(vec, soft) ==
    LET first == IF vec \notin DOMAIN idt THEN 11
                 ELSE IF soft /\ cpu = "user" /\ idt[vec] # PL_USER THEN 13 ELSE vec
    IN  IF first \in DOMAIN idt THEN first ELSE IF 8 \in DOMAIN idt THEN 8 ELSE -1

\* The CPU and isr_common_x86 enter the kernel; why is kept for kills.
Enter(vec, soft, why) ==
    LET g == Gate(vec, soft)
        lost == g = -1 \/ (cpu = "user" /\ task # KSEG_TSS)
    IN  /\ cpu' = IF lost THEN "reset" ELSE "handler"
        /\ iflag' = FALSE
        /\ frame' = [cpu |-> cpu, ds |-> ds, iflag |-> iflag]
        /\ ds' = KSEG_KERNEL_DATA
        /\ todo' = interrupt_dispatch(g)
        /\ kills' = IF g < IVEC_USER_START THEN kills \cup {why} ELSE kills

Takes == iflag /\ cpu \in {"user", "shell"}

\* External: the line a controller is asked through, and the pair of
\* controllers once the CPU has taken irq.
Offered(irq) ==
    /\ PicOffers(pics.master, IF irq < IRQ_SLAVE_START THEN irq ELSE IRQ_CASCADE)
    /\ irq >= IRQ_SLAVE_START => PicOffers(pics.slave, irq - IRQ_SLAVE_START)
Taken(irq) ==
    IF irq < IRQ_SLAVE_START THEN [pics EXCEPT !.master = PicTake(@, irq)]
    ELSE [master |-> PicTake(pics.master, IRQ_CASCADE),
          slave |-> PicTake(pics.slave, irq - IRQ_SLAVE_START)]
Vector(irq) == IF irq < IRQ_SLAVE_START THEN pics.master.base + irq
               ELSE pics.slave.base + irq - IRQ_SLAVE_START

HardwareInterrupt(irq) ==
    /\ Takes
    /\ Offered(irq)
    /\ pics' = Taken(irq)
    /\ Enter(Vector(irq), FALSE, "irq")
    /\ UNCHANGED <<tables, esp0, icur, ist, kont, live>>

\* In square wave mode the timer's line drops in mid-period: a request that
\* vanishes before the CPU asks for it comes as line 7, not in service.
SpuriousInterrupt ==
    /\ Takes /\ pit.mode = PIT_MODE_SQUARE_WAVE
    /\ PicOffers(pics.master, IRQ_TIMER)
    /\ pics' = [pics EXCEPT !.master.irr = @ \ {IRQ_TIMER}]
    /\ Enter(pics.master.base + IRQ_MASTER_LOWEST_PRIORITY, FALSE, "spurious")
    /\ UNCHANGED <<tables, esp0, icur, ist, kont, live>>

\* User code divides by zero, hits a breakpoint or a bad address, or executes
\* an INT instruction for a vector that is not for it.
UserFault ==
    /\ cpu = "user"
    /\ \/ \E vec \in {0, 3, 14} : Enter(vec, FALSE, "fault")
       \/ Enter(IVEC_IRQ_0 + IRQ_TIMER, TRUE, "fault")
    /\ UNCHANGED <<tables, pics, esp0, icur, ist, kont, live>>

-----------------------------------------------------------------------------
(* Handlers and the way back. *)

\* cpu_user_start, or the return of a thread whose handler is done: the frame
\* has interrupts on.
ToUser == cpu' = "user" /\ iflag' = TRUE /\ ds' = UserData /\ todo' = <<>>

\* kernel_noreturn: a fresh shell with interrupts off.
ToShell == cpu' = "shell" /\ iflag' = FALSE /\ todo' = <<>> /\ UNCHANGED ds

cpu_user_kstack_set(t) == esp0' = t

\* thread_switch: the outgoing thread keeps what its handler had left to do on
\* its stack; states and continuations are given as they are after that.
thread_switch_to(t, st, ks) ==
    /\ cpu_user_kstack_set(t)
    /\ icur' = t
    /\ ist' = [st EXCEPT ![t] = "none"]
    /\ kont' = ks
    /\ IF st[t] = "new" THEN ToUser /\ UNCHANGED frame
       ELSE /\ todo' = ks[t].todo
            /\ frame' = [cpu |-> "user", ds |-> ks[t].ds, iflag |-> TRUE]
            /\ cpu' = "handler" /\ UNCHANGED <<iflag, ds>>

InHandler(step) == cpu = "handler" /\ todo # <<>> /\ Head(todo)[1] = step

SendEoi ==
    /\ InHandler("eoi")
    /\ pics' = pic_send_eoi(pics, Head(todo)[2])
    /\ todo' = Tail(todo)
    /\ UNCHANGED <<tables, iflag, cpu, ds, esp0, icur, ist, kont, live, frame, kills>>

\* States and continuations with the current thread saved, rest being what it
\* has to do when it is resumed.
Saved(rest) == <<[ist EXCEPT ![icur] = "saved"],
                 [kont EXCEPT ![icur] = [todo |-> rest, ds |-> frame.ds]]>>

\* schedule(): the scheduler is abstract and picks any of the threads.
Schedule(st, ks) == \E t \in IThreads : st[t] # "none" /\ thread_switch_to(t, st, ks)

\* thread_preempt and thread_yield.  Without a current thread the boot shell
\* is left for a fresh one.
Preempt ==
    /\ InHandler("preempt")
    /\ IF icur = 0 THEN ToShell /\ UNCHANGED <<esp0, icur, ist, kont, frame>>
       ELSE LET sv == Saved(Tail(todo)) IN Schedule(sv[1], sv[2])
    /\ UNCHANGED <<tables, pics, live, kills>>

\* thread_exit: the thread is not saved to be resumed.
ThreadExit ==
    /\ InHandler("thrd_exit")
    /\ Schedule(ist, kont)
    /\ UNCHANGED <<tables, pics, live, kills>>

\* thread_create.
ThreadCreate ==
    /\ InHandler("create")
    /\ \E n \in IThreads \ {icur} : ist[n] = "none" /\ ist' = [ist EXCEPT ![n] = "new"]
    /\ todo' = Tail(todo)
    /\ UNCHANGED <<tables, pics, iflag, cpu, ds, esp0, icur, kont, live, frame, kills>>

\* handle_exception, process_kill: the thread stays current and ready.
KillProcess ==
    /\ InHandler("exception")
    /\ ToShell
    /\ live' = (icur # 0)
    /\ UNCHANGED <<tables, pics, esp0, icur, ist, kont, frame, kills>>

\* process_exit: the thread stays current, but not ready.
ExitProcess ==
    /\ InHandler("exit")
    /\ ToShell
    /\ UNCHANGED <<tables, pics, esp0, icur, ist, kont, live, frame, kills>>

\* The service routine restores DS and ES and returns from the interrupt.
IretHandler ==
    /\ cpu = "handler" /\ todo = <<>>
    /\ ds' = frame.ds /\ iflag' = frame.iflag /\ cpu' = frame.cpu
    /\ UNCHANGED <<tables, pics, esp0, icur, ist, todo, kont, live, frame, kills>>

\* The shell starts a program: its main thread, or one queued before, runs.  A
\* killed thread that is still ready is saved inside this shell.
ShellStarts ==
    /\ cpu = "shell"
    /\ \E n \in IThreads \ {icur} :
        /\ ist[n] = "none"
        /\ LET sv == IF live THEN Saved(<<Call("shell")>>) ELSE <<ist, kont>>
           IN  Schedule([sv[1] EXCEPT ![n] = "new"], sv[2])
    /\ live' = FALSE
    /\ UNCHANGED <<tables, pics, kills>>

\* A killed thread is resumed where it was saved: process_start returns to the
\* shell.
ShellResumes ==
    /\ InHandler("shell")
    /\ cpu' = "shell" /\ todo' = <<>> /\ live' = TRUE
    /\ UNCHANGED <<tables, pics, iflag, ds, esp0, icur, ist, kont, frame, kills>>

\* isr_syscall and isr_syscall_stage2, with interrupts off throughout: a call
\* that just returns, or one that makes, leaves or ends a thread.
Syscall ==
    /\ cpu = "user" /\ Gate(IVEC_SYSCALL, TRUE) = IVEC_SYSCALL
    /\ cpu' = "handler" /\ iflag' = FALSE
    /\ frame' = [cpu |-> cpu, ds |-> ds, iflag |-> iflag]
    /\ ds' = KSEG_KERNEL_DATA
    /\ \/ todo' = <<>>
       \/ todo' = <<Call("preempt")>>
       \/ todo' = <<Call("exit")>>
       \/ todo' = <<Call("create")>> /\ \E n \in IThreads \ {icur} : ist[n] = "none"
       \/ todo' = <<Call("thrd_exit")>> /\ \E t \in IThreads : ist[t] # "none"
    /\ UNCHANGED <<tables, pics, esp0, icur, ist, kont, live, kills>>

InterruptsNext ==
    \/ init_gdt \/ x86_init_idt \/ init_tss \/ init_int_controller
    \/ init_timer_interrupt \/ BootDone
    \/ \E irq \in {IRQ_TIMER, 1, 8} : RaiseLine(irq) \/ HardwareInterrupt(irq)
    \/ SpuriousInterrupt \/ UserFault \/ Syscall
    \/ SendEoi \/ Preempt \/ ThreadExit \/ ThreadCreate \/ KillProcess \/ ExitProcess \/ IretHandler
    \/ ShellStarts \/ ShellResumes

\* Whenever user code runs the timer can end its turn and the kernel can be
\* entered safely (interrupt.c:60, process.c:310, x86_seg.c:347): interrupts
\* are enabled, no line is still in service, the timer's is not masked and
\* ticks 1000 times a second, DS is the user's, and the TSS names the kernel
\* stack of the very thread that runs.  No device ever reaches a missing gate
\* or the exception handler: programs are killed for their own faults or by
\* an interrupt the timer took back, and the machine never resets.
InterruptsServed ==
    /\ cpu # "reset"
    /\ cpu = "user" => /\ iflag
                       /\ pics.master.isr = {} /\ pics.slave.isr = {}
                       /\ IRQ_TIMER \notin pics.master.mask
                       /\ PIT_BASE_HZ \div PitPeriod(pit) = 1000
                       /\ ds = UserData
                       /\ esp0 = icur
    /\ kills \subseteq {"fault", "spurious"}
=============================================================================
