---------------------------- MODULE Philosophers ----------------------------
(***************************************************************************)
(* The dining philosophers of process/philosophers.c: nthreads threads     *)
(* that run phl_main over the mutexes of mulibc, and the main thread that  *)
(* creates and joins them.  Each step of a philosopher ends in phl_print,  *)
(* which draws it under print_mtx.  The fields have_left and have_right    *)
(* are only drawn and the delay loops only take time: both are left out.   *)
(***************************************************************************)
EXTENDS Integers, Mutex

CONSTANTS nthreads, phl_loops

\* The user-thread library has THRD_MAX = 8 threads to give away, so that every
\* thrd_create below succeeds.
ASSUME PhlAssumption == nthreads \in 1 .. 8 /\ phl_loops \in Nat

VARIABLES
    left_handed,            \* option -l
    exit_first_finished,    \* option -e
    pc,             \* the next operation of each philosopher
    phase,          \* "go", or where it is in the phl_print before that
    loop,           \* rounds of phl_main's loop done
    state,          \* enum phl_state
    screen,         \* the state each philosopher was last drawn in
    main            \* [at, i]: main's place and loop index

vars == <<locked, left_handed, exit_first_finished, pc, phase, loop, state,
          screen, main>>

Phls == 0 .. nthreads - 1
print_mtx == nthreads       \* forks are 0 .. nthreads - 1
Mutexes == 0 .. nthreads

lefty(i) == left_handed /\ i = nthreads - 1
fork_right(i) == i
fork_left(i) == (i + 1) % nthreads
\* Bug: the left-handed philosopher takes the right fork first, too.
forka_right(i) == fork_right(i)
forka(i) == IF lefty(i) THEN fork_left(i) ELSE fork_right(i)
forkb(i) == IF lefty(i) THEN fork_right(i) ELSE fork_left(i)

PhlStates == {"THINKING", "HUNGRY", "EATING", "FULL"}
Drawn == PhlStates \cup {"blank"}
Places == {"unborn", "think", "hungry", "take_a", "take_b", "eat", "full",
           "drop_b", "drop_a", "next", "exit", "done"}

\* main: forks and philosophers are set up (a zeroed state is PHL_THINKING), the
\* room for the drawing is blank.
Init ==
    /\ mtx_init
    /\ left_handed \in BOOLEAN /\ exit_first_finished \in BOOLEAN
    /\ pc = [i \in Phls |-> "unborn"]
    /\ phase = [i \in Phls |-> "go"]
    /\ loop = [i \in Phls |-> 0]
    /\ state = [i \in Phls |-> "THINKING"]
    /\ screen = [i \in Phls |-> "blank"]
    /\ main = [at |-> "create", i |-> 0]

Alive == main.at # "end"

-----------------------------------------------------------------------------
(* The main thread. *)

MainCreate ==
    /\ main.at = "create"
    /\ pc' = [pc EXCEPT ![main.i] = "think"]
    /\ main' = IF main.i + 1 < nthreads THEN [main EXCEPT !.i = @ + 1]
               ELSE [at |-> "join", i |-> 0]
    /\ UNCHANGED <<locked, left_handed, exit_first_finished, phase, loop,
                   state, screen>>

\* The last join lets main return, which ends the program.
MainJoin ==
    /\ main.at = "join"
    /\ pc[main.i] = "done"
    /\ main' = IF main.i + 1 < nthreads THEN [main EXCEPT !.i = @ + 1]
               ELSE [at |-> "end", i |-> 0]
    /\ UNCHANGED <<locked, left_handed, exit_first_finished, pc, phase, loop,
                   state, screen>>

-----------------------------------------------------------------------------
(* phl_main. *)

\* Philosopher i goes from place p to place q and prints itself.
Goes(i, p, q) ==
    /\ Alive /\ pc[i] = p /\ phase[i] = "go"
    /\ pc' = [pc EXCEPT ![i] = q]
    /\ phase' = [phase EXCEPT ![i] = "print"]
    /\ UNCHANGED <<left_handed, exit_first_finished, loop, screen, main>>

Becomes(i, st) == state' = [state EXCEPT ![i] = st]

\* Bug: one round too many.
loop_on_extra(i) == loop[i] <= phl_loops
loop_on(i) == loop[i] < phl_loops

Think(i) == /\ loop_on(i)
            /\ Goes(i, "think", "hungry")
            /\ Becomes(i, "THINKING") /\ UNCHANGED locked
GetHungry(i) == /\ Goes(i, "hungry", "take_a")
                /\ Becomes(i, "HUNGRY") /\ UNCHANGED locked
TakeA(i) == /\ Goes(i, "take_a", "take_b")
            /\ mtx_lock(forka(i)) /\ UNCHANGED state
TakeB(i) == /\ Goes(i, "take_b", "eat")
            /\ mtx_lock(forkb(i)) /\ UNCHANGED state
Eat(i) == /\ Goes(i, "eat", "full")
          /\ Becomes(i, "EATING") /\ UNCHANGED locked
\* Bug: the forks are put down before the end of the meal is drawn.
FullUnprinted(i) ==
    /\ Alive /\ pc[i] = "full" /\ phase[i] = "go"
    /\ pc' = [pc EXCEPT ![i] = "drop_b"]
    /\ Becomes(i, "FULL")
    /\ UNCHANGED <<locked, left_handed, exit_first_finished, phase, loop,
                   screen, main>>
Full(i) == /\ Goes(i, "full", "drop_b")
           /\ Becomes(i, "FULL") /\ UNCHANGED locked
DropB(i) == /\ Goes(i, "drop_b", "drop_a")
            /\ mtx_unlock(forkb(i)) /\ UNCHANGED state
DropA(i) == /\ Goes(i, "drop_a", "next")
            /\ mtx_unlock(forka(i)) /\ UNCHANGED state

NextRound(i) ==
    /\ Alive /\ pc[i] = "next" /\ phase[i] = "go"
    /\ loop' = [loop EXCEPT ![i] = @ + 1]
    /\ pc' = [pc EXCEPT ![i] = "think"]
    /\ UNCHANGED <<locked, left_handed, exit_first_finished, phase, state,
                   screen, main>>

\* phl_print: take print_mtx, then draw and give it back.
PrintLock(i) ==
    /\ Alive /\ phase[i] = "print"
    /\ mtx_lock(print_mtx)
    /\ phase' = [phase EXCEPT ![i] = "draw"]
    /\ UNCHANGED <<left_handed, exit_first_finished, pc, loop, state, screen,
                   main>>
PrintDraw(i) ==
    /\ Alive /\ phase[i] = "draw"
    /\ screen' = [screen EXCEPT ![i] = state[i]]
    /\ mtx_unlock(print_mtx)
    /\ phase' = [phase EXCEPT ![i] = "go"]
    /\ UNCHANGED <<left_handed, exit_first_finished, pc, loop, state, main>>

\* After the loop: with -e take print_mtx, to exit with it, else return.
Finish(i) ==
    /\ Alive /\ pc[i] = "think" /\ phase[i] = "go" /\ ~loop_on(i)
    /\ \/ exit_first_finished /\ mtx_lock(print_mtx)
          /\ pc' = [pc EXCEPT ![i] = "exit"]
       \/ ~exit_first_finished /\ UNCHANGED locked
          /\ pc' = [pc EXCEPT ![i] = "done"]
    /\ UNCHANGED <<left_handed, exit_first_finished, phase, loop, state,
                   screen, main>>

\* _exit(0) ends the program.  That the kernel leaves the other threads
\* queued is the business of module Kernel.
ExitProgram(i) ==
    /\ Alive /\ pc[i] = "exit"
    /\ main' = [at |-> "end", i |-> 0]
    /\ UNCHANGED <<locked, left_handed, exit_first_finished, pc, phase, loop,
                   state, screen>>

phl_main(i) ==
    \/ Think(i) \/ GetHungry(i) \/ TakeA(i) \/ TakeB(i) \/ Eat(i) \/ Full(i)
    \/ DropB(i) \/ DropA(i) \/ NextRound(i)
    \/ PrintLock(i) \/ PrintDraw(i) \/ Finish(i) \/ ExitProgram(i)

Next == MainCreate \/ MainJoin \/ \E i \in Phls : phl_main(i)

Spec == Init /\ [][Next]_vars

\* The kernel runs every queued thread (QueuedRuns of module Kernel), and a
\* spinning thread goes back to the queue.  A flag that is free time and again
\* may still be missed every time: weak fairness, not strong.
FairSpec == /\ Spec /\ WF_vars(MainCreate) /\ WF_vars(MainJoin)
            /\ \A i \in Phls : WF_vars(phl_main(i))

-----------------------------------------------------------------------------
(* Properties. *)

\* Every variable has its type; no philosopher starts a round too many.
TypeOK ==
    /\ locked \subseteq Mutexes
    /\ left_handed \in BOOLEAN /\ exit_first_finished \in BOOLEAN
    /\ pc \in [Phls -> Places]
    /\ phase \in [Phls -> {"go", "print", "draw"}]
    /\ loop \in [Phls -> 0 .. phl_loops]
    /\ state \in [Phls -> PhlStates]
    /\ screen \in [Phls -> Drawn]
    /\ main \in [at : {"create", "join", "end"}, i : Phls]

Neighbours(i, j) == i # j /\ j = (i + 1) % nthreads

\* Two philosophers who share a fork never eat at the same time, and the
\* screen never shows them eating at the same time, although each line of the
\* screen is as old as the philosopher's last phl_print.
EatExclusive ==
    \A i, j \in Phls :
        Neighbours(i, j) => /\ ~(state[i] = "EATING" /\ state[j] = "EATING")
                            /\ ~(screen[i] = "EATING" /\ screen[j] = "EATING")

\* The mutex a philosopher spins on when it is its turn, if any.
Wants(i) == IF phase[i] = "print" THEN {print_mtx}
            ELSE IF phase[i] = "draw" THEN {}
            ELSE IF pc[i] = "take_a" THEN {forka(i)}
            ELSE IF pc[i] = "take_b" THEN {forkb(i)}
            ELSE IF pc[i] = "think" /\ ~loop_on(i) /\ exit_first_finished
                 THEN {print_mtx}
            ELSE {}
Stuck == /\ main.at = "join" /\ pc[main.i] # "done"
         /\ \A i \in Phls : pc[i] # "done" => Wants(i) # {} /\ Wants(i) \subseteq locked

\* The only deadlock is the circular one, every philosopher with its first fork
\* in hand, and with -l there is none (unless one philosopher dines alone, with
\* one fork for both hands).
StuckOnlyInCircle ==
    Stuck => /\ \A i \in Phls : pc[i] = "take_b"
             /\ left_handed => nthreads = 1

\* With -l the program ends, although mtx_lock is not fair.
LeftHandedEnds == left_handed /\ nthreads > 1 ~> main.at = "end"
=============================================================================
