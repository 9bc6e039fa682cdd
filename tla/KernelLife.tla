----------------------------- MODULE KernelLife -----------------------------
(***************************************************************************)
(* The kernel implements ThreadLife for programs that keep the fork-join   *)
(* discipline (Env = {}): entries of tcb[] become tids, the ready queue    *)
(* and the saved contexts disappear.                                       *)
(***************************************************************************)
EXTENDS Kernel

Holds(s, t) == tid[s] = t
LifeOf(t) ==
    IF t >= next_tid THEN "unborn"
    ELSE IF \A s \in Slots : ~Holds(s, t) THEN "gone"
    ELSE IF \E s \in Slots : Holds(s, t) /\ runstate[s] = "EXITED" THEN "exited"
    ELSE IF Running /\ Holds(current_thread, t) THEN "running"
    ELSE "ready"
JoinsOf(t) ==
    IF \E s \in Slots : Holds(s, t)
    THEN asked[CHOOSE s \in Slots : Holds(s, t)] ELSE 0

lives == [t \in 1 .. MaxTid |-> LifeOf(t)]
joining == [t \in 1 .. MaxTid |-> JoinsOf(t)]

Life == INSTANCE ThreadLife WITH life <- lives, joins <- joining, value <- passed

\* Every step of the kernel is a step of ThreadLife or changes nothing that a
\* program can observe of its threads.
ImplementsThreadLife == Life!Spec
=============================================================================
