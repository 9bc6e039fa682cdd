----------------------------- MODULE ThreadLife -----------------------------
(***************************************************************************)
(* What the thread system calls promise to a program that keeps the        *)
(* fork-join discipline, without tables, queues or saved contexts: one     *)
(* thread runs at a time; a thread that joins does nothing else until its  *)
(* target has exited; the join then retires the target, once, and learns   *)
(* the status the target passed to thrd_exit; the main thread leaves only  *)
(* when no other thread can run.                                           *)
(***************************************************************************)
EXTENDS Naturals

CONSTANTS MaxTid, Status

VARIABLES
    life,       \* of each tid, in the order they are handed out
    joins,      \* tid a thread is joining, 0 for none
    value       \* status a tid passed to thrd_exit

Tids == 1 .. MaxTid
lvars == <<life, joins, value>>

Alive(t) == life[t] \in {"ready", "running"}
\* t runs and is not blocked in a join.
Acts(t) == life[t] = "running" /\ joins[t] = 0
IsNext(t) == life[t] = "unborn" /\ \A u \in Tids : u < t => life[u] # "unborn"

Init ==
    /\ life = [t \in Tids |-> "unborn"]
    /\ joins = [t \in Tids |-> 0]
    /\ value = [t \in Tids |-> 0]

\* The shell starts a program: its main thread runs at once.
Launch(t) ==
    /\ \A u \in Tids : ~Alive(u)
    /\ IsNext(t)
    /\ life' = [life EXCEPT ![t] = "running"]
    /\ UNCHANGED <<joins, value>>

Spawn(t) ==
    /\ \E r \in Tids : Acts(r)
    /\ IsNext(t)
    /\ life' = [life EXCEPT ![t] = "ready"]
    /\ UNCHANGED <<joins, value>>

\* The CPU passes from r to n, also while r waits in a join.
Switch(r, n) ==
    /\ life[r] = "running" /\ life[n] = "ready"
    /\ life' = [life EXCEPT ![r] = "ready", ![n] = "running"]
    /\ UNCHANGED <<joins, value>>

End(r, n) ==
    /\ Acts(r) /\ life[n] = "ready"
    /\ life' = [life EXCEPT ![r] = "exited", ![n] = "running"]
    /\ \E v \in Status : value' = [value EXCEPT ![r] = v]
    /\ UNCHANGED joins

Join(r, t) ==
    /\ Acts(r) /\ t # r
    /\ life[t] \in {"ready", "exited"}
    /\ \A u \in Tids : joins[u] # t
    /\ joins' = [joins EXCEPT ![r] = t]
    /\ UNCHANGED <<life, value>>

Retire(r, t) ==
    /\ life[r] = "running" /\ joins[r] = t
    /\ life[t] = "exited"
    /\ life' = [life EXCEPT ![t] = "gone"]
    /\ joins' = [joins EXCEPT ![r] = 0]
    /\ UNCHANGED value

\* exit(): the program is over.
Quit(r) ==
    /\ Acts(r)
    /\ \A u \in Tids \ {r} : ~Alive(u)
    /\ life' = [life EXCEPT ![r] = "exited"]
    /\ UNCHANGED <<joins, value>>

Next ==
    \/ \E t \in Tids : Launch(t) \/ Spawn(t) \/ Quit(t)
    \/ \E r, t \in Tids : Switch(r, t) \/ End(r, t) \/ Join(r, t) \/ Retire(r, t)

Spec == Init /\ [][Next]_lvars
=============================================================================
