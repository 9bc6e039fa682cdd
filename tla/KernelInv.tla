----------------------------- MODULE KernelInv ------------------------------
(***************************************************************************)
(* The inductive invariants of Kernel: IInv, AllocSound and StatusKept for *)
(* every Env, OneProgram and JoinsSound for disciplined programs.          *)
(***************************************************************************)
EXTENDS Kernel

\* The current thread's entry is in use and has been started, also while the
\* shell has the CPU: no join can close the entry under current_thread.
CurrentHeld ==
    current_thread # NoThread => /\ tid[current_thread] # 0
                                 /\ runstate[current_thread] # "NEW"

\* An entry in use points to an entry of pcb[].
HeldProcess == \A s \in Slots : tid[s] # 0 => process[s] \in Procs

\* A context the scheduler may restore has been saved, and a context inside
\* thread_join still has the local it goes on with.
SavedSound ==
    /\ \A s \in Queued : runstate[s] = "READY" =>
            saved[s] # "none" /\ (saved[s] = "join" => temp[s] # NoThread)
    /\ mode = "join" => temp[current_thread] # NoThread

\* From process_load_path to process_close the shell's p points into pcb[].
ShellProcess ==
    /\ mode \in {"loaded", "resumed", "user", "join"} => shp # NoProc
    /\ mode = "resumed" => cr3 # 0
    /\ Cr3Open

IInv == /\ TypeOK /\ QueueSound /\ RunningSound /\ TidsUnique
        /\ CurrentHeld /\ HeldProcess /\ SavedSound /\ ShellProcess

\* One entry p of pcb[] serves all programs: every thread that can run belongs
\* to it, it is the first free entry while the shell waits, and the entries
\* behind it are never used.  p is 0, or 1 once the first tick has lost the
\* shell that was starting the very first program.
SoleProcess(p) ==
    /\ \A s \in Queued \cup {current_thread} : s # NoThread => process[s] = p
    /\ mode \in {"loaded", "resumed", "user", "join"} => shp = p
    /\ \A r \in Procs : /\ r < p => pid[r] # 0
                        /\ r > p => pid[r] = 0
    /\ mode = "prompt" => pid[p] = 0
    /\ mode = "loaded" => pid[p] # 0
    /\ shell_if => /\ p = 0
                   /\ ready_queue = <<>> /\ current_thread = NoThread
                   /\ mode \in {"prompt", "loaded"}
AllocSound == mode # "undefined" => \E p \in {0, 1} : SoleProcess(p)

\* An entry keeps the status its thread passed to thrd_exit until it is closed.
StatusKept ==
    /\ \A s \in Slots : exit_status[s] = IF tid[s] = 0 THEN 0 ELSE passed[tid[s]]
    /\ \A t \in 1 .. MaxTid : t >= next_tid => passed[t] = 0

\* While programs are disciplined one program is open at a time, its tables are
\* in CR3 while it is, every thread that can run is its thread, and nothing can
\* run while the shell has the CPU.
OneProgram ==
    /\ noentry = {} /\ mode # "resumed"
    /\ mode \in {"loaded", "user", "join"} =>
            /\ cr3 # 0 /\ pid[shp] = cr3
            /\ \A p \in Procs \ {shp} : pid[p] = 0
    /\ mode = "prompt" => \A p \in Procs : pid[p] = 0
    /\ Running => \A s \in Slots : Live(s) => owner[s] = cr3 /\ process[s] = shp
    /\ ~Running => \A s \in Slots : ~Live(s)
    /\ mode = "undefined" => \A s \in Slots : tid[s] # 0
    /\ \A s \in Queued : runstate[s] = "READY" => saved[s] # "resumed"

\* While programs are disciplined only a live thread is inside thread_join, its
\* local leads to the entry of the tid it asked for, and no two threads wait for
\* the same entry.
JoinsSound ==
    /\ \A r \in Slots : temp[r] = NoThread => asked[r] = 0
    /\ \A r \in Slots : temp[r] # NoThread =>
            /\ Live(r) /\ temp[r] # r
            /\ asked[r] # 0 /\ tid[temp[r]] = asked[r]
            /\ r # current_thread => saved[r] = "join" /\ runstate[r] = "READY"
            /\ \A q \in Slots : temp[q] = temp[r] => q = r
    /\ mode = "user" => temp[current_thread] = NoThread

\* Inductive when Env = {}.
DInv == IInv /\ NoLostThread /\ StatusKept /\ OneProgram /\ JoinsSound
=============================================================================
