---------------------------- MODULE KernelProofs ----------------------------
(***************************************************************************)
(* TLAPS proofs about Kernel, for every size of the tables and every bound *)
(* of the model, in three parts: what holds whatever programs and devices  *)
(* do; what programs that keep the fork-join discipline (Env = {}) can     *)
(* rely on; and that for these the kernel implements ThreadLife.           *)
(***************************************************************************)
EXTENDS KernelInv, KernelLife, TLAPS

Elems(q) == {q[i] : i \in DOMAIN q}
Inj(q) == \A i, j \in DOMAIN q : q[i] = q[j] => i = j

-----------------------------------------------------------------------------
(* The list operations of list.h on a queue of distinct threads. *)

\* list_add_tail: one more element, and the list stays free of repetitions.
LEMMA AppendFacts ==
    ASSUME NEW q \in Seq(Slots), NEW s \in Slots
    PROVE  /\ Append(q, s) \in Seq(Slots)
           /\ Append(q, s) # <<>>
           /\ Elems(Append(q, s)) = Elems(q) \cup {s}
           /\ Inj(q) /\ s \notin Elems(q) => Inj(Append(q, s))
<1> DEFINE a == Append(q, s)
<1>1. /\ a \in Seq(Slots) /\ Len(a) = Len(q) + 1 /\ a[Len(q) + 1] = s
      /\ DOMAIN a = 1 .. Len(q) + 1 /\ DOMAIN q = 1 .. Len(q) /\ Len(q) \in Nat
      /\ \A i \in 1 .. Len(q) : a[i] = q[i]
  OBVIOUS
<1>2. a # <<>>
  BY <1>1
<1>3. Elems(a) = Elems(q) \cup {s}
  <2>1. ASSUME NEW x \in Elems(a) PROVE x \in Elems(q) \cup {s}
    <3>1. PICK i \in DOMAIN a : x = a[i]
      BY <2>1 DEF Elems
    <3>2. CASE i = Len(q) + 1
      BY <3>1, <3>2, <1>1
    <3>3. CASE i \in 1 .. Len(q)
      BY <3>1, <3>3, <1>1 DEF Elems
    <3> QED BY <3>2, <3>3, <1>1
  <2>2. s \in Elems(a)
    <3>1. Len(q) + 1 \in DOMAIN a
      BY <1>1
    <3> QED BY <3>1, <1>1 DEF Elems
  <2>3. ASSUME NEW x \in Elems(q) PROVE x \in Elems(a)
    <3>1. PICK i \in DOMAIN q : x = q[i]
      BY <2>3 DEF Elems
    <3>2. i \in DOMAIN a /\ a[i] = x
      BY <3>1, <1>1
    <3> QED BY <3>2 DEF Elems
  <2> QED BY <2>1, <2>2, <2>3
<1>4. ASSUME Inj(q), s \notin Elems(q) PROVE Inj(a)
  <2> SUFFICES ASSUME NEW i \in DOMAIN a, NEW j \in DOMAIN a, a[i] = a[j]
               PROVE i = j
    BY DEF Inj
  <2>1. \A k \in 1 .. Len(q) : q[k] # s
    BY <1>4, <1>1 DEF Elems
  <2>2. CASE i = Len(q) + 1 \/ j = Len(q) + 1
    BY <2>1, <2>2, <1>1
  <2>3. CASE i \in 1 .. Len(q) /\ j \in 1 .. Len(q)
    BY <2>3, <1>1, <1>4 DEF Inj
  <2> QED BY <2>2, <2>3, <1>1
<1> QED BY <1>1, <1>2, <1>3, <1>4

\* list_del of the first entry: exactly that element is gone.
LEMMA TailFacts ==
    ASSUME NEW q \in Seq(Slots), q # <<>>, Inj(q)
    PROVE  /\ Head(q) \in Slots /\ Head(q) \in Elems(q)
           /\ Tail(q) \in Seq(Slots)
           /\ Inj(Tail(q))
           /\ Elems(Tail(q)) = Elems(q) \ {Head(q)}
<1>1. /\ Tail(q) \in Seq(Slots) /\ Len(q) \in Nat /\ Len(q) > 0
      /\ Head(q) = q[1] /\ q[1] \in Slots
      /\ DOMAIN q = 1 .. Len(q) /\ DOMAIN Tail(q) = 1 .. Len(q) - 1
      /\ \A i \in 1 .. Len(q) - 1 : Tail(q)[i] = q[i + 1]
  OBVIOUS
<1>2. Head(q) \in Elems(q)
  BY <1>1 DEF Elems
<1>3. Inj(Tail(q))
  BY <1>1 DEF Inj
<1>4. ASSUME NEW x \in Elems(Tail(q)) PROVE x \in Elems(q) \ {Head(q)}
  <2>1. PICK i \in DOMAIN Tail(q) : x = Tail(q)[i]
    BY <1>4 DEF Elems
  <2>2. i + 1 \in DOMAIN q /\ 1 \in DOMAIN q /\ x = q[i + 1] /\ i + 1 # 1
    BY <2>1, <1>1
  <2>3. x # q[1]
    BY <2>2 DEF Inj
  <2> QED BY <2>2, <2>3, <1>1 DEF Elems
<1>5. ASSUME NEW x \in Elems(q) \ {Head(q)} PROVE x \in Elems(Tail(q))
  <2>1. PICK i \in DOMAIN q : x = q[i]
    BY <1>5 DEF Elems
  <2>2. i # 1
    BY <2>1, <1>1, <1>5
  <2>3. i - 1 \in DOMAIN Tail(q) /\ Tail(q)[i - 1] = q[(i - 1) + 1]
    BY <2>1, <2>2, <1>1
  <2>4. Tail(q)[i - 1] = x
    BY <2>1, <2>3, <1>1
  <2> QED BY <2>3, <2>4 DEF Elems
<1> QED BY <1>1, <1>2, <1>3, <1>4, <1>5

-----------------------------------------------------------------------------
(* What schedule() does to a sound queue. *)

Back(rs) == IF goes_back(rs) THEN {current_thread} ELSE {}

\* schedule() on a queue of distinct runnable threads without the current one
\* takes one thread of the queue, or the current one, and keeps the others;
\* the loop that skips exited threads never turns.
LEMMA ScheduleStep ==
    ASSUME NEW rs \in [Slots -> Runstates], NEW q \in Seq(Slots), NEW ctx,
           current_thread \in Slots \cup {NoThread},
           Inj(q),
           \A s \in Elems(q) : rs[s] # "EXITED" /\ s # current_thread,
           schedule(rs, q, ctx)
    PROVE  \/ /\ mode' = "undefined" /\ runstate' = rs /\ ready_queue' = q
              /\ UNCHANGED <<saved, current_thread, current_process>>
              /\ ~goes_back(rs) /\ q = <<>>
           \/ /\ current_thread' \in Slots
              /\ current_thread' \in Elems(q) \cup Back(rs)
              /\ ready_queue' \in Seq(Slots)
              /\ Inj(ready_queue')
              /\ Elems(ready_queue') =
                    (Elems(q) \cup Back(rs)) \ {current_thread'}
              /\ runstate' = [rs EXCEPT ![current_thread'] = "READY"]
              /\ saved' = cpu_task_save(ctx)
              /\ current_process' = process'[current_thread']
              /\ mode' = IF rs[current_thread'] = "NEW" THEN "user"
                         ELSE saved'[current_thread']
<1> DEFINE q1 == IF goes_back(rs) THEN sched_add(q, current_thread) ELSE q
<1>1. /\ q1 \in Seq(Slots) /\ Inj(q1)
      /\ Elems(q1) = Elems(q) \cup Back(rs)
  <2>1. CASE goes_back(rs)
    <3>1. current_thread \in Slots /\ current_thread \notin Elems(q)
      BY <2>1 DEF goes_back
    <3> QED BY <2>1, <3>1, AppendFacts DEF sched_add, Back
  <2>2. CASE ~goes_back(rs)
    BY <2>2 DEF Back
  <2> QED BY <2>1, <2>2
<1>2. \A s \in Elems(q1) : rs[s] # "EXITED"
  BY <1>1 DEF Back, goes_back
<1>3. choose_next_thread(rs, q1) = q1
  <2>1. CASE q1 = <<>>
    BY <2>1 DEF choose_next_thread
  <2>2. CASE q1 # <<>>
    <3>1. rs[Head(q1)] # "EXITED"
      BY <2>2, <1>1, <1>2, TailFacts
    <3> QED BY <3>1 DEF choose_next_thread
  <2> QED BY <2>1, <2>2
<1>4. IF q1 = <<>>
      THEN /\ mode' = "undefined"
           /\ runstate' = rs /\ ready_queue' = q
           /\ UNCHANGED <<saved, current_thread, current_process>>
      ELSE thread_switch(rs, q1, ctx)
  <2> HIDE DEF q1
  <2>1. q1 = IF goes_back(rs) THEN sched_add(q, current_thread) ELSE q
    BY DEF q1
  <2> QED BY <1>3, <2>1 DEF schedule
<1>5. CASE q1 = <<>>
  <2>1. ~goes_back(rs)
    <3> SUFFICES ASSUME goes_back(rs) PROVE FALSE
      OBVIOUS
    <3>1. current_thread \in Slots
      BY DEF goes_back
    <3> QED BY <3>1, <1>5, AppendFacts DEF sched_add
  <2>2. q = <<>>
    BY <2>1, <1>5
  <2> QED BY <2>1, <2>2, <1>4, <1>5
<1>6. CASE q1 # <<>>
  <2> HIDE DEF q1
  <2>1. thread_switch(rs, q1, ctx)
    BY <1>4, <1>6
  <2>2. /\ current_thread' = Head(q1) /\ ready_queue' = Tail(q1)
        /\ runstate' = [rs EXCEPT ![current_thread'] = "READY"]
        /\ saved' = cpu_task_save(ctx)
        /\ current_process' = process'[current_thread']
        /\ mode' = IF rs[current_thread'] = "NEW" THEN "user"
                   ELSE saved'[current_thread']
    BY <2>1 DEF thread_switch
  <2>3. /\ Head(q1) \in Slots /\ Head(q1) \in Elems(q1)
        /\ Tail(q1) \in Seq(Slots) /\ Inj(Tail(q1))
        /\ Elems(Tail(q1)) = Elems(q1) \ {Head(q1)}
    BY <1>1, <1>6, TailFacts
  <2> QED BY <1>1, <2>2, <2>3
<1> QED BY <1>5, <1>6

LEMMA NullFacts == NoThread \notin Slots /\ NoProc \notin Procs
BY KernelAssumption DEF NoThread, NoProc, Slots, Procs

\* The ready queue as seen by the sequence lemmas.
LEMMA QueueElems ==
    /\ Queued = Elems(ready_queue)
    /\ QueueSound <=> /\ Inj(ready_queue)
                      /\ \A s \in Elems(ready_queue) :
                            Live(s) /\ s # current_thread
BY DEF Queued, Elems, Inj, QueueSound

\* Every caller of schedule() that hands it a sound table and queue leaves a
\* sound state: who runs is live, started and not queued, and every context
\* that can be restored has been saved.
LEMMA ScheduleSound ==
    ASSUME TypeOK,
           NEW rs \in [Slots -> Runstates], NEW q \in Seq(Slots),
           NEW ctx \in Contexts,
           tid' \in [Slots -> 0 .. MaxTid],
           process' \in [Slots -> Procs \cup {NoProc}],
           HeldProcess',
           Inj(q),
           \A s \in Elems(q) :
                /\ tid'[s] # 0 /\ rs[s] # "EXITED" /\ s # current_thread
                /\ rs[s] = "READY" =>
                      saved[s] # "none" /\ (saved[s] = "join" => temp'[s] # NoThread),
           current_thread # NoThread =>
                tid'[current_thread] # 0 /\ rs[current_thread] # "NEW",
           goes_back(rs) =>
                ctx # "none" /\ (ctx = "join" => temp'[current_thread] # NoThread),
           schedule(rs, q, ctx)
    PROVE  /\ runstate' \in [Slots -> Runstates]
           /\ saved' \in [Slots -> Contexts]
           /\ ready_queue' \in Seq(Slots)
           /\ current_thread' \in Slots \cup {NoThread}
           /\ current_process' \in Procs \cup {NoProc}
           /\ mode' \in {"user", "join", "resumed", "undefined"}
           /\ QueueSound' /\ RunningSound' /\ CurrentHeld' /\ SavedSound'
<1>0. current_thread \in Slots \cup {NoThread}
  BY DEF TypeOK
<1>1. \/ /\ mode' = "undefined" /\ runstate' = rs /\ ready_queue' = q
         /\ UNCHANGED <<saved, current_thread, current_process>>
      \/ /\ current_thread' \in Slots
         /\ current_thread' \in Elems(q) \cup Back(rs)
         /\ ready_queue' \in Seq(Slots)
         /\ Inj(ready_queue')
         /\ Elems(ready_queue') = (Elems(q) \cup Back(rs)) \ {current_thread'}
         /\ runstate' = [rs EXCEPT ![current_thread'] = "READY"]
         /\ saved' = cpu_task_save(ctx)
         /\ current_process' = process'[current_thread']
         /\ mode' = IF rs[current_thread'] = "NEW" THEN "user"
                    ELSE saved'[current_thread']
  BY <1>0, ScheduleStep
<1>2. /\ Queued' = Elems(ready_queue')
      /\ QueueSound' <=> /\ Inj(ready_queue')
                         /\ \A s \in Elems(ready_queue') :
                              /\ tid'[s] # 0 /\ runstate'[s] # "EXITED"
                              /\ s # current_thread'
  BY DEF Queued, Elems, Inj, QueueSound, Live
<1>3. CASE mode' = "undefined" /\ runstate' = rs /\ ready_queue' = q
           /\ UNCHANGED <<saved, current_thread, current_process>>
  BY <1>2, <1>3 DEF TypeOK, RunningSound, Running, CurrentHeld, SavedSound
<1>4. CASE /\ current_thread' \in Slots
           /\ current_thread' \in Elems(q) \cup Back(rs)
           /\ ready_queue' \in Seq(Slots)
           /\ Inj(ready_queue')
           /\ Elems(ready_queue') = (Elems(q) \cup Back(rs)) \ {current_thread'}
           /\ runstate' = [rs EXCEPT ![current_thread'] = "READY"]
           /\ saved' = cpu_task_save(ctx)
           /\ current_process' = process'[current_thread']
           /\ mode' = IF rs[current_thread'] = "NEW" THEN "user"
                      ELSE saved'[current_thread']
  <2>1. /\ saved' \in [Slots -> Contexts]
        /\ \A s \in Slots : s # current_thread => saved'[s] = saved[s]
        /\ current_thread \in Slots => saved'[current_thread] = ctx
    BY <1>0, <1>4, NullFacts DEF cpu_task_save, TypeOK
  <2>2. \A s \in Elems(q) \cup Back(rs) :
            /\ s \in Slots /\ tid'[s] # 0 /\ rs[s] # "EXITED"
            /\ rs[s] = "READY" =>
                  saved'[s] # "none" /\ (saved'[s] = "join" => temp'[s] # NoThread)
    <3>1. ASSUME NEW s \in Elems(q)
          PROVE  /\ s \in Slots /\ tid'[s] # 0 /\ rs[s] # "EXITED"
                 /\ rs[s] = "READY" =>
                      saved'[s] # "none" /\ (saved'[s] = "join" => temp'[s] # NoThread)
      <4>1. s \in Slots
        BY DEF Elems
      <4> QED BY <4>1, <2>1
    <3>2. ASSUME NEW s \in Back(rs)
          PROVE  /\ s \in Slots /\ tid'[s] # 0 /\ rs[s] # "EXITED"
                 /\ rs[s] = "READY" =>
                      saved'[s] # "none" /\ (saved'[s] = "join" => temp'[s] # NoThread)
      <4>1. s = current_thread /\ goes_back(rs)
        BY DEF Back
      <4> QED BY <4>1, <2>1, <1>0 DEF goes_back
    <3> QED BY <3>1, <3>2
  <2>3. runstate' \in [Slots -> Runstates]
    BY <1>4 DEF Runstates
  <2>4. QueueSound'
    BY <1>2, <1>4, <2>2
  <2>5. /\ mode' \in {"user", "join", "resumed"}
        /\ mode' = "join" => temp'[current_thread'] # NoThread
    <3>1. rs[current_thread'] \in Runstates
      BY <1>4
    <3>2. CASE rs[current_thread'] = "NEW"
      BY <3>2, <1>4
    <3>3. CASE rs[current_thread'] = "READY"
      BY <3>3, <1>4, <2>1, <2>2 DEF Contexts
    <3> QED BY <3>1, <3>2, <3>3, <1>4, <2>2 DEF Runstates
  <2>6. /\ tid'[current_thread'] # 0
        /\ runstate'[current_thread'] = "READY"
        /\ current_process' \in Procs
    BY <1>4, <2>2 DEF HeldProcess
  <2>7. RunningSound' /\ CurrentHeld'
    BY <2>6, <1>4, NullFacts DEF RunningSound, CurrentHeld
  <2>8. SavedSound'
    BY <1>2, <1>4, <2>2, <2>5 DEF SavedSound
  <2> QED BY <1>4, <2>1, <2>3, <2>4, <2>5, <2>6, <2>7, <2>8
<1> QED BY <1>1, <1>3, <1>4

-----------------------------------------------------------------------------
(* The inductive step, action by action. *)

\* thread_create fills a free entry: tids stay unique, every entry in use has
\* a process.
LEMMA FillFacts ==
    ASSUME IInv, NEW s \in Slots, NEW p \in Procs,
           thread_alloc(s), thread_fill(s, p)
    PROVE  /\ tid' \in [Slots -> 0 .. MaxTid]
           /\ process' \in [Slots -> Procs \cup {NoProc}]
           /\ owner' \in [Slots -> 0 .. MaxPid]
           /\ next_tid' \in 1 .. MaxTid + 1
           /\ UNCHANGED <<exit_status, temp, asked>>
           /\ TidsUnique' /\ HeldProcess'
           /\ tid'[s] # 0
           /\ \A r \in Slots \ {s} : tid'[r] = tid[r] /\ process'[r] = process[r]
           /\ s \notin Queued /\ s # current_thread
<1> USE DEF IInv
<1>1. /\ tid' = [tid EXCEPT ![s] = next_tid]
      /\ process' = [process EXCEPT ![s] = p]
      /\ owner' = [owner EXCEPT ![s] = pid[p]]
      /\ next_tid \in 1 .. MaxTid /\ next_tid' = next_tid + 1
      /\ UNCHANGED <<exit_status, temp, asked>>
  BY KernelAssumption DEF thread_fill, tid_after, TypeOK
<1>2. tid[s] = 0
  BY DEF thread_alloc, tcb_first
<1>3. /\ tid' \in [Slots -> 0 .. MaxTid]
      /\ process' \in [Slots -> Procs \cup {NoProc}]
      /\ owner' \in [Slots -> 0 .. MaxPid]
      /\ next_tid' \in 1 .. MaxTid + 1
  BY <1>1, KernelAssumption DEF TypeOK
<1>4. TidsUnique'
  <2> SUFFICES ASSUME NEW r1 \in Slots, NEW r2 \in Slots, tid'[r2] # 0
               PROVE  tid'[r2] < next_tid' /\ (r1 # r2 => tid'[r1] # tid'[r2])
    BY DEF TidsUnique
  <2>1. /\ tid'[r1] = IF r1 = s THEN next_tid ELSE tid[r1]
        /\ tid'[r2] = IF r2 = s THEN next_tid ELSE tid[r2]
        /\ tid[r1] \in Nat /\ tid[r2] \in Nat
    BY <1>1 DEF TypeOK
  <2>2. /\ tid[r1] # 0 => tid[r1] < next_tid
        /\ tid[r2] # 0 => tid[r2] < next_tid
        /\ r1 # r2 /\ tid[r2] # 0 => tid[r1] # tid[r2]
    BY DEF TidsUnique
  <2> QED BY <2>1, <2>2, <1>1
<1>5. HeldProcess'
  BY <1>1 DEF TypeOK, HeldProcess
<1>6. s \notin Queued /\ s # current_thread
  BY <1>2, NullFacts DEF QueueSound, Live, CurrentHeld
<1> QED BY <1>1, <1>3, <1>4, <1>5, <1>6 DEF TypeOK

LEMMA InitInv == Init => IInv
<1> SUFFICES ASSUME Init PROVE IInv
  OBVIOUS
<1> USE KernelAssumption
<1>1. TypeOK
  <2>1. /\ tid \in [Slots -> 0 .. MaxTid]
        /\ process \in [Slots -> Procs \cup {NoProc}]
        /\ runstate \in [Slots -> Runstates]
        /\ exit_status \in [Slots -> Status]
        /\ saved \in [Slots -> Contexts]
        /\ temp \in [Slots -> Slots \cup {NoThread}]
    BY DEF Init, Runstates, Contexts
  <2>2. /\ ready_queue \in Seq(Slots)
        /\ current_thread \in Slots \cup {NoThread}
        /\ current_process \in Procs \cup {NoProc}
        /\ mode \in Modes
        /\ shp \in Procs \cup {NoProc}
        /\ shell_if \in BOOLEAN
    BY DEF Init, Modes
  <2>3. /\ pid \in [Procs -> 0 .. MaxPid]
        /\ loaded \subseteq Procs
        /\ noentry \subseteq 1 .. MaxPid
        /\ cr3 \in 0 .. MaxPid
        /\ next_tid \in 1 .. MaxTid + 1
        /\ next_pid \in 1 .. MaxPid + 1
    BY DEF Init
  <2>4. /\ owner \in [Slots -> 0 .. MaxPid]
        /\ asked \in [Slots -> 0 .. MaxTid]
        /\ passed \in [1 .. MaxTid -> Status]
    BY DEF Init
  <2> QED BY <2>1, <2>2, <2>3, <2>4 DEF TypeOK
<1>2. QueueSound /\ SavedSound
  BY DEF Init, QueueSound, SavedSound, Queued
<1>3. RunningSound /\ TidsUnique /\ CurrentHeld /\ HeldProcess /\ ShellProcess
  BY DEF Init, RunningSound, Running, TidsUnique, CurrentHeld, HeldProcess,
         ShellProcess, Cr3Open
<1> QED BY <1>1, <1>2, <1>3 DEF IInv

LEMMA ShellLoadInv == IInv /\ ShellLoad => IInv'
<1> SUFFICES ASSUME IInv, ShellLoad PROVE IInv'
  OBVIOUS
<1> USE DEF IInv
<1>1. PICK p \in Procs :
        /\ pid[p] = 0
        /\ pid' = [pid EXCEPT ![p] = next_pid]
        /\ next_pid' = next_pid + 1
        /\ shp' = p
        /\ \/ /\ loaded = {} /\ loaded' = loaded \cup {p}
              /\ cr3' = next_pid /\ mode' = "loaded" /\ noentry' = noentry
           \/ /\ cr3' = next_pid /\ mode' = "undefined"
              /\ loaded' = loaded /\ noentry' = noentry
           \/ /\ noentry' = noentry \cup {next_pid} /\ mode' = "loaded"
              /\ loaded' = loaded /\ cr3' = cr3
  BY DEF ShellLoad, process_alloc, process_load_path, addrspc_fits
<1>2. /\ mode = "prompt" /\ next_pid \in 1 .. MaxPid
      /\ UNCHANGED <<tid, process, owner, exit_status, temp, asked, runstate,
                     saved, ready_queue, next_tid, current_thread,
                     current_process, shell_if, passed>>
  BY KernelAssumption DEF ShellLoad, tcbvars, TypeOK
<1>3. TypeOK'
  <2>1. /\ pid' \in [Procs -> 0 .. MaxPid]
        /\ loaded' \subseteq Procs
    BY <1>1, <1>2 DEF TypeOK
  <2>2. noentry' \subseteq 1 .. MaxPid
    BY <1>1, <1>2 DEF TypeOK
  <2>3. /\ cr3' \in 0 .. MaxPid
        /\ next_pid' \in 1 .. MaxPid + 1
        /\ shp' \in Procs
        /\ mode' \in Modes
    BY <1>1, <1>2, KernelAssumption DEF TypeOK, Modes
  <2> QED BY <1>2, <2>1, <2>2, <2>3 DEF TypeOK
<1>4. QueueSound' /\ TidsUnique' /\ CurrentHeld' /\ HeldProcess'
  BY <1>2 DEF QueueSound, Queued, Live, TidsUnique, CurrentHeld, HeldProcess
<1>5. RunningSound' /\ SavedSound'
  BY <1>1, <1>2 DEF RunningSound, Running, SavedSound, Queued
<1>6. ShellProcess'
  <2>1. /\ shp' # NoProc /\ pid'[p] = next_pid /\ next_pid # 0
        /\ \A r \in Procs : r # p => pid'[r] = pid[r]
        /\ \A r \in loaded : r \in Procs /\ pid[r] # 0 /\ r # p
        /\ \A r1, r2 \in loaded : r1 = r2
    BY <1>1, <1>2, NullFacts DEF TypeOK, ShellProcess, Cr3Open
  <2>2. \A r1, r2 \in loaded' : r1 = r2 /\ pid'[r1] # 0
    BY <1>1, <2>1
  <2>3. mode' # "undefined" /\ cr3' # 0 => \E r \in loaded' : pid'[r] = cr3'
    BY <1>1, <1>2, <2>1 DEF ShellProcess, Cr3Open
  <2> QED BY <1>1, <2>1, <2>2, <2>3 DEF ShellProcess, Cr3Open, Running
<1> QED BY <1>3, <1>4, <1>5, <1>6

\* What every path into process_close and the shell preserves.
LEMMA CloseInv ==
    ASSUME IInv, NEW p \in Procs, NEW cp \in Procs \cup {NoProc},
           process_close(p, cp), kernel_noreturn,
           runstate' \in [Slots -> Runstates],
           \A s \in Slots : s # current_thread => runstate'[s] = runstate[s],
           current_thread # NoThread => runstate'[current_thread] # "NEW",
           UNCHANGED <<tcbvars, saved, ready_queue, next_tid,
                       current_thread, passed>>
    PROVE  IInv'
<1> USE DEF IInv
<1>1. /\ pid' = [pid EXCEPT ![p] = 0]
      /\ loaded' = loaded \ {p}
      /\ cr3' = 0
      /\ current_process' \in Procs \cup {NoProc}
      /\ UNCHANGED <<noentry, shp, next_pid>>
      /\ mode' = "prompt" /\ shell_if' = FALSE
      /\ UNCHANGED <<tid, process, owner, exit_status, temp, asked, saved,
                     ready_queue, next_tid, current_thread, passed>>
  BY DEF process_close, kernel_noreturn, tcbvars
<1>2. TypeOK'
  <2>1. /\ pid' \in [Procs -> 0 .. MaxPid]
        /\ loaded' \subseteq Procs
        /\ cr3' \in 0 .. MaxPid
        /\ mode' \in Modes
    BY <1>1, KernelAssumption DEF TypeOK, Modes
  <2>2. shell_if' \in BOOLEAN
    BY <1>1
  <2> QED BY <1>1, <2>1, <2>2 DEF TypeOK
<1>3. /\ Queued' = Queued
      /\ \A s \in Queued : s \in Slots /\ s # current_thread
  <2>1. Queued' = Queued
    BY <1>1 DEF Queued
  <2>2. \A s \in Queued : s # current_thread
    BY DEF QueueSound
  <2>3. ready_queue \in Seq(Slots)
    BY DEF TypeOK
  <2>4. \A s \in Queued : s \in Slots
    BY <2>3 DEF Queued
  <2> QED BY <2>1, <2>2, <2>4
<1>4. QueueSound' /\ TidsUnique' /\ CurrentHeld' /\ HeldProcess'
  BY <1>1, <1>3 DEF QueueSound, Live, TidsUnique, CurrentHeld, HeldProcess
<1>5. RunningSound' /\ SavedSound'
  BY <1>1, <1>3 DEF RunningSound, Running, SavedSound
<1>6. ShellProcess'
  BY <1>1 DEF ShellProcess, TypeOK, Cr3Open, Running
<1> QED BY <1>2, <1>4, <1>5, <1>6

LEMMA ClosingInv ==
    IInv /\ (StartFaults \/ ShellResume \/ ProcessExit \/ Fault) => IInv'
<1> SUFFICES ASSUME IInv, StartFaults \/ ShellResume \/ ProcessExit \/ Fault
             PROVE IInv'
  OBVIOUS
<1> USE DEF IInv
<1>1. mode \in {"loaded", "resumed"} => shp \in Procs
  BY DEF ShellProcess, TypeOK
<1>2. mode = "user" => /\ current_thread \in Slots
                       /\ current_process \in Procs
                       /\ runstate[current_thread] = "READY"
  BY DEF RunningSound, Running, HeldProcess, TypeOK
<1>3. /\ current_process \in Procs \cup {NoProc}
      /\ current_thread \in Slots \cup {NoThread}
      /\ runstate \in [Slots -> Runstates]
      /\ current_thread # NoThread => runstate[current_thread] # "NEW"
  BY DEF TypeOK, CurrentHeld
<1>4. CASE StartFaults
  BY <1>1, <1>3, <1>4, CloseInv DEF StartFaults, handle_exception, process_kill
<1>5. CASE ShellResume
  BY <1>1, <1>3, <1>5, CloseInv DEF ShellResume
<1>6. CASE ProcessExit
  <2>1. runstate' = [runstate EXCEPT ![current_thread] = "EXITED"]
    BY <1>6 DEF ProcessExit
  <2>2. /\ runstate' \in [Slots -> Runstates]
        /\ \A s \in Slots : s # current_thread => runstate'[s] = runstate[s]
        /\ runstate'[current_thread] # "NEW"
    BY <2>1, <1>2, <1>3, <1>6 DEF ProcessExit, Executes, Runstates
  <2> QED BY <2>2, <1>2, <1>3, <1>6, CloseInv DEF ProcessExit, Executes
<1>7. CASE Fault
  BY <1>2, <1>3, <1>7, CloseInv DEF Fault, handle_exception, process_kill
<1> QED BY <1>4, <1>5, <1>6, <1>7

LEMMA BootTickInv == IInv /\ BootTick => IInv'
<1> SUFFICES ASSUME IInv, BootTick PROVE IInv'
  OBVIOUS
<1> USE DEF IInv
<1>1. /\ mode' = "prompt" /\ shell_if' = FALSE
      /\ UNCHANGED <<tid, process, owner, exit_status, temp, asked, runstate,
                     saved, ready_queue, next_tid, current_thread,
                     current_process, pid, loaded, noentry, cr3, shp, next_pid,
                     passed>>
  BY DEF BootTick, kernel_noreturn, tcbvars, pcbvars
<1>2. mode' \in Modes
  BY <1>1 DEF Modes
<1>3. shell_if' \in BOOLEAN
  BY <1>1
<1>4. TypeOK'
  BY <1>1, <1>2, <1>3 DEF TypeOK
<1>5. QueueSound' /\ TidsUnique' /\ CurrentHeld' /\ HeldProcess'
  BY <1>1 DEF QueueSound, Queued, Live, TidsUnique, CurrentHeld, HeldProcess
<1>6. RunningSound' /\ SavedSound' /\ ShellProcess'
  BY <1>1 DEF BootTick, RunningSound, Running, SavedSound, Queued, ShellProcess,
              Cr3Open
<1> QED BY <1>4, <1>5, <1>6

\* thread_create's effect on a thread that is not running: shared by the
\* interrupted process_start and by the system call.
LEMMA NewThread ==
    ASSUME IInv, NEW s \in Slots, NEW p \in Procs,
           thread_alloc(s), thread_fill(s, p),
           runstate' = [runstate EXCEPT ![s] = "NEW"],
           ready_queue' \in {ready_queue, sched_add(ready_queue, s)},
           UNCHANGED <<saved, current_thread>>
    PROVE  /\ ready_queue' \in Seq(Slots)
           /\ runstate' \in [Slots -> Runstates]
           /\ QueueSound' /\ CurrentHeld'
           /\ current_thread # NoThread =>
                /\ tid'[current_thread] = tid[current_thread]
                /\ runstate'[current_thread] = runstate[current_thread]
                /\ process'[current_thread] = process[current_thread]
           /\ \A r \in Queued' : runstate'[r] = "READY" => r \in Queued /\ runstate[r] = "READY"
<1> USE DEF IInv
<1>1. /\ tid'[s] # 0 /\ s \notin Queued /\ s # current_thread
      /\ \A r \in Slots \ {s} : tid'[r] = tid[r] /\ process'[r] = process[r]
      /\ temp' = temp
  BY FillFacts
<1>2. /\ ready_queue \in Seq(Slots) /\ runstate \in [Slots -> Runstates]
      /\ current_thread \in Slots \cup {NoThread}
      /\ Queued = Elems(ready_queue) /\ Inj(ready_queue)
      /\ \A r \in Queued : r \in Slots
      /\ \A r \in Queued : tid[r] # 0 /\ runstate[r] # "EXITED" /\ r # current_thread
  <2>1. /\ ready_queue \in Seq(Slots) /\ runstate \in [Slots -> Runstates]
        /\ current_thread \in Slots \cup {NoThread}
    BY DEF TypeOK
  <2>2. \A r \in Queued : r \in Slots
    BY <2>1 DEF Queued
  <2> QED BY <2>1, <2>2, QueueElems DEF Live
<1>3. /\ ready_queue' \in Seq(Slots) /\ Inj(ready_queue')
      /\ Elems(ready_queue') \subseteq Elems(ready_queue) \cup {s}
  BY <1>1, <1>2, AppendFacts DEF sched_add
<1>4. /\ runstate' \in [Slots -> Runstates]
      /\ runstate'[s] = "NEW"
      /\ \A r \in Slots \ {s} : runstate'[r] = runstate[r]
  BY <1>2 DEF Runstates
<1>5. Queued' = Elems(ready_queue')
  BY DEF Queued, Elems
<1>6. \A r \in Queued' : /\ r \in Slots /\ tid'[r] # 0
                        /\ runstate'[r] # "EXITED" /\ r # current_thread'
  BY <1>1, <1>2, <1>3, <1>4, <1>5
<1>7. QueueSound'
  <2>1. QueueSound' <=> /\ Inj(ready_queue')
                        /\ \A r \in Queued' : /\ tid'[r] # 0
                                              /\ runstate'[r] # "EXITED"
                                              /\ r # current_thread'
    BY DEF QueueSound, Inj, Live
  <2> QED BY <2>1, <1>3, <1>6
<1>8. CurrentHeld'
  BY <1>1, <1>2, <1>4 DEF CurrentHeld
<1> QED BY <1>1, <1>2, <1>3, <1>4, <1>5, <1>7, <1>8

LEMMA BootTickInStartInv == IInv /\ BootTickInStart => IInv'
<1> SUFFICES ASSUME IInv, BootTickInStart PROVE IInv'
  OBVIOUS
<1> USE DEF IInv
<1>1. shp \in Procs
  BY DEF BootTickInStart, ShellProcess, TypeOK
<1>2. PICK s \in Slots : /\ thread_alloc(s) /\ thread_fill(s, shp)
                         /\ runstate' = [runstate EXCEPT ![s] = "NEW"]
  BY DEF BootTickInStart
<1>3. /\ mode' \in {"prompt", "undefined"} /\ shell_if' = FALSE
      /\ current_process' = shp
      /\ UNCHANGED <<saved, ready_queue, current_thread, pid, loaded, noentry,
                     cr3, shp, next_pid, passed>>
  BY DEF BootTickInStart, kernel_noreturn, pcbvars
<1>4. /\ tid' \in [Slots -> 0 .. MaxTid]
      /\ process' \in [Slots -> Procs \cup {NoProc}]
      /\ owner' \in [Slots -> 0 .. MaxPid]
      /\ next_tid' \in 1 .. MaxTid + 1
      /\ UNCHANGED <<exit_status, temp, asked>>
      /\ TidsUnique' /\ HeldProcess'
  BY <1>1, <1>2, FillFacts
<1>5. /\ ready_queue' \in Seq(Slots)
      /\ runstate' \in [Slots -> Runstates]
      /\ QueueSound' /\ CurrentHeld'
      /\ \A r \in Queued' : runstate'[r] = "READY" => r \in Queued /\ runstate[r] = "READY"
  BY <1>1, <1>2, <1>3, NewThread
<1>6. shell_if' \in BOOLEAN
  BY <1>3
<1>7. mode' \in Modes /\ current_process' \in Procs
  BY <1>1, <1>3 DEF Modes
<1>8. TypeOK'
  BY <1>3, <1>4, <1>5, <1>6, <1>7 DEF TypeOK
<1>9. RunningSound' /\ SavedSound' /\ ShellProcess'
  BY <1>3, <1>4, <1>5 DEF BootTickInStart, RunningSound, Running, SavedSound,
                          ShellProcess, Cr3Open
<1> QED BY <1>4, <1>5, <1>8, <1>9

LEMMA ThrdCreateInv == IInv /\ ThrdCreate => IInv'
<1> SUFFICES ASSUME IInv, ThrdCreate PROVE IInv'
  OBVIOUS
<1> USE DEF IInv
<1>1. /\ mode = "user" /\ current_thread \in Slots /\ current_process \in Procs
      /\ current_process = process[current_thread]
      /\ tid[current_thread] # 0 /\ runstate[current_thread] = "READY"
  BY DEF ThrdCreate, Executes, RunningSound, Running, HeldProcess, TypeOK
<1>2. PICK s \in Slots : /\ thread_alloc(s) /\ thread_fill(s, current_process)
                         /\ runstate' = [runstate EXCEPT ![s] = "NEW"]
                         /\ ready_queue' = sched_add(ready_queue, s)
  BY DEF ThrdCreate
<1>3. UNCHANGED <<saved, current_thread, current_process, mode, shell_if, pid,
                  loaded, noentry, cr3, shp, next_pid, passed>>
  BY DEF ThrdCreate, pcbvars
<1>4. /\ tid' \in [Slots -> 0 .. MaxTid]
      /\ process' \in [Slots -> Procs \cup {NoProc}]
      /\ owner' \in [Slots -> 0 .. MaxPid]
      /\ next_tid' \in 1 .. MaxTid + 1
      /\ UNCHANGED <<exit_status, temp, asked>>
      /\ TidsUnique' /\ HeldProcess'
  BY <1>1, <1>2, FillFacts
<1>5. /\ ready_queue' \in Seq(Slots)
      /\ runstate' \in [Slots -> Runstates]
      /\ QueueSound' /\ CurrentHeld'
      /\ tid'[current_thread] = tid[current_thread]
      /\ runstate'[current_thread] = runstate[current_thread]
      /\ process'[current_thread] = process[current_thread]
      /\ \A r \in Queued' : runstate'[r] = "READY" => r \in Queued /\ runstate[r] = "READY"
  BY <1>1, <1>2, <1>3, NewThread, NullFacts
<1>6. TypeOK'
  BY <1>3, <1>4, <1>5 DEF TypeOK
<1>7. RunningSound'
  BY <1>1, <1>3, <1>5 DEF RunningSound, Running
<1>8. SavedSound' /\ ShellProcess'
  BY <1>1, <1>3, <1>4, <1>5 DEF SavedSound, ShellProcess, Cr3Open, Running
<1> QED BY <1>4, <1>5, <1>6, <1>7, <1>8

LEMMA ThrdJoinInv == IInv /\ ThrdJoin => IInv'
<1> SUFFICES ASSUME IInv, ThrdJoin PROVE IInv'
  OBVIOUS
<1> USE DEF IInv
<1>1. /\ mode = "user" /\ current_thread \in Slots
      /\ current_process = process[current_thread]
      /\ tid[current_thread] # 0 /\ runstate[current_thread] = "READY"
  BY DEF ThrdJoin, Executes, RunningSound, Running, TypeOK
<1>2. PICK s \in Slots, t \in 0 .. MaxTid :
        /\ temp' = [temp EXCEPT ![current_thread] = s]
        /\ asked' = [asked EXCEPT ![current_thread] = t]
  BY DEF ThrdJoin
<1>3. /\ mode' = "join"
      /\ UNCHANGED <<tid, process, owner, exit_status, runstate, saved,
                     ready_queue, next_tid, current_thread, current_process,
                     shell_if, pid, loaded, noentry, cr3, shp, next_pid, passed>>
  BY DEF ThrdJoin, pcbvars
<1>4. /\ temp' \in [Slots -> Slots \cup {NoThread}]
      /\ asked' \in [Slots -> 0 .. MaxTid]
      /\ mode' \in Modes
      /\ temp'[current_thread] # NoThread
      /\ \A r \in Slots : temp[r] # NoThread => temp'[r] # NoThread
  BY <1>1, <1>2, <1>3, NullFacts DEF TypeOK, Modes
<1>5. TypeOK'
  BY <1>3, <1>4 DEF TypeOK
<1>6. QueueSound' /\ TidsUnique' /\ CurrentHeld' /\ HeldProcess'
  BY <1>3 DEF QueueSound, Queued, Live, TidsUnique, CurrentHeld, HeldProcess
<1>7. RunningSound' /\ ShellProcess'
  BY <1>1, <1>3, NullFacts DEF RunningSound, ShellProcess, Cr3Open, Running
<1>8. SavedSound'
  <2>1. ready_queue \in Seq(Slots)
    BY DEF TypeOK
  <2>2. Queued' = Queued /\ \A r \in Queued : r \in Slots
    BY <2>1, <1>3 DEF Queued
  <2> QED BY <1>3, <1>4, <2>2 DEF SavedSound
<1> QED BY <1>5, <1>6, <1>7, <1>8

\* thread_close under the invariant: the closed entry is exited, so it is
\* neither queued nor current, and unlinking it touches no other thread.
LEMMA JoinReapInv == IInv /\ JoinReap => IInv'
<1> SUFFICES ASSUME IInv, JoinReap PROVE IInv'
  OBVIOUS
<1> USE DEF IInv
<1> DEFINE c == current_thread
           s == temp[current_thread]
<1>1. /\ mode = "join" /\ c \in Slots /\ s \in Slots
      /\ current_process = process[c]
      /\ tid[c] # 0 /\ runstate[c] = "READY"
      /\ runstate[s] = "EXITED"
  BY NullFacts DEF JoinReap, join_done, RunningSound, Running, SavedSound, TypeOK
<1>2. s # c /\ s \notin Queued
  BY <1>1 DEF QueueSound, Live
<1>3. /\ ready_queue' = ready_queue
      /\ tid' = [tid EXCEPT ![s] = 0]
      /\ process' = [process EXCEPT ![s] = NoProc]
      /\ owner' = [owner EXCEPT ![s] = 0]
      /\ runstate' = [runstate EXCEPT ![s] = "NEW"]
      /\ exit_status' = [exit_status EXCEPT ![s] = 0]
      /\ saved' = [saved EXCEPT ![s] = "none"]
  BY <1>2 DEF JoinReap, thread_close
<1>4. /\ temp' = [temp EXCEPT ![c] = NoThread, ![s] = NoThread]
      /\ asked' = [asked EXCEPT ![c] = 0, ![s] = 0]
      /\ mode' = "user"
      /\ UNCHANGED <<next_tid, current_thread, current_process, shell_if, pid,
                     loaded, noentry, cr3, shp, next_pid, passed>>
  BY DEF JoinReap, pcbvars
<1> HIDE DEF c, s
<1>5. c = current_thread
  BY DEF c
<1>6. TypeOK'
  <2>1. /\ tid' \in [Slots -> 0 .. MaxTid]
        /\ process' \in [Slots -> Procs \cup {NoProc}]
        /\ owner' \in [Slots -> 0 .. MaxPid]
    <3>1. 0 \in 0 .. MaxTid /\ 0 \in 0 .. MaxPid
      BY KernelAssumption
    <3>2. tid' \in [Slots -> 0 .. MaxTid]
      BY <1>1, <1>3, <3>1 DEF TypeOK
    <3>3. process' \in [Slots -> Procs \cup {NoProc}]
      BY <1>1, <1>3 DEF TypeOK
    <3>4. owner' \in [Slots -> 0 .. MaxPid]
      BY <1>1, <1>3, <3>1 DEF TypeOK
    <3> QED BY <3>2, <3>3, <3>4
  <2>2. /\ runstate' \in [Slots -> Runstates]
        /\ exit_status' \in [Slots -> Status]
        /\ saved' \in [Slots -> Contexts]
    BY <1>1, <1>3, KernelAssumption DEF TypeOK, Runstates, Contexts
  <2>3. /\ temp' \in [Slots -> Slots \cup {NoThread}]
        /\ mode' \in Modes
    BY <1>1, <1>4 DEF TypeOK, Modes
  <2>4. asked' \in [Slots -> 0 .. MaxTid]
    <3>1. asked \in [Slots -> 0 .. MaxTid] /\ 0 \in 0 .. MaxTid
      BY KernelAssumption DEF TypeOK
    <3>2. [asked EXCEPT ![c] = 0] \in [Slots -> 0 .. MaxTid]
      BY <3>1, <1>1
    <3> QED BY <3>1, <3>2, <1>1, <1>4
  <2> QED BY <1>3, <1>4, <2>1, <2>2, <2>3, <2>4 DEF TypeOK
<1>7. /\ \A r \in Slots \ {s} : /\ tid'[r] = tid[r] /\ runstate'[r] = runstate[r]
                              /\ process'[r] = process[r] /\ saved'[r] = saved[r]
      /\ \A r \in Slots \ {s, c} : temp'[r] = temp[r]
      /\ tid'[s] = 0
  BY <1>1, <1>3, <1>4 DEF TypeOK
<1>8. Queued' = Queued /\ \A r \in Queued : r \in Slots /\ r # s /\ r # c
  <2>1. ready_queue \in Seq(Slots)
    BY DEF TypeOK
  <2>2. Queued' = Queued /\ \A r \in Queued : r \in Slots
    BY <2>1, <1>3 DEF Queued
  <2> QED BY <2>2, <1>2, <1>5 DEF QueueSound
<1>9. QueueSound'
  BY <1>3, <1>4, <1>7, <1>8 DEF QueueSound, Live
<1>10. TidsUnique' /\ HeldProcess'
  BY <1>1, <1>4, <1>7 DEF TidsUnique, HeldProcess
<1>11. CurrentHeld' /\ RunningSound'
  BY <1>1, <1>2, <1>4, <1>5, <1>7, NullFacts DEF CurrentHeld, RunningSound
<1>12. SavedSound' /\ ShellProcess'
  BY <1>1, <1>4, <1>7, <1>8, ZenonT(60) DEF SavedSound, ShellProcess, Cr3Open, Running
<1> QED BY <1>6, <1>9, <1>10, <1>11, <1>12

\* The queue as schedule() finds it while the tables stay as they are.
LEMMA QueueReady ==
    ASSUME IInv
    PROVE  /\ ready_queue \in Seq(Slots) /\ Inj(ready_queue)
           /\ \A s \in Elems(ready_queue) :
                /\ s \in Slots /\ s \in Queued
                /\ tid[s] # 0 /\ runstate[s] # "EXITED" /\ s # current_thread
                /\ runstate[s] = "READY" =>
                     saved[s] # "none" /\ (saved[s] = "join" => temp[s] # NoThread)
<1>1. ready_queue \in Seq(Slots)
  BY DEF IInv, TypeOK
<1>2. \A s \in Elems(ready_queue) : s \in Slots
  BY <1>1 DEF Elems
<1> QED BY <1>1, <1>2, QueueElems DEF IInv, SavedSound, Live

\* Preemption, yield, the yield inside a join, and thrd_exit.
LEMMA RunnerInv ==
    ASSUME IInv, Running, NEW st \in {"READY", "EXITED"}, NEW ctx \in Contexts,
           st = "READY" => ctx # "none" /\ (ctx = "join" => temp[current_thread] # NoThread),
           UNCHANGED <<tid, process, owner, temp, asked, next_tid, shell_if, pcbvars>>,
           exit_status' \in [Slots -> Status], passed' \in [1 .. MaxTid -> Status],
           schedule([runstate EXCEPT ![current_thread] = st], ready_queue, ctx)
    PROVE  IInv'
<1> USE DEF IInv
<1> DEFINE rs == [runstate EXCEPT ![current_thread] = st]
<1>1. current_thread \in Slots /\ tid[current_thread] # 0
  BY DEF RunningSound, TypeOK
<1>2. UNCHANGED <<pid, loaded, noentry, cr3, shp, next_pid>>
  BY DEF pcbvars
<1>3. /\ rs \in [Slots -> Runstates] /\ rs[current_thread] = st
      /\ \A s \in Slots : s # current_thread => rs[s] = runstate[s]
  BY <1>1 DEF TypeOK, Runstates
<1>4. tid' \in [Slots -> 0 .. MaxTid] /\ process' \in [Slots -> Procs \cup {NoProc}]
  BY DEF TypeOK
<1>5. HeldProcess' /\ TidsUnique'
  BY DEF HeldProcess, TidsUnique
<1>6. goes_back(rs) => ctx # "none" /\ (ctx = "join" => temp'[current_thread] # NoThread)
  BY <1>3 DEF goes_back
<1>7. \A s \in Elems(ready_queue) :
        /\ tid'[s] # 0 /\ rs[s] # "EXITED" /\ s # current_thread
        /\ rs[s] = "READY" =>
              saved[s] # "none" /\ (saved[s] = "join" => temp'[s] # NoThread)
  BY <1>3, QueueReady
<1>8. /\ runstate' \in [Slots -> Runstates]
      /\ saved' \in [Slots -> Contexts]
      /\ ready_queue' \in Seq(Slots)
      /\ current_thread' \in Slots \cup {NoThread}
      /\ current_process' \in Procs \cup {NoProc}
      /\ mode' \in {"user", "join", "resumed", "undefined"}
      /\ QueueSound' /\ RunningSound' /\ CurrentHeld' /\ SavedSound'
  <2> HIDE DEF rs
  <2>1. schedule(rs, ready_queue, ctx)
    BY DEF rs
  <2>2. ready_queue \in Seq(Slots) /\ Inj(ready_queue)
    BY QueueReady
  <2>3. tid'[current_thread] # 0 /\ rs[current_thread] # "NEW"
    BY <1>1, <1>3
  <2> QED BY <1>3, <1>4, <1>5, <1>6, <1>7, <2>1, <2>2, <2>3, ScheduleSound
<1>9. TypeOK'
  BY <1>2, <1>8 DEF TypeOK, Modes
<1>10. ShellProcess'
  BY <1>2, <1>8 DEF ShellProcess, Cr3Open, Running
<1> QED BY <1>5, <1>8, <1>9, <1>10

LEMMA YieldingInv == IInv /\ (Tick \/ ThrdYield \/ JoinYield) => IInv'
<1> SUFFICES ASSUME IInv, Tick \/ ThrdYield \/ JoinYield PROVE IInv'
  OBVIOUS
<1>1. PICK ctx \in {"user", "join"} :
        /\ ctx = mode
        /\ schedule([runstate EXCEPT ![current_thread] = "READY"], ready_queue, ctx)
  BY DEF Tick, ThrdYield, Executes, JoinYield, thread_preempt, thread_yield
<1>2. /\ UNCHANGED <<tid, process, owner, temp, asked, next_tid, shell_if, pcbvars>>
      /\ UNCHANGED <<exit_status, passed>>
  BY DEF Tick, ThrdYield, JoinYield, tcbvars
<1>3. ctx \in Contexts /\ ctx # "none" /\ Running
  BY <1>1 DEF Contexts, Running
<1>4. ctx = "join" => temp[current_thread] # NoThread
  BY <1>1 DEF IInv, SavedSound
<1>5. exit_status' \in [Slots -> Status] /\ passed' \in [1 .. MaxTid -> Status]
  BY <1>2 DEF IInv, TypeOK
<1> QED BY <1>1, <1>2, <1>3, <1>4, <1>5, RunnerInv

LEMMA ThrdExitInv == IInv /\ ThrdExit => IInv'
<1> SUFFICES ASSUME IInv, ThrdExit PROVE IInv'
  OBVIOUS
<1>1. PICK st \in Status :
        /\ exit_status' = [exit_status EXCEPT ![current_thread] = st]
        /\ passed' = [passed EXCEPT ![tid[current_thread]] = st]
  BY DEF ThrdExit
<1>2. /\ Running
      /\ UNCHANGED <<tid, process, owner, temp, asked, next_tid, shell_if, pcbvars>>
      /\ schedule([runstate EXCEPT ![current_thread] = "EXITED"], ready_queue, "none")
  BY DEF ThrdExit, Executes, Running
<1>3. exit_status' \in [Slots -> Status] /\ passed' \in [1 .. MaxTid -> Status]
  BY <1>1 DEF IInv, TypeOK
<1>4. "none" \in Contexts
  BY DEF Contexts
<1> QED BY <1>2, <1>3, <1>4, RunnerInv

LEMMA ProcessStartInv == IInv /\ ProcessStart => IInv'
<1> SUFFICES ASSUME IInv, ProcessStart PROVE IInv'
  OBVIOUS
<1> USE DEF IInv
<1>1. /\ mode = "loaded" /\ shp \in Procs /\ cr3 # 0
      /\ shell_if' = FALSE
      /\ UNCHANGED <<pid, loaded, noentry, cr3, shp, next_pid, passed>>
  BY DEF ProcessStart, pcbvars, ShellProcess, TypeOK
<1>2. /\ "resumed" \in Contexts /\ "resumed" # "none" /\ "resumed" # "join"
      /\ current_thread \in Slots \cup {NoThread}
  BY DEF Contexts, TypeOK
<1> DEFINE Sound == /\ runstate' \in [Slots -> Runstates]
                    /\ saved' \in [Slots -> Contexts]
                    /\ ready_queue' \in Seq(Slots)
                    /\ current_thread' \in Slots \cup {NoThread}
                    /\ current_process' \in Procs \cup {NoProc}
                    /\ mode' \in {"user", "join", "resumed", "undefined"}
                    /\ QueueSound' /\ RunningSound' /\ CurrentHeld' /\ SavedSound'
           Tables == /\ tid' \in [Slots -> 0 .. MaxTid]
                     /\ process' \in [Slots -> Procs \cup {NoProc}]
                     /\ owner' \in [Slots -> 0 .. MaxPid]
                     /\ next_tid' \in 1 .. MaxTid + 1
                     /\ UNCHANGED <<exit_status, temp, asked>>
                     /\ TidsUnique' /\ HeldProcess'
<1>3. Tables /\ Sound
  <2>1. CASE \A s \in Slots : tid[s] # 0
    <3>1. /\ UNCHANGED <<tid, process, owner, exit_status, temp, asked, next_tid>>
          /\ schedule(runstate, ready_queue, "resumed")
      BY <2>1 DEF ProcessStart, thread_alloc, tcb_first, tcbvars
    <3>2. Tables
      BY <3>1 DEF TypeOK, TidsUnique, HeldProcess
    <3>3. runstate \in [Slots -> Runstates]
      BY DEF TypeOK
    <3>4. current_thread # NoThread =>
            tid'[current_thread] # 0 /\ runstate[current_thread] # "NEW"
      BY <3>1 DEF CurrentHeld
    <3>5. \A s \in Elems(ready_queue) :
            /\ tid'[s] # 0 /\ runstate[s] # "EXITED" /\ s # current_thread
            /\ runstate[s] = "READY" =>
                  saved[s] # "none" /\ (saved[s] = "join" => temp'[s] # NoThread)
      BY <3>1, QueueReady
    <3>6. ready_queue \in Seq(Slots) /\ Inj(ready_queue)
      BY QueueReady
    <3>7. Sound
      BY <1>2, <3>1, <3>2, <3>3, <3>4, <3>5, <3>6, ScheduleSound
    <3> QED BY <3>2, <3>7
  <2>2. CASE \E s \in Slots : tid[s] = 0
    <3>1. PICK s \in Slots :
            /\ thread_alloc(s) /\ thread_fill(s, shp)
            /\ schedule([runstate EXCEPT ![s] = "NEW"], sched_add(ready_queue, s),
                        "resumed")
      BY <2>2 DEF ProcessStart
    <3> DEFINE rs == [runstate EXCEPT ![s] = "NEW"]
               q == sched_add(ready_queue, s)
    <3>2. /\ Tables
          /\ tid'[s] # 0
          /\ \A r \in Slots \ {s} : tid'[r] = tid[r]
          /\ s \notin Queued /\ s # current_thread
      BY <1>1, <3>1, FillFacts
    <3>3. /\ rs \in [Slots -> Runstates] /\ rs[s] = "NEW"
          /\ \A r \in Slots \ {s} : rs[r] = runstate[r]
      BY DEF TypeOK, Runstates
    <3>4. q \in Seq(Slots) /\ Inj(q) /\ Elems(q) = Elems(ready_queue) \cup {s}
      BY <3>2, QueueReady, QueueElems, AppendFacts DEF sched_add
    <3>5. current_thread # NoThread =>
            tid'[current_thread] # 0 /\ rs[current_thread] # "NEW"
      BY <1>2, <3>2, <3>3 DEF CurrentHeld
    <3>6. \A r \in Elems(q) :
            /\ tid'[r] # 0 /\ rs[r] # "EXITED" /\ r # current_thread
            /\ rs[r] = "READY" =>
                  saved[r] # "none" /\ (saved[r] = "join" => temp'[r] # NoThread)
      <4>1. \A r \in Elems(ready_queue) : r \in Slots \ {s}
        BY <3>2, QueueReady
      <4> QED BY <4>1, <3>2, <3>3, <3>4, QueueReady
    <3>7. schedule(rs, q, "resumed")
      BY <3>1
    <3> HIDE DEF rs, q
    <3>8. Sound
      BY <1>2, <3>2, <3>3, <3>4, <3>5, <3>6, <3>7, ScheduleSound
    <3> QED BY <3>2, <3>8
  <2> QED BY <2>1, <2>2
<1>4. shell_if' \in BOOLEAN
  BY <1>1
<1>5. TypeOK'
  BY <1>1, <1>3, <1>4 DEF TypeOK, Modes
<1>6. ShellProcess'
  BY <1>1, <1>3, NullFacts DEF ShellProcess, Cr3Open, Running
<1> QED BY <1>3, <1>5, <1>6

\* IInv is inductive.
LEMMA NextInv == IInv /\ [Next]_vars => IInv'
<1> SUFFICES ASSUME IInv, [Next]_vars PROVE IInv'
  OBVIOUS
<1>1. CASE UNCHANGED vars
  BY <1>1 DEF vars, IInv, TypeOK, QueueSound, Queued, Live, RunningSound, Running,
              TidsUnique, CurrentHeld, HeldProcess, SavedSound, ShellProcess,
              Cr3Open
<1>2. CASE Next
  BY <1>2, ShellLoadInv, ProcessStartInv, ClosingInv, BootTickInv,
     BootTickInStartInv, YieldingInv, ThrdCreateInv, ThrdExitInv, ThrdJoinInv,
     JoinReapInv DEF Next
<1> QED BY <1>1, <1>2

-----------------------------------------------------------------------------
(* Theorems. *)

\* The inductive invariant holds in every reachable state.
THEOREM Inductive == Spec => []IInv
BY InitInv, NextInv, PTL DEF Spec

\* Every variable of the kernel keeps its type; in particular the scheduler
\* never restores a context that was not saved, and never runs into NULL.
THEOREM TypeCorrect == Spec => []TypeOK
<1>1. IInv => TypeOK
  BY DEF IInv
<1> QED BY <1>1, Inductive, PTL

\* Whatever programs do and wherever ticks and faults fall, the ready queue
\* holds each live thread at most once, never the current one, and never an
\* exited or free entry.
THEOREM QueueIsSound == Spec => []QueueSound
<1>1. IInv => QueueSound
  BY DEF IInv
<1> QED BY <1>1, Inductive, PTL

\* User code runs only for a live, started thread, as the process that thread
\* belongs to.
THEOREM RunningIsSound == Spec => []RunningSound
<1>1. IInv => RunningSound
  BY DEF IInv
<1> QED BY <1>1, Inductive, PTL

\* tids are unique for ever.
THEOREM TidsAreUnique == Spec => []TidsUnique
<1>1. IInv => TidsUnique
  BY DEF IInv
<1> QED BY <1>1, Inductive, PTL

\* User code never runs on the page tables of a closed process, and at most
\* one process owns page tables.
THEOREM Cr3IsOpen == Spec => []Cr3Open
<1>1. IInv => Cr3Open
  BY DEF IInv, ShellProcess
<1> QED BY <1>1, Inductive, PTL

-----------------------------------------------------------------------------
(* No thread is lost, unless the first tick hits process_start. *)

\* The step that keeps every runnable thread queued or current.
LEMMA NoLostStep ==
    ASSUME "earlytick" \notin Env, IInv, NoLostThread, [Next]_vars
    PROVE  NoLostThread'
<1> USE DEF IInv
<1>0. /\ current_thread \in Slots \cup {NoThread}
      /\ runstate \in [Slots -> Runstates] /\ tid \in [Slots -> 0 .. MaxTid]
      /\ process \in [Slots -> Procs \cup {NoProc}]
      /\ Queued = Elems(ready_queue) /\ Queued' = Elems(ready_queue')
  BY DEF TypeOK, Queued, Elems
\* schedule() drops nobody.
<1>1. ASSUME NEW rs \in [Slots -> Runstates], NEW q \in Seq(Slots), NEW ctx,
             Inj(q),
             \A s \in Elems(q) : rs[s] # "EXITED" /\ s # current_thread,
             current_thread # NoThread => rs[current_thread] # "NEW",
             \A s \in Slots : tid'[s] # 0 /\ rs[s] # "EXITED" =>
                                s \in Elems(q) \cup {current_thread},
             schedule(rs, q, ctx)
      PROVE  NoLostThread'
  <2>1. \/ /\ mode' = "undefined" /\ runstate' = rs /\ ready_queue' = q
           /\ UNCHANGED <<saved, current_thread, current_process>>
        \/ /\ current_thread' \in Slots
           /\ Elems(ready_queue') = (Elems(q) \cup Back(rs)) \ {current_thread'}
           /\ runstate' = [rs EXCEPT ![current_thread'] = "READY"]
           /\ current_thread' \in Elems(q) \cup Back(rs)
    BY <1>0, <1>1, ScheduleStep
  <2>2. CASE runstate' = rs /\ ready_queue' = q /\ UNCHANGED current_thread
    BY <1>0, <1>1, <2>2 DEF NoLostThread, Live
  <2>3. CASE /\ current_thread' \in Slots
             /\ Elems(ready_queue') = (Elems(q) \cup Back(rs)) \ {current_thread'}
             /\ runstate' = [rs EXCEPT ![current_thread'] = "READY"]
    <3> SUFFICES ASSUME NEW s \in Slots, tid'[s] # 0, runstate'[s] # "EXITED",
                        s # current_thread'
                 PROVE  s \in Elems(ready_queue')
      BY <1>0 DEF NoLostThread, Live
    <3>1. rs[s] # "EXITED"
      BY <2>3
    <3>2. CASE s \in Elems(q)
      BY <3>2, <2>3
    <3>3. CASE s = current_thread
      <4>1. rs[s] = "READY"
        BY <3>1, <3>3, <1>1, NullFacts DEF Runstates
      <4> QED BY <4>1, <3>3, <2>3, NullFacts DEF Back, goes_back
    <3> QED BY <3>1, <3>2, <3>3, <1>1
  <2> QED BY <2>1, <2>2, <2>3
<1>2. CASE UNCHANGED vars
  BY <1>2, <1>0 DEF vars, NoLostThread, Live
<1>3. CASE ShellLoad \/ StartFaults \/ ShellResume \/ BootTick \/ ThrdJoin \/ Fault
  <2>1. UNCHANGED <<tid, runstate, ready_queue, current_thread>>
    BY <1>3 DEF ShellLoad, StartFaults, ShellResume, BootTick, ThrdJoin, Fault, tcbvars
  <2> QED BY <2>1, <1>0 DEF NoLostThread, Live
<1>4. CASE ProcessExit
  <2>1. /\ UNCHANGED <<tid, ready_queue, current_thread>>
        /\ runstate' = [runstate EXCEPT ![current_thread] = "EXITED"]
    BY <1>4 DEF ProcessExit, tcbvars
  <2> QED BY <2>1, <1>0 DEF NoLostThread, Live
<1>5. CASE BootTickInStart
  BY <1>5 DEF BootTickInStart
<1>6. CASE Tick \/ ThrdYield \/ JoinYield \/ ThrdExit
  <2>1. PICK st \in {"READY", "EXITED"}, ctx \in Contexts :
          schedule([runstate EXCEPT ![current_thread] = st], ready_queue, ctx)
    BY <1>6 DEF Tick, ThrdYield, JoinYield, ThrdExit, thread_preempt,
                thread_yield, Contexts
  <2>2. tid' = tid /\ current_thread \in Slots /\ runstate[current_thread] = "READY"
    BY <1>0, <1>6 DEF Tick, ThrdYield, JoinYield, ThrdExit, tcbvars,
                     Executes, RunningSound, Running
  <2> DEFINE rs == [runstate EXCEPT ![current_thread] = st]
  <2>3. /\ rs \in [Slots -> Runstates] /\ rs[current_thread] # "NEW"
        /\ \A s \in Slots : s # current_thread => rs[s] = runstate[s]
    BY <1>0, <2>2 DEF Runstates
  <2>4. /\ ready_queue \in Seq(Slots) /\ Inj(ready_queue)
        /\ \A s \in Elems(ready_queue) : rs[s] # "EXITED" /\ s # current_thread
    BY <2>3, QueueReady
  <2>5. \A s \in Slots : tid'[s] # 0 /\ rs[s] # "EXITED" =>
                            s \in Elems(ready_queue) \cup {current_thread}
    BY <1>0, <2>2, <2>3 DEF NoLostThread, Live
  <2>6. schedule(rs, ready_queue, ctx)
    BY <2>1
  <2> HIDE DEF rs
  <2> QED BY <1>1, <2>3, <2>4, <2>5, <2>6
<1>7. CASE ThrdCreate
  <2>1. PICK s \in Slots : /\ thread_alloc(s) /\ thread_fill(s, current_process)
                           /\ runstate' = [runstate EXCEPT ![s] = "NEW"]
                           /\ ready_queue' = sched_add(ready_queue, s)
    BY <1>7 DEF ThrdCreate
  <2>2. tid' = [tid EXCEPT ![s] = next_tid] /\ UNCHANGED current_thread
    BY <1>7, <2>1 DEF ThrdCreate, thread_fill
  <2>3. Elems(ready_queue') = Elems(ready_queue) \cup {s}
    BY <2>1, QueueReady, AppendFacts DEF sched_add
  <2> QED BY <1>0, <2>1, <2>2, <2>3 DEF NoLostThread, Live
<1>8. CASE JoinReap
  <2> DEFINE r == temp[current_thread]
  <2>1. r \in Slots /\ runstate[r] = "EXITED"
    BY <1>8, NullFacts DEF JoinReap, join_done, SavedSound, RunningSound, Running, TypeOK
  <2>2. r \notin Queued
    BY <2>1 DEF QueueSound, Live
  <2>3. /\ ready_queue' = ready_queue /\ tid' = [tid EXCEPT ![r] = 0]
        /\ runstate' = [runstate EXCEPT ![r] = "NEW"] /\ UNCHANGED current_thread
    BY <1>8, <2>2 DEF JoinReap, thread_close
  <2> HIDE DEF r
  <2> QED BY <1>0, <2>1, <2>3 DEF NoLostThread, Live
<1>9. CASE ProcessStart
  <2>1. CASE \A s \in Slots : tid[s] # 0
    <3>1. tid' = tid /\ schedule(runstate, ready_queue, "resumed")
      BY <1>9, <2>1 DEF ProcessStart, thread_alloc, tcb_first, tcbvars
    <3>2. /\ ready_queue \in Seq(Slots) /\ Inj(ready_queue)
          /\ \A s \in Elems(ready_queue) : runstate[s] # "EXITED" /\ s # current_thread
      BY QueueReady
    <3>3. \A s \in Slots : tid'[s] # 0 /\ runstate[s] # "EXITED" =>
                              s \in Elems(ready_queue) \cup {current_thread}
      BY <1>0, <3>1 DEF NoLostThread, Live
    <3> QED BY <1>0, <1>1, <3>1, <3>2, <3>3 DEF CurrentHeld
  <2>2. CASE \E s \in Slots : tid[s] = 0
    <3>1. PICK s \in Slots :
            /\ thread_alloc(s) /\ thread_fill(s, shp)
            /\ schedule([runstate EXCEPT ![s] = "NEW"], sched_add(ready_queue, s),
                        "resumed")
      BY <1>9, <2>2 DEF ProcessStart
    <3> DEFINE rs == [runstate EXCEPT ![s] = "NEW"]
               q == sched_add(ready_queue, s)
    <3>2. /\ tid' = [tid EXCEPT ![s] = next_tid]
          /\ s \notin Queued /\ s # current_thread
      <4>1. tid[s] = 0
        BY <3>1 DEF thread_alloc, tcb_first
      <4> QED BY <3>1, <4>1, NullFacts DEF thread_fill, QueueSound, Live, CurrentHeld
    <3>3. /\ rs \in [Slots -> Runstates] /\ rs[s] = "NEW"
          /\ \A r \in Slots \ {s} : rs[r] = runstate[r]
      BY <1>0 DEF Runstates
    <3>4. q \in Seq(Slots) /\ Inj(q) /\ Elems(q) = Elems(ready_queue) \cup {s}
      BY <3>2, QueueReady, QueueElems, AppendFacts DEF sched_add
    <3>5. current_thread # NoThread => rs[current_thread] # "NEW"
      BY <1>0, <3>2, <3>3 DEF CurrentHeld
    <3>6. \A r \in Elems(q) : rs[r] # "EXITED" /\ r # current_thread
      <4>1. \A r \in Elems(ready_queue) : r \in Slots \ {s}
        BY <3>2, QueueReady
      <4> QED BY <4>1, <3>2, <3>3, <3>4, QueueReady
    <3>7. \A r \in Slots : tid'[r] # 0 /\ rs[r] # "EXITED" =>
                              r \in Elems(q) \cup {current_thread}
      BY <1>0, <3>2, <3>3, <3>4 DEF NoLostThread, Live
    <3>8. schedule(rs, q, "resumed")
      BY <3>1
    <3> HIDE DEF rs, q
    <3> QED BY <1>1, <3>3, <3>4, <3>5, <3>6, <3>7, <3>8
  <2> QED BY <2>1, <2>2
<1> QED BY <1>2, <1>3, <1>4, <1>5, <1>6, <1>7, <1>8, <1>9 DEF Next

\* If the first tick does not hit process_start, no thread is ever lost: each
\* one that can run is queued or current, whatever programs do.
THEOREM NoThreadIsLost ==
    ASSUME "earlytick" \notin Env
    PROVE  Spec => []NoLostThread
<1>1. Init => NoLostThread
  BY DEF Init, NoLostThread, Live
<1>2. IInv /\ NoLostThread /\ [Next]_vars => NoLostThread'
  BY NoLostStep
<1> QED BY <1>1, <1>2, Inductive, PTL DEF Spec

-----------------------------------------------------------------------------
(* The queue is first-in first-out. *)

\* Adding at the end puts nobody ahead of a waiting thread.
LEMMA AppendOrder ==
    ASSUME NEW q \in Seq(Slots), NEW x \in Slots, x \notin Elems(q),
           NEW s \in Elems(q), NEW t, ~Ahead(q, t, s)
    PROVE  ~Ahead(Append(q, x), t, s)
<1> SUFFICES ASSUME NEW i \in DOMAIN Append(q, x), NEW j \in DOMAIN Append(q, x),
                    i < j, Append(q, x)[i] = t, Append(q, x)[j] = s
             PROVE  FALSE
  BY DEF Ahead
<1>1. /\ DOMAIN Append(q, x) = 1 .. Len(q) + 1 /\ DOMAIN q = 1 .. Len(q)
      /\ Append(q, x)[Len(q) + 1] = x /\ Len(q) \in Nat
      /\ \A k \in 1 .. Len(q) : Append(q, x)[k] = q[k]
  OBVIOUS
<1>2. s # x
  OBVIOUS
<1>3. j \in DOMAIN q /\ i \in DOMAIN q
  BY <1>1, <1>2
<1> QED BY <1>1, <1>3 DEF Ahead

\* Removing the head puts nobody ahead of anybody.
LEMMA TailOrder ==
    ASSUME NEW q \in Seq(Slots), q # <<>>, NEW s, NEW t, ~Ahead(q, t, s)
    PROVE  ~Ahead(Tail(q), t, s)
<1> SUFFICES ASSUME NEW k \in DOMAIN Tail(q), NEW l \in DOMAIN Tail(q),
                    k < l, Tail(q)[k] = t, Tail(q)[l] = s
             PROVE  FALSE
  BY DEF Ahead
<1>1. /\ k \in Int /\ l \in Int /\ k + 1 < l + 1
      /\ k + 1 \in DOMAIN q /\ l + 1 \in DOMAIN q
      /\ q[k + 1] = t /\ q[l + 1] = s
  OBVIOUS
<1> QED BY <1>1 DEF Ahead

\* schedule() appends at most the current thread and then removes the head.
LEMMA ScheduleOrder ==
    ASSUME NEW rs \in [Slots -> Runstates], NEW q \in Seq(Slots), NEW ctx,
           current_thread \in Slots \cup {NoThread},
           Inj(q),
           \A s \in Elems(q) : rs[s] # "EXITED" /\ s # current_thread,
           schedule(rs, q, ctx),
           NEW s \in Elems(q), NEW t, ~Ahead(q, t, s)
    PROVE  ~Ahead(ready_queue', t, s)
<1> DEFINE q1 == IF goes_back(rs) THEN sched_add(q, current_thread) ELSE q
<1>1. q1 \in Seq(Slots) /\ Inj(q1) /\ ~Ahead(q1, t, s)
      /\ Elems(q1) = Elems(q) \cup Back(rs)
  <2>1. CASE goes_back(rs)
    <3>1. current_thread \in Slots /\ current_thread \notin Elems(q)
      BY <2>1 DEF goes_back
    <3> QED BY <2>1, <3>1, AppendFacts, AppendOrder DEF sched_add, Back
  <2>2. CASE ~goes_back(rs)
    BY <2>2 DEF Back
  <2> QED BY <2>1, <2>2
<1>2. q1 # <<>>
  <2> HIDE DEF q1
  <2>1. s \in Elems(q1)
    BY <1>1
  <2> QED BY <2>1 DEF Elems
<1>3. rs[Head(q1)] # "EXITED"
  <2>1. \A r \in Elems(q1) : rs[r] # "EXITED"
    BY <1>1 DEF Back, goes_back
  <2> QED BY <1>1, <1>2, <2>1, TailFacts
<1>4. choose_next_thread(rs, q1) = q1
  BY <1>3 DEF choose_next_thread
<1>5. ready_queue' = Tail(q1)
  <2> HIDE DEF q1
  <2>1. q1 = IF goes_back(rs) THEN sched_add(q, current_thread) ELSE q
    BY DEF q1
  <2> QED BY <1>2, <1>4, <2>1 DEF schedule, thread_switch
<1> HIDE DEF q1
<1> QED BY <1>1, <1>2, <1>5, TailOrder

\* No step puts a thread ahead of one that is waiting.
LEMMA FifoStep ==
    ASSUME IInv, [Next]_vars
    PROVE  FifoOrder
<1> SUFFICES ASSUME NEW s \in Elems(ready_queue), NEW t \in Slots,
                    ~Ahead(ready_queue, t, s)
             PROVE  ~Ahead(ready_queue', t, s)
  BY QueueElems DEF FifoOrder
<1> USE DEF IInv
<1>0. /\ current_thread \in Slots \cup {NoThread}
      /\ runstate \in [Slots -> Runstates]
      /\ ready_queue \in Seq(Slots) /\ Inj(ready_queue)
  BY QueueReady DEF TypeOK
<1>1. CASE UNCHANGED ready_queue
  BY <1>1
<1>2. CASE Tick \/ ThrdYield \/ JoinYield \/ ThrdExit
  <2>1. PICK st \in {"READY", "EXITED"}, ctx \in Contexts :
          schedule([runstate EXCEPT ![current_thread] = st], ready_queue, ctx)
    BY <1>2 DEF Tick, ThrdYield, JoinYield, ThrdExit, thread_preempt,
                thread_yield, Contexts
  <2> DEFINE rs == [runstate EXCEPT ![current_thread] = st]
  <2>2. /\ rs \in [Slots -> Runstates]
        /\ \A r \in Slots : r # current_thread => rs[r] = runstate[r]
    BY <1>0 DEF Runstates
  <2>3. \A r \in Elems(ready_queue) : rs[r] # "EXITED" /\ r # current_thread
    BY <2>2, QueueReady
  <2>4. schedule(rs, ready_queue, ctx)
    BY <2>1
  <2> HIDE DEF rs
  <2> QED BY <1>0, <2>2, <2>3, <2>4, ScheduleOrder
<1>3. CASE ThrdCreate
  <2>1. PICK r \in Slots : thread_alloc(r) /\ ready_queue' = Append(ready_queue, r)
    BY <1>3 DEF ThrdCreate, sched_add
  <2>2. r \notin Elems(ready_queue)
    BY <2>1, QueueReady DEF thread_alloc, tcb_first
  <2> QED BY <1>0, <2>1, <2>2, AppendOrder
<1>4. CASE ProcessStart
  <2>1. CASE schedule(runstate, ready_queue, "resumed")
    <3>1. \A r \in Elems(ready_queue) : runstate[r] # "EXITED" /\ r # current_thread
      BY QueueReady
    <3> QED BY <1>0, <2>1, <3>1, ScheduleOrder
  <2>2. ASSUME NEW r \in Slots, thread_alloc(r),
               schedule([runstate EXCEPT ![r] = "NEW"], sched_add(ready_queue, r),
                        "resumed")
        PROVE  ~Ahead(ready_queue', t, s)
    <3> DEFINE rs == [runstate EXCEPT ![r] = "NEW"]
               q == sched_add(ready_queue, r)
    <3>1. tid[r] = 0
      BY <2>2 DEF thread_alloc, tcb_first
    <3>2. r # current_thread /\ r \notin Elems(ready_queue)
      BY <3>1, QueueReady, NullFacts DEF CurrentHeld
    <3>3. /\ rs \in [Slots -> Runstates] /\ rs[r] = "NEW"
          /\ \A u \in Slots \ {r} : rs[u] = runstate[u]
      BY <1>0 DEF Runstates
    <3>4. /\ q \in Seq(Slots) /\ Inj(q) /\ Elems(q) = Elems(ready_queue) \cup {r}
          /\ ~Ahead(q, t, s)
      BY <1>0, <3>2, AppendFacts, AppendOrder DEF sched_add
    <3>5. \A u \in Elems(q) : rs[u] # "EXITED" /\ u # current_thread
      <4>1. \A u \in Elems(ready_queue) :
                u \in Slots \ {r} /\ runstate[u] # "EXITED" /\ u # current_thread
        BY <3>2, QueueReady
      <4> QED BY <4>1, <3>2, <3>3, <3>4
    <3>6. schedule(rs, q, "resumed")
      BY <2>2
    <3> HIDE DEF rs, q
    <3> QED BY <1>0, <3>3, <3>4, <3>5, <3>6, ScheduleOrder
  <2> QED BY <1>4, <2>1, <2>2 DEF ProcessStart
<1>5. CASE JoinReap
  <2>1. temp[current_thread] \notin Queued
    BY <1>5 DEF JoinReap, join_done, QueueSound, Live
  <2>2. UNCHANGED ready_queue
    BY <1>5, <2>1 DEF JoinReap, thread_close
  <2> QED BY <1>1, <2>2
<1>6. CASE ShellLoad \/ StartFaults \/ ShellResume \/ BootTick \/ BootTickInStart
           \/ ThrdJoin \/ ProcessExit \/ Fault \/ UNCHANGED vars
  <2>1. UNCHANGED ready_queue
    BY <1>6 DEF ShellLoad, StartFaults, ShellResume, BootTick, BootTickInStart,
                ThrdJoin, ProcessExit, Fault, vars
  <2> QED BY <1>1, <2>1
<1> QED BY <1>2, <1>3, <1>4, <1>5, <1>6 DEF Next

\* No thread ever gets ahead of one that is waiting in the ready queue.
THEOREM NoThreadOvertakes == Spec => NoOvertaking
<1>1. IInv /\ [Next]_vars => [FifoOrder]_vars
  BY FifoStep
<1> QED BY <1>1, Inductive, PTL DEF Spec, NoOvertaking

-----------------------------------------------------------------------------
(* What the scheduling actions do under IInv. *)

\* Timer preemption, thrd_yield and the yield inside thread_join: the current
\* thread joins the queue, and the thread that leaves it resumes where it was.
LEMMA YieldStep ==
    ASSUME IInv, Tick \/ ThrdYield \/ JoinYield
    PROVE  /\ Running /\ current_thread \in Slots /\ current_thread' \in Slots
           /\ UNCHANGED <<tid, process, owner, exit_status, temp, asked, next_tid,
                          shell_if, pid, loaded, noentry, cr3, shp, next_pid, passed>>
           /\ current_thread' \in Queued \cup {current_thread}
           /\ Queued' = (Queued \cup {current_thread}) \ {current_thread'}
           /\ runstate' = [runstate EXCEPT ![current_thread'] = "READY"]
           /\ saved' = [saved EXCEPT ![current_thread] = mode]
           /\ mode' = IF runstate[current_thread'] = "NEW" THEN "user"
                      ELSE saved'[current_thread']
<1>1. /\ schedule([runstate EXCEPT ![current_thread] = "READY"], ready_queue, mode)
      /\ Running
  BY DEF Tick, ThrdYield, Executes, JoinYield, thread_preempt, thread_yield, Running
<1>2. UNCHANGED <<tid, process, owner, exit_status, temp, asked, next_tid,
                  shell_if, pid, loaded, noentry, cr3, shp, next_pid, passed>>
  BY DEF Tick, ThrdYield, JoinYield, tcbvars, pcbvars
<1>3. /\ current_thread \in Slots /\ current_thread # NoThread
      /\ runstate[current_thread] = "READY"
      /\ runstate \in [Slots -> Runstates]
  BY <1>1 DEF IInv, TypeOK, RunningSound
<1>4. [runstate EXCEPT ![current_thread] = "READY"] = runstate
  BY <1>3
<1>5. /\ goes_back(runstate) /\ Back(runstate) = {current_thread}
      /\ cpu_task_save(mode) = [saved EXCEPT ![current_thread] = mode]
  BY <1>3 DEF goes_back, Back, cpu_task_save
<1>6. schedule(runstate, ready_queue, mode)
  BY <1>1, <1>4
<1>7. /\ current_thread' \in Slots
      /\ current_thread' \in Elems(ready_queue) \cup {current_thread}
      /\ Elems(ready_queue') =
            (Elems(ready_queue) \cup {current_thread}) \ {current_thread'}
      /\ runstate' = [runstate EXCEPT ![current_thread'] = "READY"]
      /\ saved' = [saved EXCEPT ![current_thread] = mode]
      /\ mode' = IF runstate[current_thread'] = "NEW" THEN "user"
                 ELSE saved'[current_thread']
  <2>1. /\ ready_queue \in Seq(Slots) /\ Inj(ready_queue)
        /\ \A s \in Elems(ready_queue) : runstate[s] # "EXITED" /\ s # current_thread
    BY QueueReady
  <2> QED BY <1>3, <1>5, <1>6, <2>1, ScheduleStep
<1> QED BY <1>1, <1>2, <1>3, <1>7 DEF Queued, Elems

\* thrd_exit: the head of the queue runs, or there is none.
LEMMA ExitStep ==
    ASSUME IInv, ThrdExit
    PROVE  /\ mode = "user" /\ current_thread \in Slots /\ tid[current_thread] # 0
           /\ UNCHANGED <<tid, process, owner, temp, asked, next_tid, shell_if,
                          pid, loaded, noentry, cr3, shp, next_pid>>
           /\ \E st \in Status :
                /\ exit_status' = [exit_status EXCEPT ![current_thread] = st]
                /\ passed' = [passed EXCEPT ![tid[current_thread]] = st]
           /\ \/ /\ mode' = "undefined" /\ Queued = {} /\ Queued' = {}
                 /\ current_thread' = current_thread /\ UNCHANGED saved
                 /\ runstate' = [runstate EXCEPT ![current_thread] = "EXITED"]
              \/ /\ current_thread' \in Queued /\ current_thread' \in Slots
                 /\ current_thread' # current_thread
                 /\ Queued' = Queued \ {current_thread'}
                 /\ runstate' = [runstate EXCEPT ![current_thread] = "EXITED",
                                                 ![current_thread'] = "READY"]
                 /\ saved' = [saved EXCEPT ![current_thread] = "none"]
                 /\ mode' = IF runstate[current_thread'] = "NEW" THEN "user"
                            ELSE saved[current_thread']
<1> DEFINE rs == [runstate EXCEPT ![current_thread] = "EXITED"]
<1>1. /\ schedule(rs, ready_queue, "none") /\ Running /\ mode = "user"
      /\ UNCHANGED <<tid, process, owner, temp, asked, next_tid, shell_if,
                     pid, loaded, noentry, cr3, shp, next_pid>>
      /\ \E st \in Status :
           /\ exit_status' = [exit_status EXCEPT ![current_thread] = st]
           /\ passed' = [passed EXCEPT ![tid[current_thread]] = st]
  BY DEF ThrdExit, Executes, Running, pcbvars
<1>2. /\ current_thread \in Slots /\ current_thread # NoThread
      /\ tid[current_thread] # 0
      /\ runstate \in [Slots -> Runstates] /\ saved \in [Slots -> Contexts]
  BY <1>1 DEF IInv, TypeOK, RunningSound
<1>3. /\ rs \in [Slots -> Runstates] /\ rs[current_thread] = "EXITED"
      /\ \A s \in Slots : s # current_thread => rs[s] = runstate[s]
  BY <1>2 DEF Runstates
<1>4. /\ ~goes_back(rs) /\ Back(rs) = {}
      /\ cpu_task_save("none") = [saved EXCEPT ![current_thread] = "none"]
  BY <1>2, <1>3 DEF goes_back, Back, cpu_task_save
<1>5. /\ ready_queue \in Seq(Slots) /\ Inj(ready_queue)
      /\ \A s \in Elems(ready_queue) : rs[s] # "EXITED" /\ s # current_thread
  BY <1>3, QueueReady
<1>6. \/ /\ mode' = "undefined" /\ runstate' = rs /\ ready_queue' = ready_queue
         /\ UNCHANGED <<saved, current_thread, current_process>>
         /\ ready_queue = <<>>
      \/ /\ current_thread' \in Slots
         /\ current_thread' \in Elems(ready_queue)
         /\ Elems(ready_queue') = Elems(ready_queue) \ {current_thread'}
         /\ runstate' = [rs EXCEPT ![current_thread'] = "READY"]
         /\ saved' = [saved EXCEPT ![current_thread] = "none"]
         /\ mode' = IF rs[current_thread'] = "NEW" THEN "user"
                    ELSE saved'[current_thread']
  <2> HIDE DEF rs
  <2> QED BY <1>1, <1>2, <1>3, <1>4, <1>5, ScheduleStep, SMTT(30)
<1>7. Queued = Elems(ready_queue) /\ Queued' = Elems(ready_queue')
  BY DEF Queued, Elems
<1>8. CASE mode' = "undefined" /\ runstate' = rs /\ ready_queue' = ready_queue
           /\ UNCHANGED <<saved, current_thread, current_process>>
           /\ ready_queue = <<>>
  <2>1. Queued = {} /\ Queued' = {}
    BY <1>8 DEF Queued
  <2> QED BY <1>1, <1>2, <1>8, <2>1
<1>9. CASE /\ current_thread' \in Slots
           /\ current_thread' \in Elems(ready_queue)
           /\ Elems(ready_queue') = Elems(ready_queue) \ {current_thread'}
           /\ runstate' = [rs EXCEPT ![current_thread'] = "READY"]
           /\ saved' = [saved EXCEPT ![current_thread] = "none"]
           /\ mode' = IF rs[current_thread'] = "NEW" THEN "user"
                      ELSE saved'[current_thread']
  <2>1. current_thread' # current_thread
    BY <1>5, <1>9
  <2>2. /\ rs[current_thread'] = runstate[current_thread']
        /\ saved'[current_thread'] = saved[current_thread']
    BY <2>1, <1>2, <1>3, <1>9
  <2> QED BY <1>1, <1>2, <1>7, <1>9, <2>1, <2>2
<1> QED BY <1>6, <1>8, <1>9

\* thread_create on the first free entry.
LEMMA FillStep ==
    ASSUME IInv, NEW s \in Slots, NEW p, thread_alloc(s), thread_fill(s, p)
    PROVE  /\ tid[s] = 0 /\ next_tid \in 1 .. MaxTid /\ next_tid' = next_tid + 1
           /\ tid' = [tid EXCEPT ![s] = next_tid]
           /\ process' = [process EXCEPT ![s] = p]
           /\ owner' = [owner EXCEPT ![s] = pid[p]]
           /\ UNCHANGED <<exit_status, temp, asked>>
           /\ s \notin Queued /\ s # current_thread /\ s # NoThread
<1>1. /\ tid' = [tid EXCEPT ![s] = next_tid]
      /\ process' = [process EXCEPT ![s] = p]
      /\ owner' = [owner EXCEPT ![s] = pid[p]]
      /\ next_tid \in 1 .. MaxTid /\ next_tid' = next_tid + 1
      /\ UNCHANGED <<exit_status, temp, asked>>
  BY KernelAssumption DEF thread_fill, tid_after, IInv, TypeOK
<1>2. tid[s] = 0
  BY DEF thread_alloc, tcb_first
<1>3. s \notin Queued /\ s # current_thread /\ s # NoThread
  BY <1>2, NullFacts DEF IInv, QueueSound, Live, CurrentHeld
<1> QED BY <1>1, <1>2, <1>3

\* process_start with a free entry of tcb[]: the new thread stands last in the
\* queue when schedule() takes the first.
LEMMA StartNew ==
    ASSUME IInv, ProcessStart, NEW free \in Slots, tid[free] = 0
    PROVE  \E s \in Slots :
             /\ thread_alloc(s) /\ thread_fill(s, shp)
             /\ current_thread' \in Slots
             /\ current_thread' \in Queued \cup {s} \cup Back(runstate)
             /\ Queued' = (Queued \cup {s} \cup Back(runstate)) \ {current_thread'}
             /\ runstate' = [[runstate EXCEPT ![s] = "NEW"]
                                 EXCEPT ![current_thread'] = "READY"]
             /\ saved' = cpu_task_save("resumed")
             /\ mode' = IF current_thread' = s \/ runstate[current_thread'] = "NEW"
                        THEN "user" ELSE saved'[current_thread']
<1>1. PICK s \in Slots :
        /\ thread_alloc(s) /\ thread_fill(s, shp)
        /\ schedule([runstate EXCEPT ![s] = "NEW"], sched_add(ready_queue, s),
                    "resumed")
  BY DEF ProcessStart
<1> DEFINE rs == [runstate EXCEPT ![s] = "NEW"]
           q == sched_add(ready_queue, s)
<1>2. s \notin Queued /\ s # current_thread /\ s # NoThread
  BY <1>1, FillStep
<1>3. /\ current_thread \in Slots \cup {NoThread}
      /\ runstate \in [Slots -> Runstates]
      /\ Queued = Elems(ready_queue) /\ Queued' = Elems(ready_queue')
  BY DEF IInv, TypeOK, Queued, Elems
<1>4. /\ rs \in [Slots -> Runstates] /\ rs[s] = "NEW"
      /\ \A r \in Slots \ {s} : rs[r] = runstate[r]
  BY <1>3 DEF Runstates
<1>5. /\ q \in Seq(Slots) /\ Inj(q) /\ Elems(q) = Elems(ready_queue) \cup {s}
      /\ q # <<>>
  BY <1>2, QueueReady, QueueElems, AppendFacts DEF sched_add
<1>6. \A r \in Elems(q) : rs[r] # "EXITED" /\ r # current_thread
  <2>1. \A r \in Elems(ready_queue) : r \in Slots \ {s}
    BY <1>2, QueueReady
  <2> QED BY <2>1, <1>2, <1>4, <1>5, QueueReady
<1>7. schedule(rs, q, "resumed")
  BY <1>1
<1>8. goes_back(rs) <=> goes_back(runstate)
  BY <1>2, <1>3, <1>4 DEF goes_back
<1>9. Back(rs) = Back(runstate)
  BY <1>8 DEF Back
<1>10. /\ current_thread' \in Slots
       /\ current_thread' \in Elems(q) \cup Back(rs)
       /\ Elems(ready_queue') = (Elems(q) \cup Back(rs)) \ {current_thread'}
       /\ runstate' = [rs EXCEPT ![current_thread'] = "READY"]
       /\ saved' = cpu_task_save("resumed")
       /\ mode' = IF rs[current_thread'] = "NEW" THEN "user"
                  ELSE saved'[current_thread']
  <2> HIDE DEF rs, q
  <2> QED BY <1>3, <1>4, <1>5, <1>6, <1>7, ScheduleStep
<1>11. rs[current_thread'] = "NEW" <=>
         current_thread' = s \/ runstate[current_thread'] = "NEW"
  BY <1>4, <1>10
<1> QED BY <1>1, <1>3, <1>5, <1>9, <1>10, <1>11

\* process_start with a full tcb[]: only schedule().
LEMMA StartFull ==
    ASSUME IInv, ProcessStart, \A s \in Slots : tid[s] # 0
    PROVE  /\ UNCHANGED <<tid, process, owner, exit_status, temp, asked, next_tid>>
           /\ \/ /\ mode' = "undefined" /\ runstate' = runstate
                 /\ UNCHANGED <<ready_queue, saved, current_thread>>
              \/ /\ current_thread' \in Slots
                 /\ current_thread' \in Queued \cup Back(runstate)
                 /\ Queued' = (Queued \cup Back(runstate)) \ {current_thread'}
                 /\ mode' = IF runstate[current_thread'] = "NEW" THEN "user"
                            ELSE saved'[current_thread']
<1>1. /\ UNCHANGED <<tid, process, owner, exit_status, temp, asked, next_tid>>
      /\ schedule(runstate, ready_queue, "resumed")
  BY DEF ProcessStart, thread_alloc, tcb_first, tcbvars
<1>2. /\ ready_queue \in Seq(Slots) /\ Inj(ready_queue)
      /\ \A s \in Elems(ready_queue) : runstate[s] # "EXITED" /\ s # current_thread
  BY QueueReady
<1>3. /\ runstate \in [Slots -> Runstates]
      /\ current_thread \in Slots \cup {NoThread}
      /\ Queued = Elems(ready_queue) /\ Queued' = Elems(ready_queue')
  BY DEF IInv, TypeOK, Queued, Elems
<1> QED BY <1>1, <1>2, <1>3, ScheduleStep

-----------------------------------------------------------------------------
(* process_alloc always finds an entry. *)

\* A step of the running program, or its start: who can run still belongs to
\* entry p.
LEMMA SameProgram ==
    ASSUME NEW p \in {0, 1}, SoleProcess(p),
           mode \in {"loaded", "resumed", "user", "join"},
           mode' \in {"user", "join", "resumed"},
           UNCHANGED <<pid, shp>>,
           shell_if' => shell_if,
           mode # "loaded" \/ ~shell_if',
           \A s \in Queued' \cup {current_thread'} : s # NoThread => process'[s] = p
    PROVE  SoleProcess(p)'
BY DEF SoleProcess

\* The threads that can run, each with its process.
LEMMA RunnersOf ==
    ASSUME NEW p, IInv, SoleProcess(p)
    PROVE  /\ \A s \in Queued : s \in Slots /\ process[s] = p
           /\ current_thread \in Slots => process[current_thread] = p
<1>1. \A s \in Queued : s \in Slots
  BY QueueReady, QueueElems
<1> QED BY <1>1, NullFacts DEF SoleProcess

\* Every way to close a process gives the shell entry p back.
LEMMA CloseSole ==
    ASSUME IInv, NEW p \in {0, 1}, SoleProcess(p), mode # "undefined",
           StartFaults \/ ShellResume \/ ProcessExit \/ Fault
    PROVE  SoleProcess(p)'
<1>1. p \in Procs /\ pid \in [Procs -> 0 .. MaxPid]
  BY KernelAssumption DEF Procs, IInv, TypeOK
<1>2. pid' = [pid EXCEPT ![p] = 0] /\ UNCHANGED shp
  <2>1. CASE StartFaults \/ ShellResume
    BY <2>1 DEF StartFaults, ShellResume, handle_exception, process_kill,
                process_close, SoleProcess
  <2>2. CASE ProcessExit \/ Fault
    <3>1. Running
      BY <2>2 DEF ProcessExit, Fault, Executes, Running
    <3>2. current_thread \in Slots /\ current_process = process[current_thread]
      BY <3>1 DEF IInv, TypeOK, RunningSound
    <3>3. current_process = p
      BY <3>2, RunnersOf
    <3> QED BY <2>2, <3>3 DEF ProcessExit, Fault, handle_exception, process_kill,
                              process_close
  <2> QED BY <2>1, <2>2
<1>3. /\ mode' = "prompt" /\ shell_if' = FALSE
      /\ UNCHANGED <<process, ready_queue, current_thread>>
  BY DEF StartFaults, ShellResume, ProcessExit, Fault, handle_exception,
         kernel_noreturn, tcbvars
<1>4. \A r \in Procs : /\ r < p => pid'[r] # 0
                       /\ r > p => pid'[r] = 0
  BY <1>1, <1>2 DEF SoleProcess, Procs
<1>5. pid'[p] = 0
  BY <1>1, <1>2
<1>6. \A s \in Queued' \cup {current_thread'} : s # NoThread => process'[s] = p
  BY <1>3 DEF SoleProcess, Queued
<1> QED BY <1>3, <1>4, <1>5, <1>6 DEF SoleProcess

\* The shell takes the first free entry, which is p.
LEMMA LoadSole ==
    ASSUME IInv, NEW p \in {0, 1}, SoleProcess(p), ShellLoad, mode' # "undefined"
    PROVE  SoleProcess(p)'
<1>1. /\ p \in Procs /\ pid \in [Procs -> 0 .. MaxPid] /\ next_pid \in 1 .. MaxPid + 1
      /\ Procs \subseteq Nat
  BY KernelAssumption DEF Procs, IInv, TypeOK
<1>2. PICK r \in Procs : process_alloc(r) /\ process_load_path(r) /\ shp' = r
  BY DEF ShellLoad
<1>3. pid[p] = 0
  BY DEF ShellLoad, SoleProcess
<1>4. r = p
  <2>1. ~(r < p) /\ ~(p < r)
    BY <1>1, <1>2, <1>3 DEF SoleProcess, process_alloc
  <2> QED BY <2>1, <1>1
<1>5. /\ pid' = [pid EXCEPT ![p] = next_pid] /\ next_pid # 0
      /\ mode' = "loaded"
      /\ UNCHANGED <<process, ready_queue, current_thread, shell_if>>
  BY <1>1, <1>2, <1>4 DEF ShellLoad, process_load_path, tcbvars
<1>6. \A i \in Procs : /\ i < p => pid'[i] # 0
                       /\ i > p => pid'[i] = 0
  BY <1>1, <1>5 DEF SoleProcess, Procs
<1>7. pid'[p] # 0
  BY <1>1, <1>5
<1>8. \A s \in Queued' \cup {current_thread'} : s # NoThread => process'[s] = p
  BY <1>5 DEF SoleProcess, Queued
<1> QED BY <1>2, <1>4, <1>5, <1>6, <1>7, <1>8 DEF SoleProcess

\* The first tick, at the prompt or while the first program is being started:
\* entry 0 stays open for ever, and entry 1 serves from now on.
LEMMA TickSole ==
    ASSUME IInv, NEW p \in {0, 1}, SoleProcess(p), BootTick \/ BootTickInStart,
           mode' # "undefined"
    PROVE  \E q \in {0, 1} : SoleProcess(q)'
<1>1. /\ p = 0 /\ ready_queue = <<>> /\ current_thread = NoThread
      /\ mode' = "prompt" /\ shell_if' = FALSE
      /\ UNCHANGED <<pid, shp, ready_queue, current_thread>>
  BY DEF SoleProcess, BootTick, BootTickInStart, kernel_noreturn, pcbvars
<1>2. Queued' \cup {current_thread'} = {NoThread}
  BY <1>1 DEF Queued
<1>3. Procs \subseteq Nat /\ 0 \in Procs /\ 1 \in Procs
  BY KernelAssumption DEF Procs
<1>4. CASE mode = "prompt"
  <2>1. SoleProcess(0)'
    BY <1>1, <1>2, <1>3, <1>4 DEF SoleProcess
  <2> QED BY <2>1
<1>5. CASE mode = "loaded"
  <2>1. pid[0] # 0 /\ \A r \in Procs : r > 0 => pid[r] = 0
    BY <1>1, <1>5 DEF SoleProcess
  <2>2. \A r \in Procs : (r < 1 => pid'[r] # 0) /\ (r > 1 => pid'[r] = 0)
    BY <2>1, <1>1, <1>3
  <2>3. pid'[1] = 0
    BY <2>1, <1>1, <1>3
  <2>4. SoleProcess(1)'
    BY <1>1, <1>2, <2>2, <2>3 DEF SoleProcess
  <2> QED BY <2>4
<1> QED BY <1>4, <1>5 DEF BootTick, BootTickInStart

LEMMA StartSole ==
    ASSUME IInv, NEW p \in {0, 1}, SoleProcess(p), ProcessStart, mode' # "undefined"
    PROVE  SoleProcess(p)'
<1>1. /\ mode = "loaded" /\ shp = p /\ shell_if' = FALSE
      /\ UNCHANGED <<pid, shp>>
  BY DEF ProcessStart, pcbvars, SoleProcess
<1>2. mode' \in {"user", "join", "resumed"}
  <2>1. mode' \in Modes /\ saved' \in [Slots -> Contexts]
    BY ProcessStartInv DEF IInv, TypeOK
  <2>2. \/ mode' = "user"
        \/ current_thread' \in Slots /\ mode' = saved'[current_thread']
    BY StartNew, StartFull
  <2>3. mode' \in Contexts \cup {"user"}
    BY <2>1, <2>2
  <2> QED BY <2>1, <2>3 DEF Modes, Contexts
<1>3. process \in [Slots -> Procs \cup {NoProc}]
  BY DEF IInv, TypeOK
<1>4. \A s \in Queued' \cup {current_thread'} : s # NoThread => process'[s] = p
  <2>0. \A r \in Back(runstate) : r \in Slots /\ process[r] = p
    BY RunnersOf DEF Back, goes_back, IInv, TypeOK
  <2>1. CASE \A s \in Slots : tid[s] # 0
    BY <2>0, <2>1, StartFull, RunnersOf
  <2>2. CASE \E s \in Slots : tid[s] = 0
    <3>1. PICK s \in Slots :
            /\ thread_alloc(s) /\ thread_fill(s, shp)
            /\ current_thread' \in Queued \cup {s} \cup Back(runstate)
            /\ Queued' = (Queued \cup {s} \cup Back(runstate)) \ {current_thread'}
      BY <2>2, StartNew
    <3>2. process' = [process EXCEPT ![s] = p]
      BY <3>1, <1>1, FillStep
    <3> QED BY <2>0, <3>1, <3>2, <1>3, RunnersOf
  <2> QED BY <2>1, <2>2
<1> QED BY <1>1, <1>2, <1>4, SameProgram

\* The running program's own steps.
LEMMA RunSole ==
    ASSUME IInv, NEW p \in {0, 1}, SoleProcess(p), mode' # "undefined",
           \/ Tick \/ ThrdYield \/ JoinYield \/ ThrdExit
           \/ ThrdCreate \/ ThrdJoin \/ JoinReap
    PROVE  SoleProcess(p)'
<1>0. Running /\ process \in [Slots -> Procs \cup {NoProc}]
  BY DEF Tick, ThrdYield, JoinYield, ThrdExit, ThrdCreate, ThrdJoin, JoinReap,
         Executes, Running, IInv, TypeOK
<1>1. UNCHANGED <<pid, shp, shell_if>>
  BY DEF Tick, ThrdYield, JoinYield, ThrdExit, ThrdCreate, ThrdJoin, JoinReap, pcbvars
<1>2. current_thread \in Slots /\ current_process = process[current_thread]
  BY <1>0 DEF IInv, TypeOK, RunningSound
<1>3. process[current_thread] = p /\ \A s \in Queued : s \in Slots /\ process[s] = p
  BY <1>2, RunnersOf
<1>4. CASE Tick \/ ThrdYield \/ JoinYield
  <2>1. mode' \in {"user", "join", "resumed"}
    <3>1. mode' \in Modes /\ saved' \in [Slots -> Contexts]
      BY <1>4, YieldingInv DEF IInv, TypeOK
    <3>2. mode' \in Contexts \cup {"user"}
      BY <1>4, <3>1, YieldStep
    <3> QED BY <3>1, <3>2 DEF Modes, Contexts
  <2>2. \A s \in Queued' \cup {current_thread'} : s # NoThread => process'[s] = p
    BY <1>3, <1>4, YieldStep
  <2> QED BY <1>0, <1>1, <2>1, <2>2, SameProgram DEF Running
<1>5. CASE ThrdExit
  <2>1. mode' \in {"user", "join", "resumed"}
    <3>1. mode' \in Modes /\ saved \in [Slots -> Contexts]
      BY <1>5, ThrdExitInv DEF IInv, TypeOK
    <3>2. mode' \in Contexts \cup {"user"}
      BY <1>5, <3>1, ExitStep
    <3> QED BY <3>1, <3>2 DEF Modes, Contexts
  <2>2. \A s \in Queued' \cup {current_thread'} : s # NoThread => process'[s] = p
    BY <1>3, <1>5, ExitStep
  <2> QED BY <1>0, <1>1, <2>1, <2>2, SameProgram DEF Running
<1>6. CASE ThrdCreate
  <2>1. PICK s \in Slots : /\ thread_alloc(s) /\ thread_fill(s, p)
                           /\ ready_queue' = sched_add(ready_queue, s)
    BY <1>2, <1>3, <1>6 DEF ThrdCreate
  <2>2. Queued' = Queued \cup {s} /\ UNCHANGED <<current_thread, mode>>
    <3>1. Elems(ready_queue') = Elems(ready_queue) \cup {s}
      BY <2>1, QueueReady, AppendFacts DEF sched_add
    <3> QED BY <1>6, <3>1 DEF ThrdCreate, Queued, Elems
  <2>3. process' = [process EXCEPT ![s] = p]
    BY <2>1, FillStep
  <2>4. \A r \in Queued' \cup {current_thread'} : r # NoThread => process'[r] = p
    BY <1>0, <1>2, <1>3, <2>2, <2>3
  <2> QED BY <1>0, <1>1, <2>2, <2>4, SameProgram DEF Running
<1>7. CASE ThrdJoin
  <2>1. mode' = "join" /\ UNCHANGED <<process, ready_queue, current_thread>>
    BY <1>7 DEF ThrdJoin
  <2>2. \A r \in Queued' \cup {current_thread'} : r # NoThread => process'[r] = p
    BY <1>3, <2>1 DEF Queued
  <2> QED BY <1>0, <1>1, <2>1, <2>2, SameProgram DEF Running
<1>8. CASE JoinReap
  <2>1. /\ mode' = "user" /\ UNCHANGED current_thread
        /\ process' = [process EXCEPT ![temp[current_thread]] = NoProc]
        /\ runstate[temp[current_thread]] = "EXITED"
    BY <1>8 DEF JoinReap, thread_close, join_done
  <2>2. Queued' \subseteq Queued /\ temp[current_thread] \notin Queued \cup {current_thread}
    <3>1. temp[current_thread] \notin Queued
      BY <2>1 DEF IInv, QueueSound, Live
    <3>2. ready_queue' = ready_queue
      BY <1>8, <3>1 DEF JoinReap, thread_close
    <3> QED BY <3>1, <3>2, <2>1, <1>0 DEF Queued, IInv, RunningSound
  <2>3. \A r \in Queued' \cup {current_thread'} : r # NoThread => process'[r] = p
    BY <1>0, <1>2, <1>3, <2>1, <2>2
  <2> QED BY <1>0, <1>1, <2>1, <2>3, SameProgram DEF Running
<1> QED BY <1>4, <1>5, <1>6, <1>7, <1>8

LEMMA AllocStep == IInv /\ AllocSound /\ [Next]_vars => AllocSound'
<1> SUFFICES ASSUME IInv, AllocSound, [Next]_vars, mode' # "undefined"
             PROVE  \E p \in {0, 1} : SoleProcess(p)'
  BY DEF AllocSound
<1>1. mode # "undefined"
  BY DEF Next, vars, ShellLoad, ProcessStart, StartFaults, ShellResume, BootTick,
         BootTickInStart, Tick, ThrdYield, ThrdCreate, ThrdExit, ThrdJoin, JoinReap,
         JoinYield, ProcessExit, Fault, Executes
<1>2. PICK p \in {0, 1} : SoleProcess(p)
  BY <1>1 DEF AllocSound
<1>3. CASE UNCHANGED vars
  <2>1. SoleProcess(p)'
    BY <1>2, <1>3 DEF vars, SoleProcess, Queued
  <2> QED BY <2>1
<1>4. CASE BootTick \/ BootTickInStart
  BY <1>2, <1>4, TickSole
<1>5. CASE Next /\ ~(BootTick \/ BootTickInStart)
  <2>1. SoleProcess(p)'
    BY <1>1, <1>2, <1>5, CloseSole, LoadSole, StartSole, RunSole DEF Next
  <2> QED BY <2>1
<1> QED BY <1>3, <1>4, <1>5

\* Whatever programs do, and whenever the first tick comes, process_alloc finds
\* a free entry of pcb[] when the shell asks for one: kshell_read_exec may use
\* its result without testing it.  PROCESS_MAX >= 2 is what that takes.
THEOREM ProcessAllocNeverFails == Spec => []ProcessAllocSucceeds
<1>1. Init => AllocSound
  <2> SUFFICES ASSUME Init PROVE SoleProcess(0)
    BY DEF AllocSound
  <2>1. Queued \cup {current_thread} = {NoThread}
    BY DEF Init, Queued
  <2>2. 0 \in Procs /\ Procs \subseteq Nat /\ pid = [p \in Procs |-> 0]
    BY KernelAssumption DEF Procs, Init
  <2>3. pid[0] = 0 /\ \A r \in Procs : ~(r < 0) /\ pid[r] = 0
    BY <2>2
  <2> QED BY <2>1, <2>3 DEF Init, SoleProcess
<1>2. IInv /\ AllocSound => ProcessAllocSucceeds
  BY KernelAssumption DEF AllocSound, SoleProcess, ProcessAllocSucceeds, Procs
<1> QED BY <1>1, <1>2, AllocStep, Inductive, PTL DEF Spec

-----------------------------------------------------------------------------
(* An entry keeps the exit status of its thread. *)

\* The entry that JoinReap closes.
LEMMA ReapStep ==
    ASSUME IInv, JoinReap
    PROVE  LET c == current_thread
               s == temp[current_thread]
           IN  /\ mode = "join" /\ mode' = "user"
               /\ c \in Slots /\ s \in Slots /\ s # c /\ s \notin Queued
               /\ runstate[s] = "EXITED"
               /\ tid' = [tid EXCEPT ![s] = 0]
               /\ process' = [process EXCEPT ![s] = NoProc]
               /\ owner' = [owner EXCEPT ![s] = 0]
               /\ runstate' = [runstate EXCEPT ![s] = "NEW"]
               /\ exit_status' = [exit_status EXCEPT ![s] = 0]
               /\ saved' = [saved EXCEPT ![s] = "none"]
               /\ temp' = [temp EXCEPT ![c] = NoThread, ![s] = NoThread]
               /\ asked' = [asked EXCEPT ![c] = 0, ![s] = 0]
               /\ UNCHANGED <<ready_queue, next_tid, current_thread, shell_if, pid,
                              loaded, noentry, cr3, shp, next_pid, passed>>
<1> DEFINE c == current_thread
           s == temp[current_thread]
<1>1. /\ mode = "join" /\ c \in Slots /\ s \in Slots
      /\ runstate[c] = "READY" /\ runstate[s] = "EXITED"
  BY NullFacts DEF JoinReap, join_done, IInv, RunningSound, Running, SavedSound, TypeOK
<1>2. s # c /\ s \notin Queued
  BY <1>1 DEF IInv, QueueSound, Live
<1>3. /\ ready_queue' = ready_queue
      /\ tid' = [tid EXCEPT ![s] = 0]
      /\ process' = [process EXCEPT ![s] = NoProc]
      /\ owner' = [owner EXCEPT ![s] = 0]
      /\ runstate' = [runstate EXCEPT ![s] = "NEW"]
      /\ exit_status' = [exit_status EXCEPT ![s] = 0]
      /\ saved' = [saved EXCEPT ![s] = "none"]
  BY <1>2 DEF JoinReap, thread_close
<1>4. /\ temp' = [temp EXCEPT ![c] = NoThread, ![s] = NoThread]
      /\ asked' = [asked EXCEPT ![c] = 0, ![s] = 0]
      /\ mode' = "user"
      /\ UNCHANGED <<next_tid, current_thread, shell_if, pid,
                     loaded, noentry, cr3, shp, next_pid, passed>>
  BY DEF JoinReap, pcbvars
<1> QED BY <1>1, <1>2, <1>3, <1>4

\* A new thread starts with the status 0 of its cleared entry.
LEMMA FillStatus ==
    ASSUME IInv, StatusKept, NEW s \in Slots, NEW p, thread_alloc(s),
           thread_fill(s, p), UNCHANGED passed
    PROVE  StatusKept'
<1>1. /\ tid[s] = 0 /\ next_tid \in 1 .. MaxTid /\ next_tid' = next_tid + 1
      /\ tid' = [tid EXCEPT ![s] = next_tid] /\ UNCHANGED exit_status
  BY FillStep
<1>2. tid \in [Slots -> 0 .. MaxTid] /\ passed[next_tid] = 0 /\ exit_status[s] = 0
  BY <1>1 DEF IInv, TypeOK, StatusKept
<1>3. ASSUME NEW r \in Slots
      PROVE  exit_status'[r] = IF tid'[r] = 0 THEN 0 ELSE passed'[tid'[r]]
  BY <1>1, <1>2 DEF StatusKept
<1>4. \A t \in 1 .. MaxTid : t >= next_tid' => passed'[t] = 0
  BY <1>1 DEF StatusKept
<1> QED BY <1>3, <1>4 DEF StatusKept

LEMMA StatusStep == IInv /\ StatusKept /\ [Next]_vars => StatusKept'
<1> SUFFICES ASSUME IInv, StatusKept, [Next]_vars PROVE StatusKept'
  OBVIOUS
<1>0. /\ tid \in [Slots -> 0 .. MaxTid] /\ exit_status \in [Slots -> Status]
      /\ passed \in [1 .. MaxTid -> Status] /\ next_tid \in 1 .. MaxTid + 1
  BY DEF IInv, TypeOK
<1>1. CASE UNCHANGED <<tid, exit_status, passed, next_tid>>
  BY <1>1 DEF StatusKept
<1>2. CASE ThrdCreate \/ BootTickInStart
  <2>1. \E s \in Slots, p \in Procs \cup {NoProc} : thread_alloc(s) /\ thread_fill(s, p)
    BY <1>2 DEF ThrdCreate, BootTickInStart, IInv, TypeOK
  <2>2. UNCHANGED passed
    BY <1>2 DEF ThrdCreate, BootTickInStart
  <2> QED BY <2>1, <2>2, FillStatus
<1>3. CASE ProcessStart
  <2>1. UNCHANGED passed
    BY <1>3 DEF ProcessStart
  <2>2. CASE \A s \in Slots : tid[s] # 0
    BY <1>1, <1>3, <2>1, <2>2, StartFull
  <2>3. CASE \E s \in Slots : tid[s] = 0
    BY <1>3, <2>1, <2>3, StartNew, FillStatus
  <2> QED BY <2>2, <2>3
<1>4. CASE ThrdExit
  <2> DEFINE c == current_thread
  <2>1. PICK st \in Status : /\ exit_status' = [exit_status EXCEPT ![c] = st]
                             /\ passed' = [passed EXCEPT ![tid[c]] = st]
    BY <1>4, ExitStep
  <2>2. c \in Slots /\ tid[c] # 0 /\ UNCHANGED <<tid, next_tid>>
    BY <1>4, ExitStep
  <2>3. tid[c] < next_tid /\ tid[c] \in 1 .. MaxTid
    BY <2>2, <1>0 DEF IInv, TidsUnique
  <2>4. ASSUME NEW r \in Slots
        PROVE  exit_status'[r] = IF tid'[r] = 0 THEN 0 ELSE passed'[tid'[r]]
    <3>1. CASE r = c
      BY <3>1, <2>1, <2>2, <2>3, <1>0
    <3>2. CASE r # c
      <4>1. tid[r] # tid[c]
        BY <3>2, <2>2 DEF IInv, TidsUnique
      <4>2. exit_status'[r] = exit_status[r]
        BY <3>2, <2>1, <1>0
      <4>3. tid[r] # 0 => passed'[tid[r]] = passed[tid[r]]
        BY <4>1, <2>1, <1>0
      <4> QED BY <4>2, <4>3, <2>2 DEF StatusKept
    <3> QED BY <3>1, <3>2
  <2>5. \A t \in 1 .. MaxTid : t >= next_tid' => passed'[t] = 0
    BY <2>1, <2>2, <2>3, <1>0 DEF StatusKept
  <2> QED BY <2>4, <2>5 DEF StatusKept
<1>5. CASE JoinReap
  <2> DEFINE s == temp[current_thread]
  <2>1. /\ s \in Slots /\ tid' = [tid EXCEPT ![s] = 0]
        /\ exit_status' = [exit_status EXCEPT ![s] = 0]
        /\ UNCHANGED <<passed, next_tid>>
    BY <1>5, ReapStep
  <2> HIDE DEF s
  <2>2. ASSUME NEW r \in Slots
        PROVE  exit_status'[r] = IF tid'[r] = 0 THEN 0 ELSE passed'[tid'[r]]
    BY <2>1, <1>0 DEF StatusKept
  <2> QED BY <2>1, <2>2 DEF StatusKept
<1>6. CASE \/ ShellLoad \/ StartFaults \/ ShellResume \/ BootTick \/ ThrdJoin
           \/ ProcessExit \/ Fault
  BY <1>1, <1>6 DEF ShellLoad, StartFaults, ShellResume, BootTick, ThrdJoin,
                    ProcessExit, Fault, tcbvars
<1>7. CASE Tick \/ ThrdYield \/ JoinYield
  BY <1>1, <1>7, YieldStep
<1>8. CASE UNCHANGED vars
  BY <1>1, <1>8 DEF vars
<1> QED BY <1>2, <1>3, <1>4, <1>5, <1>6, <1>7, <1>8 DEF Next

-----------------------------------------------------------------------------
(* Programs that keep the fork-join discipline. *)

\* What OneProgram says of the threads that can run.
LEMMA RunnersLive ==
    ASSUME IInv, OneProgram
    PROVE  /\ \A s \in Queued : s \in Slots /\ Live(s)
           /\ current_thread \in Slots \cup {NoThread}
           /\ Running => /\ current_thread \in Slots /\ Live(current_thread)
                         /\ owner[current_thread] = cr3
                         /\ process[current_thread] = shp /\ current_process = shp
           /\ ~Running => Queued = {} /\ Back(runstate) = {}
<1>1. \A s \in Queued : s \in Slots /\ Live(s)
  BY QueueReady, QueueElems DEF Live
<1>2. current_thread \in Slots \cup {NoThread}
  BY DEF IInv, TypeOK
<1>3. ASSUME Running
      PROVE  /\ current_thread \in Slots /\ Live(current_thread)
             /\ owner[current_thread] = cr3
             /\ process[current_thread] = shp /\ current_process = shp
  BY <1>2, <1>3 DEF IInv, RunningSound, Live, OneProgram
<1>4. ASSUME ~Running PROVE Queued = {} /\ Back(runstate) = {}
  BY <1>1, <1>2, <1>4 DEF OneProgram, Back, goes_back, Live, IInv, CurrentHeld
<1> QED BY <1>1, <1>2, <1>3, <1>4

\* The queue and the current thread after process_start of a disciplined
\* program: its main thread runs alone, or tcb[] is full and nothing runs.
LEMMA StartAlone ==
    ASSUME IInv, OneProgram, ProcessStart
    PROVE  /\ mode = "loaded" /\ ~Running
           /\ UNCHANGED <<pid, loaded, noentry, cr3, shp, next_pid, passed,
                          exit_status, temp, asked>>
           /\ \/ /\ \A s \in Slots : tid[s] # 0
                 /\ mode' = "undefined"
                 /\ UNCHANGED <<tid, process, owner, runstate, next_tid,
                                ready_queue, saved, current_thread>>
              \/ \E s \in Slots :
                   /\ thread_alloc(s) /\ thread_fill(s, shp)
                   /\ current_thread' = s /\ Queued' = {} /\ mode' = "user"
                   /\ runstate' = [runstate EXCEPT ![s] = "READY"]
                   /\ saved' = cpu_task_save("resumed")
<1>1. /\ mode = "loaded" /\ ~Running
      /\ UNCHANGED <<pid, loaded, noentry, cr3, shp, next_pid, passed>>
  BY DEF ProcessStart, Running, pcbvars
<1>2. Queued = {} /\ Back(runstate) = {} /\ runstate \in [Slots -> Runstates]
  BY <1>1, RunnersLive DEF IInv, TypeOK
<1>3. CASE \A s \in Slots : tid[s] # 0
  BY <1>1, <1>2, <1>3, StartFull
<1>4. CASE \E s \in Slots : tid[s] = 0
  <2>1. PICK s \in Slots :
          /\ thread_alloc(s) /\ thread_fill(s, shp)
          /\ current_thread' \in Queued \cup {s} \cup Back(runstate)
          /\ Queued' = (Queued \cup {s} \cup Back(runstate)) \ {current_thread'}
          /\ runstate' = [[runstate EXCEPT ![s] = "NEW"]
                              EXCEPT ![current_thread'] = "READY"]
          /\ saved' = cpu_task_save("resumed")
          /\ mode' = IF current_thread' = s \/ runstate[current_thread'] = "NEW"
                     THEN "user" ELSE saved'[current_thread']
    BY <1>4, StartNew
  <2>2. current_thread' = s /\ Queued' = {} /\ mode' = "user"
    BY <2>1, <1>2
  <2>3. runstate' = [runstate EXCEPT ![s] = "READY"]
    BY <2>1, <2>2, <1>2
  <2>4. UNCHANGED <<exit_status, temp, asked>>
    BY <2>1, FillStep
  <2> QED BY <1>1, <2>1, <2>2, <2>3, <2>4
<1> QED BY <1>3, <1>4

\* exit() of a disciplined program: nobody else can run.
LEMMA ExitAlone ==
    ASSUME Env = {}, IInv, OneProgram, ProcessExit
    PROVE  /\ mode = "user" /\ current_thread \in Slots /\ shp \in Procs
           /\ \A r \in Slots : r # current_thread => ~Live(r)
           /\ pid' = [pid EXCEPT ![shp] = 0]
           /\ runstate' = [runstate EXCEPT ![current_thread] = "EXITED"]
           /\ mode' = "prompt"
           /\ UNCHANGED <<tid, process, owner, exit_status, temp, asked, saved,
                          ready_queue, next_tid, current_thread, passed, noentry, shp>>
<1>1. /\ mode = "user" /\ Running
      /\ \A r \in Slots \ {current_thread} :
            Live(r) => owner[r] # owner[current_thread]
  BY DEF ProcessExit, Executes, Running
<1>2. /\ current_thread \in Slots /\ owner[current_thread] = cr3
      /\ current_process = shp
  BY <1>1, RunnersLive
<1>3. shp \in Procs
  BY <1>1 DEF IInv, TypeOK, ShellProcess
<1>4. \A r \in Slots : r # current_thread => ~Live(r)
  BY <1>1, <1>2 DEF OneProgram
<1> QED BY <1>1, <1>2, <1>3, <1>4 DEF ProcessExit, process_close, kernel_noreturn, tcbvars

\* thrd_exit of a disciplined program: another thread of it runs on.
LEMMA ExitGoesOn ==
    ASSUME Env = {}, IInv, NoLostThread, ThrdExit
    PROVE  /\ current_thread' \in Queued /\ current_thread' \in Slots
           /\ current_thread' # current_thread
           /\ Queued' = Queued \ {current_thread'}
           /\ runstate' = [runstate EXCEPT ![current_thread] = "EXITED",
                                           ![current_thread'] = "READY"]
           /\ saved' = [saved EXCEPT ![current_thread] = "none"]
           /\ mode' = IF runstate[current_thread'] = "NEW" THEN "user"
                      ELSE saved[current_thread']
<1>1. PICK r \in Slots \ {current_thread} : Live(r)
  BY DEF ThrdExit
<1>2. r \in Queued
  BY <1>1 DEF NoLostThread
<1> QED BY <1>2, ExitStep

\* The shell of a disciplined program loads it into an empty kernel.
LEMMA LoadAlone ==
    ASSUME Env = {}, IInv, OneProgram, ShellLoad
    PROVE  \E p \in Procs :
             /\ shp' = p /\ cr3' = next_pid /\ next_pid \in 1 .. MaxPid
             /\ pid' = [pid EXCEPT ![p] = next_pid]
             /\ mode = "prompt" /\ mode' = "loaded" /\ UNCHANGED noentry
             /\ UNCHANGED <<tid, process, owner, exit_status, temp, asked, runstate,
                            saved, ready_queue, next_tid, current_thread, passed>>
<1>1. loaded = {}
  <2>1. \A p \in Procs : pid[p] = 0
    BY DEF ShellLoad, OneProgram
  <2>2. \A p \in loaded : p \in Procs /\ pid[p] # 0
    BY DEF IInv, TypeOK, ShellProcess, Cr3Open
  <2> QED BY <2>1, <2>2
<1>2. PICK p \in Procs : process_load_path(p) /\ shp' = p
  BY DEF ShellLoad
<1>3. /\ cr3' = next_pid /\ mode' = "loaded" /\ UNCHANGED noentry
      /\ pid' = [pid EXCEPT ![p] = next_pid]
  BY <1>1, <1>2 DEF process_load_path, addrspc_fits
<1>4. next_pid \in 1 .. MaxPid
  BY DEF ShellLoad, IInv, TypeOK
<1> QED BY <1>2, <1>3, <1>4 DEF ShellLoad, tcbvars

\* What a disciplined program and a late first tick rule out.
LEMMA NeverHappens ==
    ASSUME Env = {}, IInv, OneProgram
    PROVE  ~StartFaults /\ ~ShellResume /\ ~BootTickInStart /\ ~Fault
BY DEF OneProgram, StartFaults, ShellResume, BootTickInStart, Fault, Executes

\* A step of the running program that leaves its process alone.
LEMMA SameOpen ==
    ASSUME OneProgram, Running, mode' \in {"user", "join"},
           UNCHANGED <<pid, noentry, cr3, shp>>,
           \A s \in Slots : Live(s)' => owner'[s] = cr3 /\ process'[s] = shp,
           \A s \in Queued' : runstate'[s] = "READY" => saved'[s] # "resumed"
    PROVE  OneProgram'
<1>1. Running'
  BY DEF Running
<1> QED BY <1>1 DEF OneProgram, Running

LEMMA OneProgramStep ==
    ASSUME Env = {}, IInv, NoLostThread, OneProgram, [Next]_vars
    PROVE  OneProgram'
<1>0. /\ tid \in [Slots -> 0 .. MaxTid] /\ runstate \in [Slots -> Runstates]
      /\ process \in [Slots -> Procs \cup {NoProc}] /\ owner \in [Slots -> 0 .. MaxPid]
      /\ pid \in [Procs -> 0 .. MaxPid] /\ saved \in [Slots -> Contexts]
  BY DEF IInv, TypeOK
<1>1. IInv'
  BY NextInv
<1>2. CASE UNCHANGED vars
  BY <1>2 DEF vars, OneProgram, Running, Live, Queued
<1>3. CASE ShellLoad
  <2>1. PICK p \in Procs :
          /\ shp' = p /\ cr3' = next_pid /\ next_pid \in 1 .. MaxPid
          /\ pid' = [pid EXCEPT ![p] = next_pid]
          /\ mode = "prompt" /\ mode' = "loaded" /\ UNCHANGED noentry
          /\ UNCHANGED <<tid, runstate, saved, ready_queue>>
    BY <1>3, LoadAlone
  <2>2. \A r \in Procs : pid[r] = 0
    BY <2>1 DEF OneProgram
  <2>3. /\ cr3' # 0 /\ pid'[shp'] = cr3'
        /\ \A r \in Procs \ {shp'} : pid'[r] = 0
    BY <2>1, <2>2, <1>0
  <2>4. ~Running' /\ \A s \in Slots : ~Live(s)'
    BY <2>1 DEF Running, Live, OneProgram
  <2>5. \A s \in Queued' : runstate'[s] = "READY" => saved'[s] # "resumed"
    BY <2>1 DEF OneProgram, Queued
  <2> QED BY <2>1, <2>3, <2>4, <2>5 DEF OneProgram
<1>4. CASE ProcessStart
  <2>1. CASE /\ \A s \in Slots : tid[s] # 0
             /\ mode' = "undefined"
             /\ UNCHANGED <<tid, runstate, ready_queue, saved>>
    <3>1. ~Running /\ ~Running' /\ UNCHANGED <<noentry>>
      BY <1>4, <2>1, StartAlone DEF Running
    <3>2. \A s \in Slots : ~Live(s)'
      BY <2>1, <3>1 DEF OneProgram, Live
    <3>3. \A s \in Queued' : runstate'[s] = "READY" => saved'[s] # "resumed"
      BY <2>1 DEF OneProgram, Queued
    <3> QED BY <2>1, <3>1, <3>2, <3>3 DEF OneProgram
  <2>2. CASE \E s \in Slots :
               /\ thread_alloc(s) /\ thread_fill(s, shp)
               /\ current_thread' = s /\ Queued' = {} /\ mode' = "user"
               /\ runstate' = [runstate EXCEPT ![s] = "READY"]
    <3>1. PICK s \in Slots :
               /\ thread_alloc(s) /\ thread_fill(s, shp)
               /\ current_thread' = s /\ Queued' = {} /\ mode' = "user"
               /\ runstate' = [runstate EXCEPT ![s] = "READY"]
      BY <2>2
    <3>2. /\ tid' = [tid EXCEPT ![s] = next_tid]
          /\ process' = [process EXCEPT ![s] = shp]
          /\ owner' = [owner EXCEPT ![s] = pid[shp]]
      BY <3>1, FillStep
    <3>3. /\ mode = "loaded" /\ ~Running /\ UNCHANGED <<pid, cr3, noentry, shp>>
          /\ cr3 # 0 /\ pid[shp] = cr3 /\ \A r \in Procs \ {shp} : pid[r] = 0
      BY <1>4, StartAlone DEF OneProgram
    <3>4. \A r \in Slots : Live(r)' => r = s
      BY <3>1, <3>2, <3>3, <1>0 DEF OneProgram, Live
    <3>5. owner'[s] = cr3' /\ process'[s] = shp'
      BY <3>2, <3>3, <1>0
    <3>6. Running'
      BY <3>1 DEF Running
    <3> QED BY <3>1, <3>3, <3>4, <3>5, <3>6 DEF OneProgram
  <2> QED BY <1>4, <2>1, <2>2, StartAlone
<1>5. CASE BootTick
  <2>1. /\ mode = "prompt" /\ mode' = "prompt"
        /\ UNCHANGED <<tid, runstate, saved, ready_queue, pid, noentry>>
    BY <1>5 DEF BootTick, kernel_noreturn, tcbvars, pcbvars
  <2> QED BY <2>1 DEF OneProgram, Running, Live, Queued
<1>6. CASE Tick \/ ThrdYield \/ JoinYield
  <2> DEFINE n == current_thread'
  <2>1. /\ Running /\ current_thread \in Slots /\ n \in Slots
        /\ UNCHANGED <<tid, process, owner, pid, noentry, cr3, shp>>
        /\ n \in Queued \cup {current_thread}
        /\ Queued' = (Queued \cup {current_thread}) \ {n}
        /\ runstate' = [runstate EXCEPT ![n] = "READY"]
        /\ saved' = [saved EXCEPT ![current_thread] = mode]
        /\ mode' = IF runstate[n] = "NEW" THEN "user" ELSE saved'[n]
    BY <1>6, YieldStep
  <2>2. mode \in {"user", "join"} /\ mode # "resumed"
    BY <2>1 DEF Running
  <2>3. \A s \in Queued \cup {current_thread} :
            s \in Slots /\ (runstate[s] = "READY" => saved'[s] # "resumed")
    BY <2>1, <2>2, <1>0, RunnersLive DEF OneProgram
  <2>4. mode' \in {"user", "join"}
    <3>1. mode' \in Modes /\ saved' \in [Slots -> Contexts]
      BY <1>1 DEF IInv, TypeOK
    <3>2. Live(n) /\ runstate[n] \in {"NEW", "READY"}
      BY <2>1, <1>0, RunnersLive DEF Live, Runstates
    <3>3. mode' \in Contexts \ {"resumed"}
      BY <2>1, <2>3, <3>1, <3>2 DEF Contexts
    <3> QED BY <3>1, <3>3 DEF Modes, Contexts
  <2>5. \A s \in Slots : Live(s)' => Live(s)
    <3>1. Live(n)
      BY <2>1, RunnersLive
    <3> QED BY <3>1, <2>1, <1>0 DEF Live
  <2>6. \A s \in Slots : Live(s)' => owner'[s] = cr3 /\ process'[s] = shp
    BY <2>1, <2>5 DEF OneProgram
  <2>7. \A s \in Queued' : runstate'[s] = "READY" => saved'[s] # "resumed"
    BY <2>1, <2>3, <1>0
  <2> QED BY <2>1, <2>4, <2>6, <2>7, SameOpen
<1>7. CASE ThrdExit
  <2> DEFINE n == current_thread'
             c == current_thread
  <2>1. /\ mode = "user" /\ Running /\ c \in Slots
        /\ UNCHANGED <<tid, process, owner, pid, noentry, cr3, shp>>
    BY <1>7, ExitStep DEF Running
  <2>2. /\ n \in Queued /\ n \in Slots /\ n # c
        /\ Queued' = Queued \ {n}
        /\ runstate' = [runstate EXCEPT ![c] = "EXITED", ![n] = "READY"]
        /\ saved' = [saved EXCEPT ![c] = "none"]
        /\ mode' = IF runstate[n] = "NEW" THEN "user" ELSE saved[n]
    BY <1>7, ExitGoesOn
  <2>3. mode' \in {"user", "join"}
    <3>1. mode' \in Modes
      BY <1>1 DEF IInv, TypeOK
    <3>2. Live(n) /\ runstate[n] \in {"NEW", "READY"}
      BY <2>2, <1>0, RunnersLive DEF Live, Runstates
    <3>3. mode' \in Contexts \ {"resumed"}
      BY <2>2, <3>2, <1>0 DEF Contexts, OneProgram
    <3> QED BY <3>1, <3>3 DEF Modes, Contexts
  <2>4. \A s \in Slots : Live(s)' => Live(s)
    <3>1. Live(n)
      BY <2>2, RunnersLive
    <3>2. \A s \in Slots \ {n} : runstate'[s] # "EXITED" => runstate[s] # "EXITED"
      BY <2>1, <2>2, <1>0
    <3> QED BY <3>1, <3>2, <2>1 DEF Live
  <2>5. \A s \in Slots : Live(s)' => owner'[s] = cr3 /\ process'[s] = shp
    BY <2>1, <2>4 DEF OneProgram
  <2>6. \A s \in Queued' : runstate'[s] = "READY" => saved'[s] # "resumed"
    BY <2>1, <2>2, <1>0, RunnersLive DEF OneProgram
  <2> QED BY <2>1, <2>3, <2>5, <2>6, SameOpen
<1>8. CASE ThrdCreate
  <2>0. /\ mode = "user" /\ mode' = "user" /\ Running
        /\ UNCHANGED <<pid, noentry, cr3, shp, saved>>
    BY <1>8 DEF ThrdCreate, Executes, Running, pcbvars
  <2>1. current_process = shp /\ pid[shp] = cr3
    BY <2>0, RunnersLive DEF OneProgram
  <2>2. PICK s \in Slots : /\ thread_alloc(s) /\ thread_fill(s, shp)
                           /\ runstate' = [runstate EXCEPT ![s] = "NEW"]
                           /\ ready_queue' = sched_add(ready_queue, s)
    BY <1>8, <2>1 DEF ThrdCreate
  <2>3. /\ tid' = [tid EXCEPT ![s] = next_tid]
        /\ process' = [process EXCEPT ![s] = shp]
        /\ owner' = [owner EXCEPT ![s] = cr3]
    BY <2>1, <2>2, FillStep
  <2>4. \A r \in Slots : Live(r)' => owner'[r] = cr3 /\ process'[r] = shp
    BY <2>0, <2>2, <2>3, <1>0 DEF OneProgram, Live
  <2>5. Queued' = Queued \cup {s}
    <3>1. Elems(ready_queue') = Elems(ready_queue) \cup {s}
      BY <2>2, QueueReady, AppendFacts DEF sched_add
    <3> QED BY <3>1 DEF Queued, Elems
  <2>6. \A r \in Queued' : runstate'[r] = "READY" => saved'[r] # "resumed"
    BY <2>0, <2>2, <2>5, <1>0, RunnersLive DEF OneProgram
  <2> QED BY <2>0, <2>4, <2>6, SameOpen
<1>9. CASE ThrdJoin
  <2>1. /\ Running /\ mode' = "join"
        /\ UNCHANGED <<pid, noentry, cr3, shp, tid, runstate, owner, process, saved,
                       ready_queue>>
    BY <1>9 DEF ThrdJoin, Executes, Running, pcbvars
  <2> QED BY <2>1, SameOpen DEF OneProgram, Live, Queued
<1>10. CASE JoinReap
  <2> DEFINE s == temp[current_thread]
  <2>1. /\ mode = "join" /\ mode' = "user" /\ s \in Slots
        /\ tid' = [tid EXCEPT ![s] = 0]
        /\ process' = [process EXCEPT ![s] = NoProc]
        /\ owner' = [owner EXCEPT ![s] = 0]
        /\ runstate' = [runstate EXCEPT ![s] = "NEW"]
        /\ saved' = [saved EXCEPT ![s] = "none"]
        /\ UNCHANGED <<ready_queue, pid, noentry, cr3, shp>>
    BY <1>10, ReapStep
  <2> HIDE DEF s
  <2>2. Running
    BY <2>1 DEF Running
  <2>3. \A r \in Slots : Live(r)' => owner'[r] = cr3 /\ process'[r] = shp
    BY <2>1, <2>2, <1>0 DEF OneProgram, Live
  <2>4. \A r \in Queued' : runstate'[r] = "READY" => saved'[r] # "resumed"
    <3>1. Queued' = Queued
      BY <2>1 DEF Queued
    <3> QED BY <3>1, <2>1, <1>0, RunnersLive DEF OneProgram
  <2> QED BY <2>1, <2>2, <2>3, <2>4, SameOpen
<1>11. CASE ProcessExit
  <2>1. /\ mode = "user" /\ current_thread \in Slots /\ shp \in Procs
        /\ \A r \in Slots : r # current_thread => ~Live(r)
        /\ pid' = [pid EXCEPT ![shp] = 0]
        /\ runstate' = [runstate EXCEPT ![current_thread] = "EXITED"]
        /\ mode' = "prompt"
        /\ UNCHANGED <<tid, saved, ready_queue, noentry>>
    BY <1>11, ExitAlone
  <2>2. \A p \in Procs : pid'[p] = 0
    BY <2>1, <1>0 DEF OneProgram
  <2>3. \A s \in Slots : ~Live(s)'
    BY <2>1, <1>0 DEF Live
  <2>4. \A s \in Queued' : runstate'[s] = "READY" => saved'[s] # "resumed"
    BY <2>1 DEF OneProgram, Queued
  <2>5. ~Running'
    BY <2>1 DEF Running
  <2> QED BY <2>1, <2>2, <2>3, <2>4, <2>5 DEF OneProgram
<1> QED BY <1>2, <1>3, <1>4, <1>5, <1>6, <1>7, <1>8, <1>9, <1>10, <1>11,
           NeverHappens DEF Next

\* thrd_join as a disciplined program calls it.
LEMMA JoinStep ==
    ASSUME Env = {}, IInv, ThrdJoin
    PROVE  \E s \in Slots, t \in 1 .. MaxTid :
             /\ mode = "user" /\ mode' = "join" /\ current_thread \in Slots
             /\ tid[s] = t /\ s # current_thread
             /\ \A r \in Slots : temp[r] # s
             /\ temp' = [temp EXCEPT ![current_thread] = s]
             /\ asked' = [asked EXCEPT ![current_thread] = t]
             /\ UNCHANGED <<tid, process, owner, exit_status, runstate, saved,
                            ready_queue, next_tid, current_thread, passed>>
<1>1. PICK s \in Slots, t \in 0 .. MaxTid :
        /\ tid[s] = t /\ t # 0 /\ s # current_thread
        /\ \A r \in Slots : temp[r] # s
        /\ temp' = [temp EXCEPT ![current_thread] = s]
        /\ asked' = [asked EXCEPT ![current_thread] = t]
  BY DEF ThrdJoin, tcb_first
<1>2. t \in 1 .. MaxTid
  BY <1>1, KernelAssumption
<1>3. mode = "user" /\ current_thread \in Slots
  BY DEF ThrdJoin, Executes, IInv, RunningSound, Running, TypeOK
<1> QED BY <1>1, <1>2, <1>3 DEF ThrdJoin

\* Steps that touch no join: the threads inside thread_join stay live and, when
\* they are not running, saved inside the loop.
LEMMA SameJoins ==
    ASSUME JoinsSound, UNCHANGED <<temp, asked>>,
           \A r \in Slots : temp[r] # NoThread =>
                /\ Live(r)' /\ tid'[temp[r]] = tid[temp[r]]
                /\ r # current_thread' => saved'[r] = "join" /\ runstate'[r] = "READY",
           mode' = "user" => temp[current_thread'] = NoThread
    PROVE  JoinsSound'
BY DEF JoinsSound

LEMMA JoinsStep ==
    ASSUME Env = {}, IInv, NoLostThread, OneProgram, JoinsSound, [Next]_vars
    PROVE  JoinsSound'
<1>0. /\ tid \in [Slots -> 0 .. MaxTid] /\ runstate \in [Slots -> Runstates]
      /\ saved \in [Slots -> Contexts] /\ temp \in [Slots -> Slots \cup {NoThread}]
      /\ asked \in [Slots -> 0 .. MaxTid]
  BY DEF IInv, TypeOK
<1>1. ASSUME NEW s \in Slots, NEW p, thread_alloc(s), thread_fill(s, p)
      PROVE  /\ UNCHANGED <<temp, asked>>
             /\ temp[s] = NoThread
             /\ \A r \in Slots : temp[r] # NoThread =>
                    r # s /\ tid'[r] = tid[r] /\ tid'[temp[r]] = tid[temp[r]]
  <2>1. /\ tid[s] = 0 /\ tid' = [tid EXCEPT ![s] = next_tid]
        /\ UNCHANGED <<temp, asked>>
    BY <1>1, FillStep
  <2> QED BY <2>1, <1>0 DEF JoinsSound, Live
<1>2. CASE UNCHANGED vars
  BY <1>2 DEF vars, JoinsSound, Live
<1>3. CASE ShellLoad \/ BootTick
  <2>1. /\ UNCHANGED <<tid, runstate, saved, temp, asked, current_thread>>
        /\ mode' # "user"
    BY <1>3, LoadAlone DEF BootTick, kernel_noreturn, tcbvars
  <2> QED BY <2>1 DEF JoinsSound, Live
<1>4. CASE ProcessStart
  <2>1. ~Running
    BY <1>4, StartAlone
  <2>2. \A r \in Slots : temp[r] = NoThread /\ asked[r] = 0
    BY <2>1 DEF OneProgram, JoinsSound
  <2>3. UNCHANGED <<temp, asked>>
    BY <1>4, StartAlone
  <2>4. mode' = "user" => current_thread' \in Slots
    BY <1>4, StartAlone
  <2> QED BY <2>2, <2>3, <2>4 DEF JoinsSound
<1>5. CASE Tick \/ ThrdYield \/ JoinYield
  <2> DEFINE n == current_thread'
             c == current_thread
  <2>1. /\ Running /\ c \in Slots /\ n \in Slots
        /\ UNCHANGED <<tid, temp, asked>>
        /\ n \in Queued \cup {c}
        /\ runstate' = [runstate EXCEPT ![n] = "READY"]
        /\ saved' = [saved EXCEPT ![c] = mode]
        /\ mode' = IF runstate[n] = "NEW" THEN "user" ELSE saved'[n]
    BY <1>5, YieldStep
  <2>2. Live(n) /\ runstate[c] = "READY" /\ mode \in {"user", "join"}
    BY <2>1, RunnersLive DEF Running, IInv, RunningSound
  <2>3. ASSUME NEW r \in Slots, temp[r] # NoThread
        PROVE  /\ Live(r)' /\ tid'[temp[r]] = tid[temp[r]]
               /\ saved'[r] = "join" /\ runstate'[r] = "READY" /\ runstate[r] = "READY"
    <3>1. Live(r)' /\ tid'[temp[r]] = tid[temp[r]]
      BY <2>1, <2>3, <1>0 DEF JoinsSound, Live
    <3>2. CASE r = c
      <4>1. mode = "join"
        BY <2>2, <2>3, <3>2 DEF JoinsSound
      <4> QED BY <2>1, <2>2, <3>1, <3>2, <4>1, <1>0
    <3>3. CASE r # c
      BY <2>1, <2>3, <3>1, <3>3, <1>0 DEF JoinsSound
    <3> QED BY <3>2, <3>3
  <2>4. mode' = "user" => temp[n] = NoThread
    BY <2>1, <2>3
  <2> QED BY <2>1, <2>3, <2>4, SameJoins
<1>6. CASE ThrdExit
  <2> DEFINE n == current_thread'
             c == current_thread
  <2>1. /\ mode = "user" /\ c \in Slots /\ UNCHANGED <<tid, temp, asked>>
    BY <1>6, ExitStep
  <2>2. /\ n \in Queued /\ n \in Slots /\ n # c
        /\ runstate' = [runstate EXCEPT ![c] = "EXITED", ![n] = "READY"]
        /\ saved' = [saved EXCEPT ![c] = "none"]
        /\ mode' = IF runstate[n] = "NEW" THEN "user" ELSE saved[n]
    BY <1>6, ExitGoesOn
  <2>3. ASSUME NEW r \in Slots, temp[r] # NoThread
        PROVE  /\ Live(r)' /\ tid'[temp[r]] = tid[temp[r]]
               /\ saved'[r] = "join" /\ runstate'[r] = "READY"
               /\ saved[r] = "join" /\ runstate[r] = "READY"
    <3>1. r # c
      BY <2>1, <2>3 DEF JoinsSound
    <3>2. Live(r) /\ saved[r] = "join" /\ runstate[r] = "READY"
      BY <2>3, <3>1 DEF JoinsSound
    <3>3. saved'[r] = "join" /\ runstate'[r] = "READY"
      BY <2>1, <2>2, <3>1, <3>2, <1>0
    <3> QED BY <2>1, <3>2, <3>3 DEF Live
  <2>4. mode' = "user" => temp[n] = NoThread
    BY <2>2, <2>3
  <2> QED BY <2>1, <2>3, <2>4, SameJoins
<1>7. CASE ThrdCreate
  <2>1. PICK s \in Slots : /\ thread_alloc(s) /\ thread_fill(s, current_process)
                           /\ runstate' = [runstate EXCEPT ![s] = "NEW"]
    BY <1>7 DEF ThrdCreate
  <2>2. UNCHANGED <<saved, current_thread, mode>>
    BY <1>7 DEF ThrdCreate
  <2>3. /\ UNCHANGED <<temp, asked>>
        /\ \A r \in Slots : temp[r] # NoThread =>
               r # s /\ tid'[r] = tid[r] /\ tid'[temp[r]] = tid[temp[r]]
    BY <2>1, <1>1
  <2>4. ASSUME NEW r \in Slots, temp[r] # NoThread
        PROVE  /\ Live(r)' /\ tid'[temp[r]] = tid[temp[r]]
               /\ r # current_thread' => saved'[r] = "join" /\ runstate'[r] = "READY"
    <3>1. r # s /\ tid'[r] = tid[r] /\ tid'[temp[r]] = tid[temp[r]]
      BY <2>3, <2>4
    <3>2. runstate'[r] = runstate[r]
      BY <2>1, <3>1, <1>0
    <3> QED BY <2>2, <2>4, <3>1, <3>2 DEF JoinsSound, Live
  <2>5. mode' = "user" => temp[current_thread'] = NoThread
    BY <2>2 DEF JoinsSound
  <2> QED BY <2>3, <2>4, <2>5, SameJoins
<1>8. CASE ThrdJoin
  <2> DEFINE c == current_thread
  <2>1. PICK s \in Slots, t \in 1 .. MaxTid :
             /\ mode = "user" /\ mode' = "join" /\ c \in Slots
             /\ tid[s] = t /\ s # c
             /\ \A r \in Slots : temp[r] # s
             /\ temp' = [temp EXCEPT ![c] = s]
             /\ asked' = [asked EXCEPT ![c] = t]
             /\ UNCHANGED <<tid, runstate, saved, current_thread>>
    BY <1>8, JoinStep
  <2>2. Live(c) /\ temp[c] = NoThread
    BY <2>1, RunnersLive DEF Running, JoinsSound
  <2>3. temp'[c] = s /\ asked'[c] = t /\ t # 0 /\ s # NoThread
    BY <2>1, <1>0, NullFacts
  <2>4. \A r \in Slots \ {c} : temp'[r] = temp[r] /\ asked'[r] = asked[r]
    BY <2>1, <1>0
  <2>5. \A r \in Slots : Live(r)' <=> Live(r)
    BY <2>1 DEF Live
  <2> HIDE DEF c
  <2>6. c = current_thread /\ c = current_thread'
    BY <2>1 DEF c
  <2>7. \A r \in Slots : temp'[r] = NoThread => asked'[r] = 0
    BY <2>3, <2>4 DEF JoinsSound
  <2>8. ASSUME NEW r \in Slots, temp'[r] # NoThread
        PROVE  /\ Live(r)' /\ temp'[r] # r
               /\ asked'[r] # 0 /\ tid'[temp'[r]] = asked'[r]
               /\ r # current_thread' => saved'[r] = "join" /\ runstate'[r] = "READY"
               /\ \A q \in Slots : temp'[q] = temp'[r] => q = r
    <3>1. CASE r = c
      <4>1. \A q \in Slots : temp'[q] = s => q = c
        BY <2>1, <2>4
      <4> QED BY <3>1, <4>1, <2>1, <2>2, <2>3, <2>5, <2>6
    <3>2. CASE r # c
      <4>1. temp'[r] = temp[r] /\ asked'[r] = asked[r] /\ temp[r] # NoThread
        BY <3>2, <2>4, <2>8
      <4>2. \A q \in Slots : temp'[q] = temp'[r] => q = r
        <5> SUFFICES ASSUME NEW q \in Slots, temp'[q] = temp[r] PROVE q = r
          BY <4>1
        <5>1. q # c
          BY <2>1, <2>3
        <5> QED BY <5>1, <4>1, <2>4 DEF JoinsSound
      <4> QED BY <3>2, <4>1, <4>2, <2>1, <2>5, <2>6 DEF JoinsSound
    <3> QED BY <3>1, <3>2
  <2>9. mode' # "user"
    BY <2>1
  <2> QED BY <2>7, <2>8, <2>9 DEF JoinsSound
<1>9. CASE JoinReap
  <2> DEFINE c == current_thread
             s == temp[current_thread]
  <2>1. /\ c \in Slots /\ s \in Slots /\ s # c /\ runstate[s] = "EXITED"
        /\ tid' = [tid EXCEPT ![s] = 0]
        /\ runstate' = [runstate EXCEPT ![s] = "NEW"]
        /\ saved' = [saved EXCEPT ![s] = "none"]
        /\ temp' = [temp EXCEPT ![c] = NoThread, ![s] = NoThread]
        /\ asked' = [asked EXCEPT ![c] = 0, ![s] = 0]
        /\ UNCHANGED current_thread
    BY <1>9, ReapStep
  <2>2. temp[s] = NoThread
    BY <2>1 DEF JoinsSound, Live
  <2>3. temp[c] = s /\ c = current_thread /\ c = current_thread'
    BY <2>1
  <2> HIDE DEF c, s
  <2>4. /\ temp'[c] = NoThread /\ temp'[s] = NoThread
        /\ asked'[c] = 0 /\ asked'[s] = 0
        /\ \A r \in Slots \ {c, s} : temp'[r] = temp[r] /\ asked'[r] = asked[r]
        /\ \A r \in Slots \ {s} : /\ tid'[r] = tid[r] /\ runstate'[r] = runstate[r]
                                 /\ saved'[r] = saved[r]
    BY <2>1, <1>0
  <2>5. \A r \in Slots : temp'[r] = NoThread => asked'[r] = 0
    BY <2>4 DEF JoinsSound
  <2>6. ASSUME NEW r \in Slots, temp'[r] # NoThread
        PROVE  /\ Live(r)' /\ temp'[r] # r
               /\ asked'[r] # 0 /\ tid'[temp'[r]] = asked'[r]
               /\ r # current_thread' => saved'[r] = "join" /\ runstate'[r] = "READY"
               /\ \A q \in Slots : temp'[q] = temp'[r] => q = r
    <3>1. r \in Slots \ {c, s} /\ temp'[r] = temp[r] /\ asked'[r] = asked[r]
      BY <2>4, <2>6
    <3>2. temp[r] \in Slots /\ temp[r] # s
      BY <3>1, <2>1, <2>3, <2>6, <1>0 DEF JoinsSound
    <3>3. \A q \in Slots : temp'[q] = temp'[r] => q = r
      BY <3>1, <2>4, <2>6 DEF JoinsSound
    <3>4. Live(r)'
      BY <3>1, <2>4, <2>6 DEF JoinsSound, Live
    <3> QED BY <3>1, <3>2, <3>3, <3>4, <2>3, <2>4, <2>6 DEF JoinsSound
  <2>7. temp'[current_thread'] = NoThread
    BY <2>3, <2>4
  <2> QED BY <2>5, <2>6, <2>7 DEF JoinsSound
<1>10. CASE ProcessExit
  <2>1. /\ mode = "user" /\ mode' = "prompt" /\ UNCHANGED <<temp, asked>>
        /\ \A r \in Slots : r # current_thread => ~Live(r)
    BY <1>10, ExitAlone
  <2>2. \A r \in Slots : temp[r] = NoThread
    BY <2>1 DEF JoinsSound
  <2> QED BY <2>1, <2>2 DEF JoinsSound
<1> QED BY <1>2, <1>3, <1>4, <1>5, <1>6, <1>7, <1>8, <1>9, <1>10, NeverHappens DEF Next

-----------------------------------------------------------------------------
(* Theorems about disciplined programs. *)

LEMMA DInvInit ==
    ASSUME Init
    PROVE  DInv
<1>1. IInv
  BY InitInv
<1>2. /\ tid = [s \in Slots |-> 0] /\ temp = [s \in Slots |-> NoThread]
      /\ asked = [s \in Slots |-> 0] /\ exit_status = [s \in Slots |-> 0]
      /\ passed = [t \in 1 .. MaxTid |-> 0] /\ pid = [p \in Procs |-> 0]
      /\ mode = "prompt" /\ noentry = {} /\ ready_queue = <<>>
  BY DEF Init
<1>3. \A s \in Slots : ~Live(s)
  BY <1>2 DEF Live
<1>4. Queued = {}
  BY <1>2 DEF Queued
<1>5. NoLostThread /\ StatusKept
  BY <1>2, <1>3 DEF NoLostThread, StatusKept
<1>6. OneProgram
  BY <1>2, <1>3, <1>4 DEF OneProgram, Running
<1>7. JoinsSound
  BY <1>2 DEF JoinsSound
<1> QED BY <1>1, <1>5, <1>6, <1>7 DEF DInv

LEMMA DInvStep ==
    ASSUME Env = {}
    PROVE  DInv /\ [Next]_vars => DInv'
BY NextInv, NoLostStep, StatusStep, OneProgramStep, JoinsStep DEF DInv

\* The invariant of a kernel whose programs keep the fork-join discipline: one
\* program at a time, every join waiting for a thread of its own.
THEOREM DisciplinedInductive ==
    ASSUME Env = {}
    PROVE  Spec => []DInv
<1>1. Init => DInv
  BY DInvInit
<1>2. DInv /\ [Next]_vars => DInv'
  BY DInvStep
<1> QED BY <1>1, <1>2, PTL DEF Spec

\* A thread of a disciplined program runs on the page tables of the process
\* that created it, and its process pointer still leads there.
THEOREM ThreadsRunAtHome ==
    ASSUME Env = {}
    PROVE  Spec => []OwnAddressSpace
<1>1. DInv => OwnAddressSpace
  <2> SUFFICES ASSUME DInv, Running
               PROVE  cr3 = owner[current_thread] /\ cr3 = pid[process[current_thread]]
    BY DEF OwnAddressSpace
  <2>1. owner[current_thread] = cr3 /\ process[current_thread] = shp
    BY RunnersLive DEF DInv
  <2>2. pid[shp] = cr3
    BY DEF DInv, OneProgram, Running
  <2> QED BY <2>1, <2>2
<1> QED BY <1>1, DisciplinedInductive, PTL

\* When exit() of a disciplined program brings the shell back, nothing of the
\* program is left to run and its entry of pcb[] is free.
THEOREM ShellFindsNothing ==
    ASSUME Env = {}
    PROVE  Spec => []PromptIdle
<1>1. DInv => PromptIdle
  <2> SUFFICES ASSUME DInv, mode = "prompt"
               PROVE  /\ ready_queue = <<>>
                      /\ \A p \in Procs : pid[p] = 0
                      /\ \A s \in Slots : ~Live(s)
    BY DEF PromptIdle
  <2>1. ~Running
    BY DEF Running
  <2>2. Queued = {} /\ ready_queue \in Seq(Slots)
    BY <2>1, RunnersLive DEF DInv, IInv, TypeOK
  <2>3. ready_queue = <<>>
    <3> SUFFICES ASSUME ready_queue # <<>> PROVE FALSE
      OBVIOUS
    <3>1. 1 \in DOMAIN ready_queue
      BY <2>2
    <3> QED BY <3>1, <2>2 DEF Queued
  <2> QED BY <2>1, <2>3 DEF DInv, OneProgram
<1> QED BY <1>1, DisciplinedInductive, PTL

\* The scheduler of a disciplined kernel takes the empty list head for a thread
\* only when every entry of tcb[] is held by an exited thread nobody joined.
THEOREM ListHeadOnlyWhenFull ==
    ASSUME Env = {}
    PROVE  Spec => []UndefinedOnlyWhenFull
<1>1. DInv => UndefinedOnlyWhenFull
  BY DEF DInv, OneProgram, UndefinedOnlyWhenFull, Running, Live
<1> QED BY <1>1, DisciplinedInductive, PTL

\* The steps that end a join.
LEMMA JoinResultStep ==
    ASSUME Env = {}, DInv, [Next]_vars
    PROVE  [JoinResult]_vars
<1> SUFFICES ASSUME Next, mode = "join", mode' = "user",
                    current_thread' = current_thread
             PROVE  /\ tid[temp[current_thread]] = asked[current_thread]
                    /\ exit_status[temp[current_thread]] = passed[asked[current_thread]]
                    /\ tid'[temp[current_thread]] = 0
  BY DEF JoinResult
<1>1. CASE JoinReap
  <2>1. /\ current_thread \in Slots /\ temp[current_thread] \in Slots
        /\ tid' = [tid EXCEPT ![temp[current_thread]] = 0]
    BY <1>1, ReapStep DEF DInv
  <2>2. tid'[temp[current_thread]] = 0
    BY <2>1 DEF DInv, IInv, TypeOK
  <2>3. /\ tid[temp[current_thread]] = asked[current_thread]
        /\ asked[current_thread] # 0
    BY <2>1, NullFacts DEF DInv, JoinsSound
  <2>4. exit_status[temp[current_thread]] = passed[tid[temp[current_thread]]]
    BY <2>1, <2>3 DEF DInv, StatusKept
  <2> QED BY <2>2, <2>3, <2>4
<1>2. CASE JoinYield
  <2>1. /\ current_thread \in Slots /\ runstate[current_thread] = "READY"
        /\ saved' = [saved EXCEPT ![current_thread] = mode]
        /\ mode' = saved'[current_thread]
    BY <1>2, YieldStep DEF DInv, IInv, RunningSound
  <2>2. saved'[current_thread] = mode
    BY <2>1 DEF DInv, IInv, TypeOK
  <2> QED BY <2>1, <2>2
<1> QED BY <1>1, <1>2 DEF Next, ShellLoad, ProcessStart, StartFaults, ShellResume,
       BootTick, BootTickInStart, Tick, ThrdYield, ThrdCreate, ThrdExit, ThrdJoin,
       ProcessExit, Fault, Executes

\* A thrd_join of a disciplined program returns only by closing the entry of the
\* thread it was asked for, with the status that thread passed to thrd_exit: no
\* entry is reused under a waiting join.
THEOREM JoinReturnsItsThread ==
    ASSUME Env = {}
    PROVE  Spec => JoinReapsAsked
<1>1. DInv /\ [Next]_vars => [JoinResult]_vars
  BY JoinResultStep
<1> QED BY <1>1, DisciplinedInductive, PTL DEF Spec, JoinReapsAsked

-----------------------------------------------------------------------------
\* The kernel implements ThreadLife for programs that keep the discipline.

Tids == 1 .. MaxTid
\* What becomes of the thread in entry s.
StateOf(s) == IF runstate[s] = "EXITED" THEN "exited"
              ELSE IF Running /\ s = current_thread THEN "running" ELSE "ready"
\* The abstract state, read off the table.
LifeTable ==
    /\ lives = [t \in Tids |-> lives[t]] /\ joining = [t \in Tids |-> joining[t]]
    /\ \A s \in Slots : tid[s] # 0 => /\ tid[s] \in Tids
                                      /\ lives[tid[s]] = StateOf(s)
                                      /\ joining[tid[s]] = asked[s]
    /\ \A t \in Tids : (\A s \in Slots : tid[s] # t) =>
            /\ lives[t] = IF t >= next_tid THEN "unborn" ELSE "gone"
            /\ joining[t] = 0

LEMMA LifeTableHolds == IInv => LifeTable
<1> SUFFICES ASSUME IInv PROVE LifeTable
  OBVIOUS
<1>0. /\ tid \in [Slots -> 0 .. MaxTid] /\ next_tid \in 1 .. MaxTid + 1 /\ MaxTid \in Nat
      /\ Running => current_thread \in Slots /\ tid[current_thread] # 0
  BY KernelAssumption DEF IInv, TypeOK, RunningSound
<1>1. /\ lives = [t \in Tids |-> LifeOf(t)] /\ joining = [t \in Tids |-> JoinsOf(t)]
  BY DEF lives, joining, Tids
<1>2. ASSUME NEW s \in Slots, tid[s] # 0
      PROVE  /\ tid[s] \in Tids /\ lives[tid[s]] = StateOf(s)
             /\ joining[tid[s]] = asked[s]
  <2>1. /\ tid[s] \in Tids /\ tid[s] < next_tid /\ tid[s] \in Int
        /\ \A r \in Slots : Holds(r, tid[s]) <=> r = s
    BY <1>0, <1>2 DEF Tids, Holds, IInv, TidsUnique
  <2>2. LifeOf(tid[s]) = StateOf(s)
    <3>1. ~(tid[s] >= next_tid) /\ ~(\A r \in Slots : ~Holds(r, tid[s]))
      BY <2>1, <1>0
    <3>2. (\E r \in Slots : Holds(r, tid[s]) /\ runstate[r] = "EXITED")
            <=> runstate[s] = "EXITED"
      BY <2>1
    <3>3. Running /\ Holds(current_thread, tid[s]) <=> Running /\ s = current_thread
      BY <2>1, <1>0
    <3> QED BY <3>1, <3>2, <3>3 DEF LifeOf, StateOf
  <2>3. JoinsOf(tid[s]) = asked[s]
    <3>1. (CHOOSE r \in Slots : Holds(r, tid[s])) = s
      BY <2>1
    <3> QED BY <2>1, <3>1 DEF JoinsOf
  <2> QED BY <1>1, <2>1, <2>2, <2>3
<1>3. ASSUME NEW t \in Tids, \A s \in Slots : tid[s] # t
      PROVE  /\ lives[t] = IF t >= next_tid THEN "unborn" ELSE "gone"
             /\ joining[t] = 0
  <2>1. \A s \in Slots : ~Holds(s, t)
    BY <1>3 DEF Holds
  <2> QED BY <1>1, <2>1 DEF LifeOf, JoinsOf
<1>4. /\ lives = [t \in Tids |-> lives[t]] /\ joining = [t \in Tids |-> joining[t]]
  BY <1>1
<1> QED BY <1>2, <1>3, <1>4 DEF LifeTable

LEMMA LifeTableStep == IInv /\ IInv' => LifeTable /\ LifeTable'
BY LifeTableHolds, PTL

\* Steps that a program cannot see.
LEMMA Quiet ==
    ASSUME LifeTable, LifeTable', UNCHANGED <<tid, next_tid, asked>>,
           \A s \in Slots : tid[s] # 0 => StateOf(s)' = StateOf(s)
    PROVE  UNCHANGED <<lives, joining>>
<1>1. ASSUME NEW t \in Tids PROVE lives'[t] = lives[t] /\ joining'[t] = joining[t]
  <2>1. CASE \E s \in Slots : tid[s] = t
    <3>1. PICK s \in Slots : tid[s] = t
      BY <2>1
    <3>2. tid[s] # 0 /\ tid'[s] = t
      BY <3>1 DEF Tids
    <3>3. lives[t] = StateOf(s) /\ joining[t] = asked[s]
      BY <3>1, <3>2 DEF LifeTable
    <3>4. lives'[t] = StateOf(s)' /\ joining'[t] = asked'[s]
      BY <3>2 DEF LifeTable
    <3> QED BY <3>2, <3>3, <3>4
  <2>2. CASE \A s \in Slots : tid[s] # t
    BY <2>2 DEF LifeTable
  <2> QED BY <2>1, <2>2
<1> QED BY <1>1 DEF LifeTable

\* The state of a tid: that of the entry that holds it.
LEMMA Held ==
    ASSUME LifeTable, NEW s \in Slots, tid[s] # 0
    PROVE  tid[s] \in Tids /\ lives[tid[s]] = StateOf(s) /\ joining[tid[s]] = asked[s]
BY DEF LifeTable

\* Every live tid is held by a live entry.
LEMMA AliveHeld ==
    ASSUME LifeTable, NEW u \in Tids, lives[u] \in {"ready", "running"}
    PROVE  \E s \in Slots : tid[s] = u /\ Live(s)
<1>1. PICK s \in Slots : tid[s] = u
  BY DEF LifeTable
<1>2. tid[s] # 0
  BY <1>1 DEF Tids
<1> QED BY <1>1, <1>2, Held DEF StateOf, Live

\* thread_create gives the next tid to a thread that joins nobody.
LEMMA Born ==
    ASSUME IInv, IInv', NEW s \in Slots, NEW p, thread_alloc(s), thread_fill(s, p),
           asked[s] = 0,
           \A r \in Slots \ {s} : tid[r] # 0 => StateOf(r)' = StateOf(r)
    PROVE  /\ next_tid \in Tids /\ Life!IsNext(next_tid)
           /\ lives' = [lives EXCEPT ![next_tid] = StateOf(s)']
           /\ UNCHANGED joining
<1>1. /\ tid[s] = 0 /\ next_tid \in Tids /\ next_tid' = next_tid + 1
      /\ tid' = [tid EXCEPT ![s] = next_tid] /\ UNCHANGED asked
  BY FillStep DEF Tids
<1>2. LifeTable /\ LifeTable'
  BY LifeTableStep
<1>3. tid \in [Slots -> 0 .. MaxTid] /\ Tids \subseteq Nat /\ 0 \notin Tids
  <2>1. tid \in [Slots -> 0 .. MaxTid]
    BY DEF IInv, TypeOK
  <2>2. Tids \subseteq Nat /\ 0 \notin Tids
    BY KernelAssumption DEF Tids
  <2> QED BY <2>1, <2>2
<1>4. /\ tid'[s] = next_tid /\ next_tid # 0
      /\ \A r \in Slots \ {s} : tid'[r] = tid[r]
      /\ \A r \in Slots : tid[r] # next_tid
  <2>1. \A r \in Slots : tid[r] # 0 => tid[r] < next_tid
    BY DEF IInv, TidsUnique
  <2>2. next_tid \in Nat /\ next_tid # 0
    BY <1>1, <1>3
  <2> QED BY <2>1, <2>2, <1>1, <1>3
<1>5. lives[next_tid] = "unborn" /\ joining[next_tid] = 0
  BY <1>1, <1>2, <1>3, <1>4 DEF LifeTable
<1>6. lives'[next_tid] = StateOf(s)' /\ joining'[next_tid] = 0
  BY <1>1, <1>2, <1>4 DEF LifeTable
<1>7. ASSUME NEW t \in Tids \ {next_tid}
      PROVE  lives'[t] = lives[t] /\ joining'[t] = joining[t]
  <2>1. CASE \E r \in Slots : tid[r] = t
    <3>1. PICK r \in Slots : tid[r] = t
      BY <2>1
    <3>2. tid[r] # 0 /\ r # s /\ tid'[r] = t
      BY <3>1, <1>1, <1>3, <1>4 DEF Tids
    <3>3. lives[t] = StateOf(r) /\ joining[t] = asked[r]
      BY <3>1, <3>2, <1>2 DEF LifeTable
    <3>4. lives'[t] = StateOf(r)' /\ joining'[t] = asked'[r]
      BY <3>1, <3>2, <1>2 DEF LifeTable
    <3> QED BY <3>2, <3>3, <3>4, <1>1
  <2>2. CASE \A r \in Slots : tid[r] # t
    <3>1. \A r \in Slots : tid'[r] # t
      BY <2>2, <1>4
    <3>2. t >= next_tid <=> t >= next_tid'
      BY <1>1, <1>3
    <3> QED BY <2>2, <3>1, <3>2, <1>2 DEF LifeTable
  <2> QED BY <2>1, <2>2
<1>8. Life!IsNext(next_tid)
  <2>1. ASSUME NEW u \in Tids, u < next_tid PROVE lives[u] # "unborn"
    <3>1. CASE \E r \in Slots : tid[r] = u
      <4>1. PICK r \in Slots : tid[r] = u
        BY <3>1
      <4>2. tid[r] # 0
        BY <4>1 DEF Tids
      <4> QED BY <4>1, <4>2, <1>2, Held DEF StateOf
    <3>2. CASE \A r \in Slots : tid[r] # u
      BY <3>2, <2>1, <1>1, <1>2, <1>3 DEF LifeTable
    <3> QED BY <3>1, <3>2
  <2> QED BY <2>1, <1>5 DEF Life!IsNext, Life!Tids, Tids
<1>9. lives' = [lives EXCEPT ![next_tid] = StateOf(s)'] /\ UNCHANGED joining
  <2>1. /\ lives = [t \in Tids |-> lives[t]] /\ joining = [t \in Tids |-> joining[t]]
        /\ lives' = [t \in Tids |-> lives'[t]] /\ joining' = [t \in Tids |-> joining'[t]]
    BY <1>2 DEF LifeTable
  <2> QED BY <2>1, <1>1, <1>5, <1>6, <1>7
<1> QED BY <1>1, <1>8, <1>9

LEMMA StartRefines ==
    ASSUME DInv, IInv', ProcessStart
    PROVE  Life!Next \/ UNCHANGED <<lives, joining, passed>>
<1>1. /\ LifeTable /\ LifeTable' /\ ~Running /\ UNCHANGED <<passed, asked>>
      /\ runstate \in [Slots -> Runstates] /\ tid \in [Slots -> 0 .. MaxTid]
  BY LifeTableStep, StartAlone DEF DInv, IInv, TypeOK
<1>2. CASE /\ mode' = "undefined"
           /\ UNCHANGED <<tid, runstate, next_tid, current_thread>>
  <2>1. \A s \in Slots : StateOf(s)' = StateOf(s)
    BY <1>1, <1>2 DEF StateOf, Running
  <2> QED BY <1>1, <1>2, <2>1, Quiet
<1>3. CASE \E s \in Slots :
             /\ thread_alloc(s) /\ thread_fill(s, shp)
             /\ current_thread' = s /\ mode' = "user"
             /\ runstate' = [runstate EXCEPT ![s] = "READY"]
  <2>1. PICK s \in Slots :
             /\ thread_alloc(s) /\ thread_fill(s, shp)
             /\ current_thread' = s /\ mode' = "user"
             /\ runstate' = [runstate EXCEPT ![s] = "READY"]
    BY <1>3
  <2>2. StateOf(s)' = "running"
    BY <1>1, <2>1 DEF StateOf, Running
  <2>3. \A r \in Slots : ~Live(r)
    BY <1>1 DEF DInv, OneProgram
  <2>4. \A r \in Slots \ {s} : tid[r] # 0 => StateOf(r)' = StateOf(r)
    BY <1>1, <2>1, <2>3 DEF StateOf, Live
  <2>5. asked[s] = 0
    BY <2>3 DEF DInv, JoinsSound
  <2>6. /\ next_tid \in Tids /\ Life!IsNext(next_tid)
        /\ lives' = [lives EXCEPT ![next_tid] = "running"]
        /\ UNCHANGED joining
    BY <2>1, <2>2, <2>4, <2>5, Born DEF DInv
  <2>7. \A u \in Tids : ~Life!Alive(u)
    BY <1>1, <2>3, AliveHeld DEF Life!Alive
  <2>8. Life!Launch(next_tid)
    BY <1>1, <2>6, <2>7 DEF Life!Launch, Life!Tids, Tids
  <2> QED BY <2>6, <2>8 DEF Life!Next, Life!Tids, Tids
<1> QED BY <1>2, <1>3, StartAlone DEF DInv

LEMMA CreateRefines ==
    ASSUME DInv, IInv', ThrdCreate
    PROVE  Life!Next
<1> DEFINE c == current_thread
<1>1. /\ mode = "user" /\ UNCHANGED <<mode, current_thread, passed>> /\ Running
      /\ LifeTable /\ c \in Slots /\ Live(c)
      /\ runstate \in [Slots -> Runstates] /\ tid \in [Slots -> 0 .. MaxTid]
  BY LifeTableStep, RunnersLive DEF ThrdCreate, Executes, Running, DInv, IInv, TypeOK
<1>2. PICK s \in Slots : /\ thread_alloc(s) /\ thread_fill(s, current_process)
                         /\ runstate' = [runstate EXCEPT ![s] = "NEW"]
  BY DEF ThrdCreate
<1>3. tid[s] = 0 /\ s # c
  BY <1>2, FillStep DEF DInv
<1>4. StateOf(s)' = "ready"
  BY <1>1, <1>2, <1>3 DEF StateOf
<1>5. \A r \in Slots \ {s} : tid[r] # 0 => StateOf(r)' = StateOf(r)
  BY <1>1, <1>2 DEF StateOf, Running
<1>6. asked[s] = 0
  BY <1>3 DEF DInv, JoinsSound, Live
<1>7. /\ next_tid \in Tids /\ Life!IsNext(next_tid)
      /\ lives' = [lives EXCEPT ![next_tid] = "ready"]
      /\ UNCHANGED joining
  BY <1>2, <1>4, <1>5, <1>6, Born DEF DInv
<1>8. tid[c] \in Tids /\ Life!Acts(tid[c])
  <2>1. tid[c] \in Tids /\ lives[tid[c]] = StateOf(c) /\ joining[tid[c]] = asked[c]
    BY <1>1, Held DEF Live
  <2>2. StateOf(c) = "running" /\ asked[c] = 0
    BY <1>1 DEF StateOf, Live, DInv, JoinsSound
  <2> QED BY <2>1, <2>2 DEF Life!Acts
<1>9. Life!Spawn(next_tid)
  BY <1>1, <1>7, <1>8 DEF Life!Spawn, Life!Tids, Tids
<1> QED BY <1>7, <1>9 DEF Life!Next, Life!Tids, Tids

\* A step that hands out and closes no tid: the abstract state follows the
\* entries one by one.
LEMMA Follows ==
    ASSUME LifeTable, LifeTable', UNCHANGED <<tid, next_tid>>,
           NEW lf, NEW jn, lf = [t \in Tids |-> lf[t]], jn = [t \in Tids |-> jn[t]],
           \A s \in Slots : tid[s] # 0 => /\ lf[tid[s]] = StateOf(s)'
                                          /\ jn[tid[s]] = asked'[s],
           \A t \in Tids : (\A s \in Slots : tid[s] # t) =>
                                lf[t] = lives[t] /\ jn[t] = joining[t]
    PROVE  lives' = lf /\ joining' = jn
<1>1. ASSUME NEW t \in Tids PROVE lives'[t] = lf[t] /\ joining'[t] = jn[t]
  <2>1. CASE \E s \in Slots : tid[s] = t
    <3>1. PICK s \in Slots : tid[s] = t
      BY <2>1
    <3>2. tid[s] # 0 /\ tid'[s] = t
      BY <3>1 DEF Tids
    <3>3. lives'[t] = StateOf(s)' /\ joining'[t] = asked'[s]
      BY <3>2 DEF LifeTable
    <3> QED BY <3>1, <3>2, <3>3
  <2>2. CASE \A s \in Slots : tid[s] # t
    BY <2>2 DEF LifeTable
  <2> QED BY <2>1, <2>2
<1>2. lives' = [t \in Tids |-> lives'[t]] /\ joining' = [t \in Tids |-> joining'[t]]
  BY DEF LifeTable
<1> QED BY <1>1, <1>2

\* The running thread of a disciplined program, abstractly.
LEMMA RunnerLife ==
    ASSUME DInv, Running
    PROVE  /\ current_thread \in Slots /\ Live(current_thread)
           /\ tid[current_thread] \in Tids
           /\ lives[tid[current_thread]] = "running"
           /\ joining[tid[current_thread]] = asked[current_thread]
           /\ mode = "user" => Life!Acts(tid[current_thread])
<1>1. current_thread \in Slots /\ Live(current_thread) /\ LifeTable
  BY RunnersLive, LifeTableHolds DEF DInv
<1>2. /\ tid[current_thread] \in Tids
      /\ lives[tid[current_thread]] = StateOf(current_thread)
      /\ joining[tid[current_thread]] = asked[current_thread]
  BY <1>1, Held DEF Live
<1>3. StateOf(current_thread) = "running"
  BY <1>1 DEF StateOf, Live
<1>4. mode = "user" => asked[current_thread] = 0
  BY <1>1 DEF DInv, JoinsSound
<1> QED BY <1>1, <1>2, <1>3, <1>4 DEF Life!Acts

\* Different entries hold different tids.
LEMMA TidsApart ==
    ASSUME IInv, NEW r \in Slots, NEW s \in Slots, tid[s] # 0, r # s
    PROVE  tid[r] # tid[s]
BY DEF IInv, TidsUnique

LEMMA YieldRefines ==
    ASSUME DInv, IInv', Running', Tick \/ ThrdYield \/ JoinYield
    PROVE  Life!Next \/ UNCHANGED <<lives, joining, passed>>
<1>0. current_thread \in Slots /\ current_thread' \in Slots
  BY YieldStep DEF DInv
<1>c. PICK c \in Slots : c = current_thread
  BY <1>0
<1>n. PICK n \in Slots : n = current_thread'
  BY <1>0
<1>1. /\ Running /\ c \in Slots /\ n \in Slots
      /\ UNCHANGED <<tid, asked, next_tid, passed>>
      /\ n \in Queued \cup {c}
      /\ runstate' = [runstate EXCEPT ![n] = "READY"]
  BY <1>c, <1>n, YieldStep DEF DInv
<1>2. /\ LifeTable /\ LifeTable' /\ runstate \in [Slots -> Runstates]
      /\ tid[c] \in Tids /\ lives[tid[c]] = "running" /\ Live(c)
  BY <1>c, <1>n, <1>1, LifeTableStep, RunnerLife DEF DInv, IInv, TypeOK
<1>3. Live(n)
  BY <1>c, <1>1, <1>2, RunnersLive DEF DInv
<1>4. CASE n = c
  <2>1. \A s \in Slots : StateOf(s)' = StateOf(s)
    BY <1>c, <1>n, <1>1, <1>2, <1>4 DEF StateOf, Live
  <2> QED BY <1>1, <1>2, <2>1, Quiet
<1>5. CASE n # c
  <2>1. /\ tid[n] \in Tids /\ lives[tid[n]] = "ready" /\ tid[n] # tid[c]
        /\ tid[n] # 0 /\ tid[c] # 0
    BY <1>1, <1>2, <1>3, <1>5, Held, TidsApart DEF StateOf, Live, DInv
  <2> DEFINE lf == [lives EXCEPT ![tid[c]] = "ready", ![tid[n]] = "running"]
  <2>2. lf = [t \in Tids |-> lf[t]] /\ joining = [t \in Tids |-> joining[t]]
    BY <1>2 DEF LifeTable
  <2>3. /\ lf[tid[c]] = "ready" /\ lf[tid[n]] = "running"
        /\ \A t \in Tids \ {tid[c], tid[n]} : lf[t] = lives[t]
    <3>1. lives = [t \in Tids |-> lives[t]]
      BY <1>2 DEF LifeTable
    <3> QED BY <3>1, <1>2, <2>1
  <2>4. StateOf(c)' = "ready" /\ StateOf(n)' = "running"
    BY <1>c, <1>n, <1>1, <1>2, <1>5 DEF StateOf, Live
  <2>5. \A s \in Slots \ {c, n} : StateOf(s)' = StateOf(s)
    BY <1>c, <1>n, <1>1, <1>2 DEF StateOf
  <2> HIDE DEF lf
  <2>6. ASSUME NEW s \in Slots, tid[s] # 0
        PROVE  lf[tid[s]] = StateOf(s)' /\ joining[tid[s]] = asked'[s]
    <3>1. tid[s] \in Tids /\ lives[tid[s]] = StateOf(s) /\ joining[tid[s]] = asked[s]
      BY <1>2, <2>6, Held
    <3>2. CASE s = c \/ s = n
      BY <3>1, <3>2, <2>3, <2>4, <1>1
    <3>3. CASE s # c /\ s # n
      <4>1. tid[s] # tid[c] /\ tid[s] # tid[n]
        BY <3>3, <1>1, <2>1, TidsApart DEF DInv
      <4> QED BY <3>1, <3>3, <4>1, <2>3, <2>5, <1>1
    <3> QED BY <3>2, <3>3
  <2>7. \A t \in Tids : (\A s \in Slots : tid[s] # t) => lf[t] = lives[t]
    BY <2>3, <1>1
  <2>8. lives' = lf /\ joining' = joining
    BY <1>1, <1>2, <2>2, <2>6, <2>7, Follows, SMTT(30)
  <2>9. Life!Switch(tid[c], tid[n])
    BY <1>1, <1>2, <2>1, <2>8 DEF Life!Switch, lf
  <2> QED BY <1>2, <2>1, <2>9 DEF Life!Next, Life!Tids, Tids
<1> QED BY <1>4, <1>5

LEMMA ExitRefines ==
    ASSUME Env = {}, DInv, IInv', Running', ThrdExit
    PROVE  Life!Next
<1>0. current_thread \in Slots /\ current_thread' \in Slots
  BY ExitStep, ExitGoesOn DEF DInv
<1>c. PICK c \in Slots : c = current_thread
  BY <1>0
<1>n. PICK n \in Slots : n = current_thread'
  BY <1>0
<1>1. /\ mode = "user" /\ Running /\ c \in Slots
      /\ UNCHANGED <<tid, asked, next_tid>>
      /\ \E st \in Status : passed' = [passed EXCEPT ![tid[c]] = st]
  BY <1>c, ExitStep DEF DInv, Running
<1>2. /\ n \in Queued /\ n \in Slots /\ n # c
      /\ runstate' = [runstate EXCEPT ![c] = "EXITED", ![n] = "READY"]
  BY <1>c, <1>n, ExitGoesOn DEF DInv
<1>3. /\ LifeTable /\ LifeTable' /\ runstate \in [Slots -> Runstates]
      /\ tid[c] \in Tids /\ Live(c) /\ Life!Acts(tid[c]) /\ Live(n)
  BY <1>c, <1>n, <1>1, <1>2, LifeTableStep, RunnerLife, RunnersLive DEF DInv, IInv, TypeOK
<1>4. /\ tid[n] \in Tids /\ lives[tid[n]] = "ready" /\ tid[n] # tid[c]
      /\ tid[n] # 0 /\ tid[c] # 0
  BY <1>c, <1>1, <1>2, <1>3, Held, TidsApart DEF StateOf, Live, DInv
<1> DEFINE lf == [lives EXCEPT ![tid[c]] = "exited", ![tid[n]] = "running"]
<1>5. lf = [t \in Tids |-> lf[t]] /\ joining = [t \in Tids |-> joining[t]]
  BY <1>c, <1>3 DEF LifeTable
<1>6. /\ lf[tid[c]] = "exited" /\ lf[tid[n]] = "running"
      /\ \A t \in Tids \ {tid[c], tid[n]} : lf[t] = lives[t]
  <2>1. lives = [t \in Tids |-> lives[t]]
    BY <1>3 DEF LifeTable
  <2> QED BY <2>1, <1>3, <1>4
<1>7. StateOf(c)' = "exited" /\ StateOf(n)' = "running"
  BY <1>c, <1>n, <1>1, <1>2, <1>3 DEF StateOf
<1>8. \A s \in Slots \ {c, n} : StateOf(s)' = StateOf(s)
  BY <1>c, <1>n, <1>1, <1>2, <1>3 DEF StateOf
<1> HIDE DEF lf
<1>9. ASSUME NEW s \in Slots, tid[s] # 0
      PROVE  lf[tid[s]] = StateOf(s)' /\ joining[tid[s]] = asked'[s]
  <2>1. tid[s] \in Tids /\ lives[tid[s]] = StateOf(s) /\ joining[tid[s]] = asked[s]
    BY <1>3, <1>9, Held
  <2>2. CASE s = c \/ s = n
    BY <2>1, <2>2, <1>6, <1>7, <1>1
  <2>3. CASE s # c /\ s # n
    <3>1. tid[s] # tid[c] /\ tid[s] # tid[n]
      BY <2>3, <1>1, <1>2, <1>4, TidsApart DEF DInv
    <3> QED BY <2>1, <2>3, <3>1, <1>6, <1>8, <1>1
  <2> QED BY <2>2, <2>3
<1>10. \A t \in Tids : (\A s \in Slots : tid[s] # t) => lf[t] = lives[t]
  BY <1>1, <1>2, <1>6
<1>11. lives' = lf /\ joining' = joining
  BY <1>1, <1>3, <1>5, <1>9, <1>10, Follows
<1>12. Life!End(tid[c], tid[n])
  BY <1>1, <1>3, <1>4, <1>11 DEF Life!End, lf
<1> QED BY <1>3, <1>4, <1>12 DEF Life!Next, Life!Tids, Tids

LEMMA QuitRefines ==
    ASSUME Env = {}, DInv, IInv', ProcessExit
    PROVE  Life!Next
<1>c. PICK c \in Slots : c = current_thread
  BY ExitAlone DEF DInv
<1>1. /\ mode = "user" /\ Running /\ c \in Slots
      /\ UNCHANGED <<tid, asked, next_tid, passed>>
      /\ \A r \in Slots : r # c => ~Live(r)
      /\ runstate' = [runstate EXCEPT ![c] = "EXITED"]
      /\ mode' = "prompt"
  BY <1>c, ExitAlone DEF DInv, Running
<1>2. /\ LifeTable /\ LifeTable' /\ runstate \in [Slots -> Runstates]
      /\ tid[c] \in Tids /\ Live(c) /\ Life!Acts(tid[c])
  BY <1>c, <1>1, LifeTableStep, RunnerLife DEF DInv, IInv, TypeOK
<1> DEFINE lf == [lives EXCEPT ![tid[c]] = "exited"]
<1>3. lives = [t \in Tids |-> lives[t]] /\ joining = [t \in Tids |-> joining[t]]
  BY <1>2 DEF LifeTable
<1>4. /\ lf[tid[c]] = "exited" /\ lf = [t \in Tids |-> lf[t]]
      /\ \A t \in Tids \ {tid[c]} : lf[t] = lives[t]
  BY <1>2, <1>3
<1>5. StateOf(c)' = "exited"
  BY <1>1, <1>2 DEF StateOf
<1>6. \A s \in Slots \ {c} : tid[s] # 0 => StateOf(s)' = StateOf(s)
  BY <1>1, <1>2 DEF StateOf, Live
<1> HIDE DEF lf
<1>7. ASSUME NEW s \in Slots, tid[s] # 0
      PROVE  lf[tid[s]] = StateOf(s)' /\ joining[tid[s]] = asked'[s]
  <2>1. tid[s] \in Tids /\ lives[tid[s]] = StateOf(s) /\ joining[tid[s]] = asked[s]
    BY <1>2, <1>7, Held
  <2>2. CASE s = c
    BY <2>1, <2>2, <1>4, <1>5, <1>1
  <2>3. CASE s # c
    <3>1. tid[s] # tid[c]
      BY <2>3, <1>1, <1>7, TidsApart DEF DInv
    <3> QED BY <2>1, <2>3, <3>1, <1>4, <1>6, <1>7, <1>1
  <2> QED BY <2>2, <2>3
<1>8. \A t \in Tids : (\A s \in Slots : tid[s] # t) => lf[t] = lives[t]
  BY <1>1, <1>4
<1>9. lives' = lf /\ joining' = joining
  BY <1>1, <1>2, <1>3, <1>4, <1>7, <1>8, Follows
<1>10. \A u \in Tids \ {tid[c]} : ~Life!Alive(u)
  BY <1>1, <1>2, AliveHeld DEF Life!Alive
<1>11. Life!Quit(tid[c])
  BY <1>1, <1>2, <1>9, <1>10 DEF Life!Quit, Life!Tids, Tids, lf
<1> QED BY <1>2, <1>11 DEF Life!Next, Life!Tids, Tids

LEMMA JoinRefines ==
    ASSUME Env = {}, DInv, IInv', ThrdJoin
    PROVE  Life!Next
<1>c. PICK c \in Slots : c = current_thread
  BY JoinStep DEF DInv
<1>1. PICK s \in Slots, t \in Tids :
        /\ mode = "user" /\ mode' = "join"
        /\ tid[s] = t /\ s # c
        /\ \A r \in Slots : temp[r] # s
        /\ temp' = [temp EXCEPT ![c] = s]
        /\ asked' = [asked EXCEPT ![c] = t]
        /\ UNCHANGED <<tid, runstate, next_tid, current_thread, passed>>
  BY <1>c, JoinStep DEF DInv, Tids
<1>2. Running /\ Running'
  BY <1>1 DEF Running
<1>3. /\ LifeTable /\ LifeTable' /\ asked \in [Slots -> 0 .. MaxTid]
      /\ tid[c] \in Tids /\ tid[c] # 0 /\ Life!Acts(tid[c])
  BY <1>c, <1>1, <1>2, LifeTableStep, RunnerLife DEF DInv, IInv, TypeOK, Live
<1>4. tid[s] # 0 /\ tid[s] # tid[c] /\ t # 0
  BY <1>1, <1>3, TidsApart DEF DInv, Tids
<1>5. lives[t] \in {"ready", "exited"}
  BY <1>c, <1>1, <1>3, <1>4, Held DEF StateOf
<1>6. \A u \in Tids : joining[u] # t
  <2> SUFFICES ASSUME NEW u \in Tids, joining[u] = t PROVE FALSE
    OBVIOUS
  <2>1. PICK r \in Slots : tid[r] = u
    BY <1>3, <1>4 DEF LifeTable
  <2>2. tid[r] # 0
    BY <2>1 DEF Tids
  <2>3. asked[r] = t
    BY <2>1, <2>2, <1>3, Held
  <2>4. temp[r] # NoThread /\ tid[temp[r]] = t
    BY <2>3, <1>4 DEF DInv, JoinsSound
  <2>5. temp[r] \in Slots
    BY <2>4 DEF DInv, IInv, TypeOK
  <2>6. temp[r] = s
    BY <2>4, <2>5, <1>1, <1>4, TidsApart DEF DInv
  <2> QED BY <2>6, <1>1
<1> DEFINE jn == [joining EXCEPT ![tid[c]] = t]
<1>7. lives = [u \in Tids |-> lives[u]] /\ joining = [u \in Tids |-> joining[u]]
  BY <1>3 DEF LifeTable
<1>8. /\ jn[tid[c]] = t /\ jn = [u \in Tids |-> jn[u]]
      /\ \A u \in Tids \ {tid[c]} : jn[u] = joining[u]
  BY <1>3, <1>7
<1> HIDE DEF jn
<1>9. ASSUME NEW r \in Slots, tid[r] # 0
      PROVE  lives[tid[r]] = StateOf(r)' /\ jn[tid[r]] = asked'[r]
  <2>1. tid[r] \in Tids /\ lives[tid[r]] = StateOf(r) /\ joining[tid[r]] = asked[r]
    BY <1>3, <1>9, Held
  <2>2. StateOf(r)' = StateOf(r)
    BY <1>1, <1>2 DEF StateOf
  <2>3. CASE r = c
    BY <2>1, <2>2, <2>3, <1>1, <1>3, <1>8
  <2>4. CASE r # c
    <3>1. tid[r] # tid[c]
      BY <2>4, <1>9, TidsApart DEF DInv
    <3> QED BY <2>1, <2>2, <2>4, <3>1, <1>1, <1>3, <1>8
  <2> QED BY <2>3, <2>4
<1>10. \A u \in Tids : (\A r \in Slots : tid[r] # u) => jn[u] = joining[u]
  BY <1>8
<1>11. lives' = lives /\ joining' = jn
  BY <1>1, <1>3, <1>7, <1>8, <1>9, <1>10, Follows
<1>12. Life!Join(tid[c], t)
  BY <1>1, <1>3, <1>4, <1>5, <1>6, <1>11 DEF Life!Join, Life!Tids, Tids, jn
<1> QED BY <1>3, <1>12 DEF Life!Next, Life!Tids, Tids

LEMMA ReapRefines ==
    ASSUME DInv, IInv', JoinReap
    PROVE  Life!Next
<1>c. PICK c \in Slots : c = current_thread
  BY ReapStep DEF DInv
<1>s. PICK s \in Slots : s = temp[c]
  BY <1>c, ReapStep DEF DInv
<1>1. /\ mode = "join" /\ mode' = "user" /\ s # c /\ runstate[s] = "EXITED"
      /\ tid' = [tid EXCEPT ![s] = 0]
      /\ runstate' = [runstate EXCEPT ![s] = "NEW"]
      /\ asked' = [asked EXCEPT ![c] = 0, ![s] = 0]
      /\ UNCHANGED <<next_tid, current_thread, passed>>
  BY <1>c, <1>s, ReapStep DEF DInv
<1>2. Running /\ Running'
  BY <1>1 DEF Running
<1>3. /\ LifeTable /\ LifeTable' /\ asked \in [Slots -> 0 .. MaxTid]
      /\ runstate \in [Slots -> Runstates] /\ tid \in [Slots -> 0 .. MaxTid]
      /\ next_tid \in 1 .. MaxTid + 1
  BY LifeTableStep DEF DInv, IInv, TypeOK
<1>4. /\ tid[c] \in Tids /\ tid[c] # 0 /\ lives[tid[c]] = "running"
      /\ joining[tid[c]] = asked[c]
  BY <1>c, <1>2, RunnerLife DEF Live
<1>5. asked[c] = tid[s] /\ tid[s] # 0 /\ tid[s] # tid[c]
  BY <1>s, <1>1, NullFacts, TidsApart DEF DInv, JoinsSound
<1>6. tid[s] \in Tids /\ lives[tid[s]] = "exited" /\ joining[tid[s]] = 0
  <2>1. asked[s] = 0
    BY <1>1 DEF DInv, JoinsSound, Live
  <2> QED BY <2>1, <1>1, <1>3, <1>5, Held DEF StateOf
<1>7. tid[s] < next_tid /\ \A r \in Slots : tid'[r] # tid[s]
  <2>1. tid[s] < next_tid
    BY <1>5 DEF DInv, IInv, TidsUnique
  <2>2. \A r \in Slots : r # s => tid[r] # tid[s]
    BY <1>5, TidsApart DEF DInv
  <2> QED BY <2>1, <2>2, <1>1, <1>3, <1>5
<1>8. lives'[tid[s]] = "gone" /\ joining'[tid[s]] = 0
  <2>1. ~(tid[s] >= next_tid')
    BY <1>1, <1>3, <1>7
  <2> QED BY <2>1, <1>3, <1>6, <1>7 DEF LifeTable
<1>9. ASSUME NEW t \in Tids, t # tid[s]
      PROVE  /\ lives'[t] = lives[t]
             /\ joining'[t] = IF t = tid[c] THEN 0 ELSE joining[t]
  <2>1. CASE \E r \in Slots : tid[r] = t
    <3>1. PICK r \in Slots : tid[r] = t
      BY <2>1
    <3>2. r # s /\ tid'[r] = t /\ tid[r] # 0
      BY <3>1, <1>1, <1>3, <1>9 DEF Tids
    <3>3. lives[t] = StateOf(r) /\ joining[t] = asked[r]
      BY <3>1, <3>2, <1>3 DEF LifeTable
    <3>4. lives'[t] = StateOf(r)' /\ joining'[t] = asked'[r]
      BY <3>1, <3>2, <1>3 DEF LifeTable
    <3>5. StateOf(r)' = StateOf(r)
      BY <3>2, <1>1, <1>2, <1>3 DEF StateOf
    <3>6. asked'[r] = IF r = c THEN 0 ELSE asked[r]
      BY <3>2, <1>1, <1>3
    <3>7. r = c <=> t = tid[c]
      BY <3>1, <3>2, TidsApart DEF DInv
    <3> QED BY <3>3, <3>4, <3>5, <3>6, <3>7
  <2>2. CASE \A r \in Slots : tid[r] # t
    <3>1. \A r \in Slots : tid'[r] # t
      BY <2>2, <1>1, <1>3 DEF Tids
    <3> QED BY <2>2, <3>1, <1>1, <1>3 DEF LifeTable
  <2> QED BY <2>1, <2>2
<1>10. /\ lives' = [lives EXCEPT ![tid[s]] = "gone"]
       /\ joining' = [joining EXCEPT ![tid[c]] = 0]
  <2>1. /\ lives = [t \in Tids |-> lives[t]] /\ joining = [t \in Tids |-> joining[t]]
        /\ lives' = [t \in Tids |-> lives'[t]] /\ joining' = [t \in Tids |-> joining'[t]]
    BY <1>3 DEF LifeTable
  <2>2. lives' = [lives EXCEPT ![tid[s]] = "gone"]
    BY <2>1, <1>6, <1>8, <1>9
  <2>3. joining' = [joining EXCEPT ![tid[c]] = 0]
    BY <2>1, <1>4, <1>5, <1>6, <1>8, <1>9
  <2> QED BY <2>2, <2>3
<1>11. Life!Retire(tid[c], tid[s])
  BY <1>1, <1>4, <1>5, <1>6, <1>10 DEF Life!Retire
<1> QED BY <1>4, <1>6, <1>11 DEF Life!Next, Life!Tids, Tids

\* Loading a program and the first tick change no thread.
LEMMA ShellRefines ==
    ASSUME Env = {}, DInv, IInv', ShellLoad \/ BootTick
    PROVE  UNCHANGED <<lives, joining, passed>>
<1>1. /\ UNCHANGED <<tid, runstate, asked, next_tid, current_thread, passed>>
      /\ mode = "prompt" /\ mode' \in {"loaded", "prompt"}
  BY LoadAlone DEF BootTick, kernel_noreturn, tcbvars, DInv
<1>2. \A s \in Slots : StateOf(s)' = StateOf(s)
  BY <1>1 DEF StateOf, Running
<1>3. LifeTable /\ LifeTable'
  BY LifeTableStep DEF DInv
<1> QED BY <1>1, <1>2, <1>3, Quiet

LEMMA NextRefines ==
    ASSUME Env = {}, DInv, [Next]_vars
    PROVE  [Life!Next]_(Life!lvars)
<1>1. DInv' /\ IInv'
  BY DInvStep DEF DInv
<1>2. CASE UNCHANGED vars
  <2>1. LifeTable /\ LifeTable'
    BY <1>1, LifeTableStep DEF DInv
  <2>2. /\ UNCHANGED <<tid, next_tid, asked, passed>>
        /\ \A s \in Slots : StateOf(s)' = StateOf(s)
    BY <1>2 DEF vars, StateOf, Running
  <2> QED BY <2>1, <2>2, Quiet DEF Life!lvars
<1>3. CASE (Tick \/ ThrdYield \/ JoinYield \/ ThrdExit) /\ mode' = "undefined"
  <2>1. \E r \in Slots : Live(r)'
    <3>1. CASE ThrdExit
      <4>1. mode' # "undefined"
        BY <3>1, ExitGoesOn, ThrdExitInv, RunnersLive
           DEF DInv, IInv, TypeOK, SavedSound, Contexts, Runstates, Live
      <4> QED BY <4>1, <1>3
    <3>2. CASE Tick \/ ThrdYield \/ JoinYield
      BY <3>2, YieldStep, RunnersLive DEF DInv, IInv, TypeOK, Live
    <3> QED BY <3>1, <3>2, <1>3
  <2> QED BY <2>1, <1>1, <1>3 DEF DInv, OneProgram, Running
<1>4. CASE (Tick \/ ThrdYield \/ JoinYield \/ ThrdExit) /\ mode' # "undefined"
  <2>0. saved \in [Slots -> Contexts] /\ saved' \in [Slots -> Contexts]
    BY <1>1 DEF DInv, IInv, TypeOK
  <2>1. mode' \in Contexts \cup {"user"}
    <3>1. CASE ThrdExit
      BY <1>4, <2>0, <3>1, ExitStep DEF DInv
    <3>2. CASE Tick \/ ThrdYield \/ JoinYield
      BY <2>0, <3>2, YieldStep DEF DInv
    <3> QED BY <1>4, <3>1, <3>2
  <2>2. Running'
    BY <1>1, <1>4, <2>1 DEF DInv, IInv, TypeOK, OneProgram, Modes, Contexts, Running
  <2> QED BY <1>1, <1>4, <2>2, YieldRefines, ExitRefines DEF Life!lvars
<1>5. CASE Next /\ ~(Tick \/ ThrdYield \/ JoinYield \/ ThrdExit)
  BY <1>1, <1>5, StartRefines, CreateRefines, QuitRefines, JoinRefines, ReapRefines,
     ShellRefines, NeverHappens DEF Next, DInv, Life!lvars
<1> QED BY <1>2, <1>3, <1>4, <1>5

\* For disciplined programs the kernel implements ThreadLife, whatever the sizes
\* of its tables: what programs see of their threads is one running thread at a
\* time, joins that end only when their thread has exited, and each thread
\* retired once, with its own status.
THEOREM KernelImplementsThreadLife ==
    ASSUME Env = {}
    PROVE  Spec => ImplementsThreadLife
<1>1. Init => Life!Init
  <2> SUFFICES ASSUME Init PROVE Life!Init
    OBVIOUS
  <2>1. LifeTable
    BY InitInv, LifeTableHolds
  <2>2. /\ \A s \in Slots : tid[s] = 0
        /\ next_tid = 1 /\ passed = [t \in Tids |-> 0]
    BY DEF Init, Tids
  <2>3. \A t \in Tids : (\A s \in Slots : tid[s] # t) /\ t >= next_tid
    BY <2>2, KernelAssumption DEF Tids
  <2>4. \A t \in Tids : lives[t] = "unborn" /\ joining[t] = 0
    BY <2>1, <2>3 DEF LifeTable
  <2>5. lives = [t \in Tids |-> "unborn"] /\ joining = [t \in Tids |-> 0]
    BY <2>1, <2>4 DEF LifeTable
  <2> QED BY <2>2, <2>5 DEF Life!Init, Life!Tids, Tids
<1>2. DInv /\ [Next]_vars => [Life!Next]_(Life!lvars)
  BY NextRefines
<1> QED BY <1>1, <1>2, DisciplinedInductive, PTL DEF Spec, ImplementsThreadLife, Life!Spec
=============================================================================
