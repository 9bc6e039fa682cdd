---------------------------- MODULE SupportProofs ---------------------------
(***************************************************************************)
(* Proofs about what the threads rest on, for every number of threads and  *)
(* processes.  Lists: the pointers of the kernel's lists spell the         *)
(* sequences it takes them for.  Interrupts: whenever user code runs the   *)
(* timer can end its turn, and the kernel is entered through a gate it     *)
(* has, on the stack of the thread that runs.                              *)
(***************************************************************************)
EXTENDS KernelLists, Interrupts, FiniteSetTheorems, WellFoundedInduction, TLAPS

LSpec == ListsInit /\ [][ListsNext]_lists

Ptr == LNodes \cup {NULLP}
Mem == [LNodes -> [next : Ptr, prev : Ptr]]
PNodes == {PT(t) : t \in LThreads} \cup {TH(p) : p \in LProcs}

\* The node of kind "queue" or "process_threads" in thread t.
N(kind, t) == <<kind, t>>
Inj(s) == \A i, j \in 1 .. Len(s) : s[i] = s[j] => i = j

\* Place k of the circle that goes from h through the threads of s back to h.
At(h, s, kind, k) == IF k \in 1 .. Len(s) THEN N(kind, s[k]) ELSE h
Circle(m, h, s, kind) ==
    \A k \in 0 .. Len(s) :
        /\ m[At(h, s, kind, k)].next = At(h, s, kind, k + 1)
        /\ m[At(h, s, kind, k + 1)].prev = At(h, s, kind, k)
\* A head that has been cleared stands for the empty list, too.
Ring(m, h, s, kind) == (s = <<>> /\ m[h] = Zeroed) \/ Circle(m, h, s, kind)

ProcSeqs == [LProcs -> Seq(LThreads)]
States == [LThreads -> {"free", "ready", "exited"}]
Owners == [LThreads -> LProcs \cup {0}]

\* The parts of the invariant, of any memory and any sequences.

\* Whatever becomes of the lists of processes, they stay among themselves.
ApartM(m) == \A n \in PNodes : /\ m[n].next \in PNodes \cup {NULLP}
                               /\ m[n].prev \in PNodes \cup {NULLP}
QueueM(m, q) ==
    /\ q \in Seq(LThreads) /\ Inj(q) /\ Ring(m, READY, q, "queue")
    /\ \A t \in LThreads : t \notin In(q) => m[Q(t)] = Zeroed
RingsM(m, ths, ts) ==
    /\ \A p \in LProcs : Ring(m, TH(p), ths[p], "process_threads")
    /\ \A t \in LThreads : m[PT(t)] = Zeroed <=> ts[t] = "free"
\* A thread is in the list of its process, or its list has been cleared.
MembersM(ths, ts, tp, str) ==
    /\ \A p \in LProcs : Inj(ths[p])
    /\ \A p \in LProcs : \A t \in In(ths[p]) : tp[t] = p /\ ts[t] # "free" /\ t \notin str
    /\ \A t \in LThreads : ts[t] # "free" =>
            tp[t] \in LProcs /\ (t \in str \/ t \in In(ths[tp[t]]))
    /\ \A t \in str : ts[t] # "free"

KTyped ==
    /\ link \in Mem /\ tst \in States /\ tproc \in Owners
    /\ tcur \in LThreads \cup {0} /\ shell \in BOOLEAN
    /\ qseq \in Seq(LThreads) /\ thseq \in ProcSeqs
    /\ strays \in SUBSET LThreads /\ dirty \in BOOLEAN
Apart == ApartM(link)
Current ==
    /\ ~shell => tcur \in LThreads /\ tst[tcur] = "ready"
    /\ tcur # 0 => tst[tcur] # "free" /\ tcur \notin In(qseq)
Queue == QueueM(link, qseq) /\ \A t \in In(qseq) : tst[t] = "ready"
Members == MembersM(thseq, tst, tproc, strays)
Rings == ~dirty => RingsM(link, thseq, tst)

KInv == KTyped /\ Apart /\ Current /\ Queue /\ Members /\ Rings

-----------------------------------------------------------------------------
(* Nodes and the memory they are in. *)

LEMMA NodeFacts ==
    /\ \A t \in LThreads : /\ Q(t) = N("queue", t) /\ PT(t) = N("process_threads", t)
                           /\ Q(t) \in LNodes /\ Q(t) \notin PNodes /\ PT(t) \in PNodes
                           /\ Q(t) # READY
    /\ \A p \in LProcs : TH(p) \in PNodes
    /\ PNodes \subseteq LNodes
    /\ READY \in LNodes /\ READY \notin PNodes /\ NULLP \notin LNodes
    /\ \A t \in LThreads, p \in LProcs : PT(t) # TH(p)
    /\ \A p, q \in LProcs : TH(p) = TH(q) => p = q
    /\ \A kind, t, u : N(kind, t) = N(kind, u) => t = u
BY DEF Q, PT, TH, READY, N, LNodes, PNodes, NULLP

LEMMA SecondOfNode == \A kind, t : N(kind, t)[2] = t
BY DEF N

\* h is the head of a list of threads linked by their nodes of this kind.
Heads(h, kind) ==
    \/ h = READY /\ kind = "queue"
    \/ kind = "process_threads" /\ \E p \in LProcs : h = TH(p)

LEMMA HeadFacts ==
    ASSUME NEW h, NEW kind, Heads(h, kind)
    PROVE  /\ h \in LNodes /\ h # NULLP
           /\ \A t \in LThreads : /\ N(kind, t) \in LNodes /\ N(kind, t) # h /\ N(kind, t) # NULLP
           /\ \A t, u : N(kind, t) = N(kind, u) => t = u
<1>1. CASE h = READY /\ kind = "queue"
  BY <1>1, NodeFacts
<1>2. CASE kind = "process_threads" /\ \E p \in LProcs : h = TH(p)
  BY <1>2, NodeFacts
<1> QED BY <1>1, <1>2 DEF Heads

\* Bounds on places are kept out of the way by these.
LEMMA AtFacts ==
    ASSUME NEW h, NEW kind, Heads(h, kind), NEW s \in Seq(LThreads)
    PROVE  /\ \A k \in Int : At(h, s, kind, k) \in LNodes /\ At(h, s, kind, k) # NULLP
           /\ \A k \in Int : k \notin 1 .. Len(s) <=> At(h, s, kind, k) = h
<1>1. \A k \in 1 .. Len(s) : s[k] \in LThreads
  OBVIOUS
<1> QED BY <1>1, HeadFacts DEF At

\* r is m with new between a and b.
Linked(m, r, new, a, b) ==
    /\ r \in Mem
    /\ \A n \in LNodes :
         /\ r[n].next = IF n = a THEN new ELSE IF n = new THEN b ELSE m[n].next
         /\ r[n].prev = IF n = b THEN new ELSE IF n = new THEN a ELSE m[n].prev
         /\ n # a /\ n # b /\ n # new => r[n] = m[n]

LEMMA BetweenFacts ==
    ASSUME NEW m \in Mem, NEW new \in LNodes, NEW a \in LNodes, NEW b \in LNodes,
           new # a, new # b
    PROVE  Linked(m, list_add_between(m, new, a, b), new, a, b)
<1>0. PICK r : r = list_add_between(m, new, a, b)
  OBVIOUS
<1>1. PICK m1 : m1 = [m EXCEPT ![a].next = new]
  OBVIOUS
<1>2. PICK m2 : m2 = [m1 EXCEPT ![new].prev = a]
  OBVIOUS
<1>3. PICK m3 : m3 = [m2 EXCEPT ![new].next = b]
  OBVIOUS
<1>4. r = [m3 EXCEPT ![b].prev = new]
  BY <1>0, <1>1, <1>2, <1>3 DEF list_add_between
<1>5. m1 \in Mem /\ \A n \in LNodes : /\ m1[n].next = IF n = a THEN new ELSE m[n].next
                                      /\ m1[n].prev = m[n].prev
                                      /\ n # a => m1[n] = m[n]
  BY <1>1 DEF Mem, Ptr
<1>6. m2 \in Mem /\ \A n \in LNodes : /\ m2[n].prev = IF n = new THEN a ELSE m1[n].prev
                                      /\ m2[n].next = m1[n].next
                                      /\ n # new => m2[n] = m1[n]
  BY <1>2, <1>5 DEF Mem, Ptr
<1>7. m3 \in Mem /\ \A n \in LNodes : /\ m3[n].next = IF n = new THEN b ELSE m2[n].next
                                      /\ m3[n].prev = m2[n].prev
                                      /\ n # new => m3[n] = m2[n]
  BY <1>3, <1>6 DEF Mem, Ptr
<1>8. r \in Mem /\ \A n \in LNodes : /\ r[n].prev = IF n = b THEN new ELSE m3[n].prev
                                     /\ r[n].next = m3[n].next
                                     /\ n # b => r[n] = m3[n]
  BY <1>4, <1>7 DEF Mem, Ptr
<1> QED BY <1>0, <1>5, <1>6, <1>7, <1>8 DEF Linked

\* r is m without item, which was between a and b.
Unlinked(m, r, item, a, b) ==
    /\ r \in Mem /\ r[item] = Zeroed
    /\ \A n \in LNodes : n # item =>
         /\ r[n].next = IF n = a THEN b ELSE m[n].next
         /\ r[n].prev = IF n = b THEN a ELSE m[n].prev
         /\ n # a /\ n # b => r[n] = m[n]

LEMMA DelFacts ==
    ASSUME NEW m \in Mem, NEW item \in LNodes, m[item].next \in LNodes, m[item].prev \in LNodes
    PROVE  Unlinked(m, list_del(m, item), item, m[item].prev, m[item].next)
<1>1. PICK a \in LNodes, b \in LNodes : a = m[item].prev /\ b = m[item].next
  OBVIOUS
<1>2. PICK m1 : m1 = [m EXCEPT ![a].next = b]
  OBVIOUS
<1>3. m1 \in Mem /\ \A n \in LNodes : /\ m1[n].next = IF n = a THEN b ELSE m[n].next
                                      /\ m1[n].prev = m[n].prev
                                      /\ n # a => m1[n] = m[n]
  BY <1>1, <1>2 DEF Mem, Ptr
<1>4. m1[item].next = b /\ m1[item].prev = a
  BY <1>1, <1>3
<1>5. PICK m2 : m2 = [m1 EXCEPT ![b].prev = a]
  OBVIOUS
<1>6. m2 \in Mem /\ \A n \in LNodes : /\ m2[n].prev = IF n = b THEN a ELSE m1[n].prev
                                      /\ m2[n].next = m1[n].next
                                      /\ n # b => m2[n] = m1[n]
  BY <1>1, <1>3, <1>5 DEF Mem, Ptr
<1>7. list_del(m, item) = [m2 EXCEPT ![item] = Zeroed]
  BY <1>1, <1>2, <1>4, <1>5 DEF list_del
<1>8. PICK r : r = list_del(m, item)
  OBVIOUS
<1>9. r \in Mem /\ r[item] = Zeroed /\ \A n \in LNodes : n # item => r[n] = m2[n]
  BY <1>6, <1>7, <1>8 DEF Mem, Ptr, Zeroed
<1> QED BY <1>1, <1>3, <1>6, <1>8, <1>9 DEF Unlinked

-----------------------------------------------------------------------------
(* What the operations of list.h do to a ring. *)

\* c is the circle from h through the threads of s, place by place.
Places(c, h, s, kind) ==
    /\ c \in [0 .. Len(s) + 1 -> LNodes]
    /\ c[0] = h /\ c[Len(s) + 1] = h
    /\ \A k \in 1 .. Len(s) : c[k] = N(kind, s[k])

\* The links of m go from each of these places to the next and back.
Around(m, c, n) == \A k \in 0 .. n : m[c[k]].next = c[k + 1] /\ m[c[k + 1]].prev = c[k]
Distinct(c, n) == \A j, k \in 0 .. n : c[j] = c[k] => j = k

LEMMA PlacesFacts ==
    ASSUME NEW h, NEW kind, Heads(h, kind), NEW s \in Seq(LThreads), Inj(s)
    PROVE  \E c : /\ Places(c, h, s, kind)
                  /\ Distinct(c, Len(s))
                  /\ \A m : Circle(m, h, s, kind) <=> Around(m, c, Len(s))
<1>1. PICK n \in Nat : n = Len(s)
  OBVIOUS
<1>2. \A k \in 1 .. n : s[k] \in LThreads
  BY <1>1
<1>3. PICK c : c = [k \in 0 .. n + 1 |-> At(h, s, kind, k)]
  OBVIOUS
<1>4. /\ \A k \in 1 .. n : At(h, s, kind, k) = N(kind, s[k])
      /\ At(h, s, kind, 0) = h /\ At(h, s, kind, n + 1) = h
  BY <1>1 DEF At
<1>5. c[0] = h /\ c[n + 1] = h /\ \A k \in 1 .. n : c[k] = N(kind, s[k])
  BY <1>3, <1>4
<1>6. c \in [0 .. n + 1 -> LNodes]
  BY <1>1, <1>3, AtFacts
<1>7. Places(c, h, s, kind)
  BY <1>1, <1>5, <1>6 DEF Places
<1>8. ASSUME NEW j \in 0 .. n, NEW k \in 0 .. n, c[j] = c[k] PROVE j = k
  <2>1. CASE j = 0 /\ k # 0
    <3>1. k \in 1 .. n
      BY <2>1
    <3> QED BY <1>2, <1>5, <1>8, <2>1, <3>1, HeadFacts
  <2>2. CASE k = 0 /\ j # 0
    <3>1. j \in 1 .. n
      BY <2>2
    <3> QED BY <1>2, <1>5, <1>8, <2>2, <3>1, HeadFacts
  <2>3. CASE j \in 1 .. n /\ k \in 1 .. n
    <3>1. s[j] = s[k]
      BY <1>5, <1>8, <2>3, HeadFacts
    <3> QED BY <1>1, <2>3, <3>1 DEF Inj
  <2> QED BY <2>1, <2>2, <2>3
<1>9. ASSUME NEW m
      PROVE  Circle(m, h, s, kind) <=> Around(m, c, n)
  <2>1. \A k \in 0 .. n : c[k] = At(h, s, kind, k) /\ c[k + 1] = At(h, s, kind, k + 1)
    BY <1>3
  <2> QED BY <1>1, <2>1 DEF Circle, Around
<1>10. Distinct(c, n)
  BY <1>8 DEF Distinct
<1> QED BY <1>1, <1>7, <1>9, <1>10

\* How a circle is shown for a changed sequence.
LEMMA PlacesCircle ==
    ASSUME NEW h, NEW kind, Heads(h, kind), NEW s \in Seq(LThreads), NEW c,
           Places(c, h, s, kind), NEW m,
           \A k \in 0 .. Len(s) : m[c[k]].next = c[k + 1] /\ m[c[k + 1]].prev = c[k]
    PROVE  Circle(m, h, s, kind)
<1>1. PICK n \in Nat : n = Len(s)
  OBVIOUS
<1>2. \A k \in 0 .. n + 1 : c[k] = At(h, s, kind, k)
  BY <1>1 DEF At, Places
<1>3. \A k \in 0 .. n : c[k] = At(h, s, kind, k) /\ c[k + 1] = At(h, s, kind, k + 1)
  BY <1>2
<1> QED BY <1>1, <1>3 DEF Circle

LEMMA RingFrame ==
    ASSUME NEW h, NEW kind, Heads(h, kind), NEW s \in Seq(LThreads), NEW m, NEW r,
           Ring(m, h, s, kind), r[h] = m[h],
           \A i \in 1 .. Len(s) : r[N(kind, s[i])] = m[N(kind, s[i])]
    PROVE  Ring(r, h, s, kind)
<1>1. CASE s = <<>> /\ m[h] = Zeroed
  BY <1>1 DEF Ring
<1>2. CASE Circle(m, h, s, kind)
  <2>1. \A k \in Int : r[At(h, s, kind, k)] = m[At(h, s, kind, k)]
    BY DEF At
  <2>2. \A k \in 0 .. Len(s) : k \in Int /\ k + 1 \in Int
    OBVIOUS
  <2>3. Circle(r, h, s, kind)
    BY <1>2, <2>1, <2>2 DEF Circle
  <2> QED BY <2>3 DEF Ring
<1> QED BY <1>1, <1>2 DEF Ring

LEMMA EnsureRing ==
    ASSUME NEW h, NEW kind, Heads(h, kind), NEW s \in Seq(LThreads),
           NEW m \in Mem, Ring(m, h, s, kind), NEW i, i = list_ensure_init(m, h)
    PROVE  /\ i \in Mem /\ Circle(i, h, s, kind)
           /\ \A n \in LNodes : n # h => i[n] = m[n]
<1>0. h \in LNodes /\ h # NULLP
  BY HeadFacts
<1>1. i = list_ensure_init(m, h)
  OBVIOUS
<1>2. CASE s = <<>> /\ m[h] = Zeroed
  <2>1. i = [m EXCEPT ![h] = [next |-> h, prev |-> h]]
    BY <1>1, <1>2 DEF list_ensure_init, INIT_LIST_HEAD, Zeroed
  <2>2. i \in Mem /\ i[h].next = h /\ i[h].prev = h /\ \A n \in LNodes : n # h => i[n] = m[n]
    BY <1>0, <2>1 DEF Mem, Ptr
  <2>3. Len(s) = 0
    BY <1>2
  <2>4. \A k \in 0 .. 0 : At(h, s, kind, k) = h /\ At(h, s, kind, k + 1) = h
    BY <2>3 DEF At
  <2>5. Circle(i, h, s, kind)
    BY <2>2, <2>3, <2>4 DEF Circle
  <2> QED BY <1>1, <2>2, <2>5
<1>3. CASE Circle(m, h, s, kind)
  <2>1. 0 \in 0 .. Len(s) /\ At(h, s, kind, 0) = h /\ At(h, s, kind, 0 + 1) # NULLP
    BY AtFacts
  <2>2. m[h].next # NULLP
    BY <1>3, <2>1 DEF Circle
  <2>3. i = m
    BY <1>1, <2>2 DEF list_ensure_init
  <2> QED BY <1>1, <1>3, <2>3
<1> QED BY <1>2, <1>3 DEF Ring

\* A node put between places j and j + 1.
Inserted(s, j, t, s2) ==
    /\ s2 \in Seq(LThreads) /\ Len(s2) = Len(s) + 1
    /\ \A k \in 1 .. j : s2[k] = s[k]
    /\ s2[j + 1] = t
    /\ \A k \in j + 1 .. Len(s) : s2[k + 1] = s[k]

LEMMA InsertCircle ==
    ASSUME NEW h, NEW kind, Heads(h, kind), NEW s \in Seq(LThreads), Inj(s),
           NEW m \in Mem, Circle(m, h, s, kind),
           NEW t \in LThreads, t \notin In(s), NEW j \in 0 .. Len(s),
           NEW s2, Inserted(s, j, t, s2), NEW r,
           r = list_add_between(m, N(kind, t), At(h, s, kind, j), At(h, s, kind, j + 1))
    PROVE  /\ r \in Mem /\ Circle(r, h, s2, kind)
           /\ \A x \in LNodes : x # h /\ (\A u \in In(s2) : x # N(kind, u)) => r[x] = m[x]
<1>1. PICK n \in Nat : n = Len(s)
  OBVIOUS
<1>2. PICK c : /\ Places(c, h, s, kind)
               /\ Distinct(c, n)
               /\ \A x : Circle(x, h, s, kind) <=> Around(x, c, n)
  BY <1>1, PlacesFacts
<1>3. /\ c \in [0 .. n + 1 -> LNodes] /\ c[0] = h /\ c[n + 1] = h
      /\ \A k \in 1 .. n : c[k] = N(kind, s[k])
  BY <1>1, <1>2 DEF Places
<1>4. \A k \in 0 .. n : m[c[k]].next = c[k + 1] /\ m[c[k + 1]].prev = c[k]
  BY <1>2 DEF Around
<1>5. PICK a \in LNodes, b \in LNodes : a = c[j] /\ b = c[j + 1]
  BY <1>1, <1>3
<1>6. a = At(h, s, kind, j) /\ b = At(h, s, kind, j + 1)
  BY <1>1, <1>3, <1>5 DEF At
<1>7. PICK new \in LNodes : new = N(kind, t)
  BY HeadFacts
<1>8. \A k \in 0 .. n + 1 : c[k] # new
  <2>1. \A k \in 1 .. n : s[k] \in LThreads /\ s[k] # t
    BY <1>1 DEF In
  <2>2. \A k \in 1 .. n : c[k] # new
    BY <1>3, <1>7, <2>1, HeadFacts
  <2>3. h # new
    BY <1>7, HeadFacts
  <2> QED BY <1>3, <2>2, <2>3
<1>9. new # a /\ new # b
  BY <1>1, <1>5, <1>8
<1>10. r = list_add_between(m, new, a, b)
  BY <1>6, <1>7
<1>11. /\ r \in Mem
       /\ \A x \in LNodes :
            /\ r[x].next = IF x = a THEN new ELSE IF x = new THEN b ELSE m[x].next
            /\ r[x].prev = IF x = b THEN new ELSE IF x = new THEN a ELSE m[x].prev
            /\ x # a /\ x # b /\ x # new => r[x] = m[x]
  <2>1. Linked(m, list_add_between(m, new, a, b), new, a, b)
    BY <1>9, BetweenFacts
  <2> QED BY <1>10, <2>1 DEF Linked
<1>12. PICK d : d = [k \in 0 .. n + 2 |-> IF k <= j THEN c[k] ELSE IF k = j + 1 THEN new ELSE c[k - 1]]
  OBVIOUS
<1>13. /\ \A k \in 0 .. j : d[k] = c[k]
       /\ d[j + 1] = new
       /\ \A k \in j + 2 .. n + 2 : d[k] = c[k - 1]
  BY <1>1, <1>12
<1>14. Len(s2) = n + 1 /\ s2 \in Seq(LThreads)
  BY <1>1 DEF Inserted
<1>15. Places(d, h, s2, kind)
  <2>1. d \in [0 .. n + 2 -> LNodes]
    BY <1>1, <1>3, <1>7, <1>12
  <2>2. d[0] = h /\ d[n + 2] = h
    BY <1>1, <1>3, <1>13
  <2>3. ASSUME NEW k \in 1 .. n + 1 PROVE d[k] = N(kind, s2[k])
    <3>1. CASE k <= j
      <4>1. k \in 1 .. j /\ k \in 0 .. j /\ k \in 1 .. n
        BY <1>1, <3>1
      <4>2. s2[k] = s[k]
        BY <4>1 DEF Inserted
      <4> QED BY <1>3, <1>13, <4>1, <4>2
    <3>2. CASE k = j + 1
      BY <1>7, <1>13, <3>2 DEF Inserted
    <3>3. CASE k > j + 1
      <4>1. PICK i \in j + 1 .. n : k = i + 1
        BY <1>1, <3>3
      <4>2. s2[k] = s[i]
        BY <1>1, <4>1 DEF Inserted
      <4>3. i \in 1 .. n /\ k \in j + 2 .. n + 2 /\ k - 1 = i
        BY <1>1, <4>1
      <4> QED BY <1>3, <1>13, <4>2, <4>3
    <3> QED BY <1>1, <3>1, <3>2, <3>3
  <2>4. (n + 1) + 1 = n + 2
    OBVIOUS
  <2> QED BY <1>14, <2>1, <2>2, <2>3, <2>4 DEF Places
<1>16. \A k \in 0 .. n : k # j => c[k] # a /\ c[k + 1] # b
  <2>1. \A k \in 0 .. n : k # j => c[k] # a
    BY <1>1, <1>2, <1>5 DEF Distinct
  <2>2. \A k \in 0 .. n : k # j => c[k + 1] # b
    <3> SUFFICES ASSUME NEW k \in 0 .. n, k # j, c[k + 1] = b PROVE FALSE
      OBVIOUS
    <3>1. m[c[k + 1]].prev = c[k] /\ m[c[j + 1]].prev = c[j]
      BY <1>1, <1>4
    <3>2. c[k] = c[j]
      BY <1>5, <3>1
    <3> QED BY <1>1, <1>2, <3>2 DEF Distinct
  <2> QED BY <2>1, <2>2
<1>17. ASSUME NEW k \in 0 .. n + 1 PROVE r[d[k]].next = d[k + 1] /\ r[d[k + 1]].prev = d[k]
  <2>1. CASE k < j
    <3>1. k \in 0 .. n /\ k + 1 \in 0 .. n + 1 /\ k # j /\ d[k] = c[k] /\ d[k + 1] = c[k + 1]
      BY <1>1, <1>13, <2>1, SMTT(30)
    <3>2. c[k] \in LNodes /\ c[k + 1] \in LNodes /\ c[k] # a /\ c[k + 1] # b /\ c[k] # new /\ c[k + 1] # new
      BY <1>3, <1>8, <1>16, <3>1
    <3> QED BY <1>4, <1>11, <3>1, <3>2
  <2>2. CASE k = j
    <3>1. d[k] = a /\ d[k + 1] = new
      BY <1>1, <1>5, <1>13, <2>2
    <3> QED BY <1>9, <1>11, <3>1
  <2>3. CASE k = j + 1
    <3>1. d[k] = new /\ d[k + 1] = b
      BY <1>1, <1>5, <1>13, <2>3
    <3> QED BY <1>9, <1>11, <3>1
  <2>4. CASE k > j + 1
    <3>1. PICK i \in 0 .. n : k = i + 1 /\ i # j /\ d[k] = c[i] /\ d[k + 1] = c[i + 1]
      BY <1>1, <1>13, <2>4
    <3>2. i + 1 \in 0 .. n + 1
      OBVIOUS
    <3>3. c[i] \in LNodes /\ c[i + 1] \in LNodes /\ c[i] # a /\ c[i + 1] # b /\ c[i] # new /\ c[i + 1] # new
      BY <1>3, <1>8, <1>16, <3>1, <3>2
    <3> QED BY <1>4, <1>11, <3>1, <3>3
  <2> QED BY <1>1, <2>1, <2>2, <2>3, <2>4
<1>18. Circle(r, h, s2, kind)
  BY <1>14, <1>15, <1>17, PlacesCircle
<1>19. ASSUME NEW x \in LNodes, x # h, \A u \in In(s2) : x # N(kind, u) PROVE r[x] = m[x]
  <2>1. \A k \in 0 .. n + 2 : d[k] = h \/ \E u \in In(s2) : d[k] = N(kind, u)
    <3>1. \A k \in 1 .. n + 1 : d[k] = N(kind, s2[k]) /\ s2[k] \in In(s2)
      BY <1>14, <1>15, SMTT(30) DEF Places, In
    <3>2. d[0] = h /\ d[n + 2] = h
      BY <1>14, <1>15 DEF Places
    <3> QED BY <3>1, <3>2
  <2>2. a = d[j] /\ new = d[j + 1] /\ b = d[j + 2]
    BY <1>1, <1>5, <1>13
  <2>3. x # a /\ x # b /\ x # new
    BY <1>1, <1>19, <2>1, <2>2
  <2> QED BY <1>11, <2>3
<1> QED BY <1>6, <1>7, <1>10, <1>11, <1>18, <1>19

\* The node at place j taken out.
Removed(s, j, s2) ==
    /\ s2 \in Seq(LThreads) /\ Len(s2) = Len(s) - 1
    /\ \A k \in 1 .. j - 1 : s2[k] = s[k]
    /\ \A k \in j .. Len(s) - 1 : s2[k] = s[k + 1]

LEMMA RemoveCircle ==
    ASSUME NEW h, NEW kind, Heads(h, kind), NEW s \in Seq(LThreads), Inj(s),
           NEW m \in Mem, Circle(m, h, s, kind),
           NEW j \in 1 .. Len(s), NEW s2, Removed(s, j, s2),
           NEW r, r = list_del_linked(m, N(kind, s[j]))
    PROVE  /\ r \in Mem /\ Circle(r, h, s2, kind) /\ r[N(kind, s[j])] = Zeroed
           /\ \A x \in LNodes : x # h /\ (\A u \in In(s) : x # N(kind, u)) => r[x] = m[x]
<1>1. PICK n \in Nat : n = Len(s)
  OBVIOUS
<1>2. PICK c : /\ Places(c, h, s, kind)
               /\ Distinct(c, n)
               /\ \A x : Circle(x, h, s, kind) <=> Around(x, c, n)
  BY <1>1, PlacesFacts
<1>3. /\ c \in [0 .. n + 1 -> LNodes] /\ c[0] = h /\ c[n + 1] = h
      /\ \A k \in 1 .. n : c[k] = N(kind, s[k])
  BY <1>1, <1>2 DEF Places
<1>4. \A k \in 0 .. n : m[c[k]].next = c[k + 1] /\ m[c[k + 1]].prev = c[k]
  BY <1>2 DEF Around
<1>5. PICK a \in LNodes, b \in LNodes, item \in LNodes : a = c[j - 1] /\ b = c[j + 1] /\ item = c[j]
  <2>1. j - 1 \in 0 .. n + 1 /\ j + 1 \in 0 .. n + 1 /\ j \in 0 .. n + 1
    BY <1>1
  <2> QED BY <1>3, <2>1
<1>6. item = N(kind, s[j])
  BY <1>1, <1>3, <1>5
<1>7. m[item].next = b /\ m[item].prev = a
  <2>1. j \in 0 .. n /\ j - 1 \in 0 .. n /\ (j - 1) + 1 = j
    BY <1>1
  <2> QED BY <1>4, <1>5, <2>1
<1>8. NULLP \notin LNodes
  BY NodeFacts
<1>9. Unlinked(m, r, item, a, b)
  <2>1. r = list_del(m, item)
    BY <1>6, <1>7, <1>8 DEF list_del_linked
  <2>2. Unlinked(m, list_del(m, item), item, m[item].prev, m[item].next)
    BY <1>7, DelFacts
  <2> QED BY <1>7, <2>1, <2>2
<1>10. /\ r \in Mem /\ r[item] = Zeroed
       /\ \A x \in LNodes : x # item =>
            /\ r[x].next = IF x = a THEN b ELSE m[x].next
            /\ r[x].prev = IF x = b THEN a ELSE m[x].prev
            /\ x # a /\ x # b => r[x] = m[x]
  BY <1>9 DEF Unlinked
<1>11. \A i, k \in 1 .. n + 1 : c[i] = c[k] => i = k
  <2> SUFFICES ASSUME NEW i \in 1 .. n + 1, NEW k \in 1 .. n + 1, c[i] = c[k] PROVE i = k
    OBVIOUS
  <2>1. i - 1 \in 0 .. n /\ k - 1 \in 0 .. n /\ (i - 1) + 1 = i /\ (k - 1) + 1 = k
    BY <1>1
  <2>2. m[c[i]].prev = c[i - 1] /\ m[c[k]].prev = c[k - 1]
    BY <1>4, <2>1
  <2>3. i - 1 = k - 1
    BY <1>2, <2>1, <2>2 DEF Distinct
  <2> QED BY <2>3
<1>12. PICK d : d = [k \in 0 .. n |-> IF k < j THEN c[k] ELSE c[k + 1]]
  OBVIOUS
<1>13. /\ \A k \in 0 .. j - 1 : d[k] = c[k]
       /\ \A k \in j .. n : d[k] = c[k + 1]
  BY <1>1, <1>12
<1>14. Len(s2) = n - 1 /\ s2 \in Seq(LThreads) /\ n >= 1
  BY <1>1 DEF Removed
<1>15. Places(d, h, s2, kind)
  <2>1. d \in [0 .. n -> LNodes]
    BY <1>1, <1>3, <1>12
  <2>2. d[0] = h /\ d[n] = h
    BY <1>1, <1>3, <1>13
  <2>3. ASSUME NEW k \in 1 .. n - 1 PROVE d[k] = N(kind, s2[k])
    <3>1. CASE k < j
      <4>1. k \in 1 .. j - 1 /\ k \in 0 .. j - 1 /\ k \in 1 .. n
        BY <1>1, <3>1
      <4>2. s2[k] = s[k]
        BY <4>1 DEF Removed
      <4> QED BY <1>3, <1>13, <4>1, <4>2
    <3>2. CASE k >= j
      <4>1. k \in j .. n - 1 /\ k \in j .. n /\ k + 1 \in 1 .. n
        BY <1>1, <3>2
      <4>2. s2[k] = s[k + 1]
        BY <1>1, <4>1 DEF Removed
      <4> QED BY <1>3, <1>13, <4>1, <4>2
    <3> QED BY <1>1, <3>1, <3>2
  <2>4. (n - 1) + 1 = n
    OBVIOUS
  <2> QED BY <1>14, <2>1, <2>2, <2>3, <2>4 DEF Places
<1>16. \A k \in 0 .. n : k # j => c[k] # item
  <2>1. j \in 0 .. n
    BY <1>1
  <2> QED BY <1>2, <1>5, <2>1 DEF Distinct
<1>17. \A k \in 1 .. n + 1 : k # j => c[k] # item
  <2>1. j \in 1 .. n + 1
    BY <1>1
  <2> QED BY <1>5, <1>11, <2>1
<1>18. ASSUME NEW k \in 0 .. n - 1 PROVE r[d[k]].next = d[k + 1] /\ r[d[k + 1]].prev = d[k]
  <2>1. CASE k < j - 1
    <3>1. k \in 0 .. n /\ k # j /\ k + 1 \in 1 .. n + 1 /\ k + 1 # j /\ k # j - 1 /\ k + 1 # j + 1
          /\ d[k] = c[k] /\ d[k + 1] = c[k + 1]
      BY <1>1, <1>13, <2>1
    <3>2. j - 1 \in 0 .. n /\ j + 1 \in 1 .. n + 1
      BY <1>1
    <3>3. c[k] # a /\ c[k + 1] # b
      BY <1>2, <1>5, <1>11, <3>1, <3>2 DEF Distinct
    <3>4. c[k] \in LNodes /\ c[k + 1] \in LNodes /\ c[k] # item /\ c[k + 1] # item
      BY <1>1, <1>3, <1>16, <1>17, <3>1
    <3> QED BY <1>4, <1>10, <3>1, <3>3, <3>4
  <2>2. CASE k = j - 1
    <3>1. d[k] = a /\ d[k + 1] = b
      BY <1>1, <1>5, <1>13, <2>2
    <3>2. a # item
      <4>1. j - 1 \in 0 .. n /\ j - 1 # j
        BY <1>1
      <4> QED BY <1>5, <1>16, <4>1
    <3>3. b # item
      <4>1. j + 1 \in 1 .. n + 1 /\ j + 1 # j
        BY <1>1
      <4> QED BY <1>5, <1>17, <4>1
    <3> QED BY <1>10, <3>1, <3>2, <3>3
  <2>3. CASE k > j - 1
    <3>1. PICK i : i = k + 1
      OBVIOUS
    <3>2. i \in 0 .. n /\ i # j /\ i + 1 \in 1 .. n + 1 /\ i + 1 # j /\ i # j - 1 /\ i + 1 # j + 1
          /\ d[k] = c[i] /\ d[k + 1] = c[i + 1]
      BY <1>1, <1>13, <2>3, <3>1, SMTT(30)
    <3>3. j - 1 \in 0 .. n /\ j + 1 \in 1 .. n + 1
      BY <1>1
    <3>4. c[i] # a /\ c[i + 1] # b
      BY <1>2, <1>5, <1>11, <3>2, <3>3 DEF Distinct
    <3>5. c[i] \in LNodes /\ c[i + 1] \in LNodes /\ c[i] # item /\ c[i + 1] # item
      BY <1>1, <1>3, <1>16, <1>17, <3>2
    <3> QED BY <1>4, <1>10, <3>2, <3>4, <3>5
  <2> QED BY <1>1, <2>1, <2>2, <2>3
<1>19. Circle(r, h, s2, kind)
  BY <1>14, <1>15, <1>18, PlacesCircle
<1>20. ASSUME NEW x \in LNodes, x # h, \A u \in In(s) : x # N(kind, u) PROVE r[x] = m[x]
  <2>1. \A k \in 0 .. n + 1 : c[k] = h \/ \E u \in In(s) : c[k] = N(kind, u)
    BY <1>1, <1>3 DEF In
  <2>2. j - 1 \in 0 .. n + 1 /\ j + 1 \in 0 .. n + 1 /\ j \in 0 .. n + 1
    BY <1>1
  <2>3. x # a /\ x # b /\ x # item
    BY <1>5, <1>20, <2>1, <2>2
  <2> QED BY <1>10, <2>3
<1> QED BY <1>6, <1>10, <1>19, <1>20

LEMMA RotateCircle ==
    ASSUME NEW h, NEW kind, Heads(h, kind), NEW s \in Seq(LThreads), Inj(s),
           NEW m \in Mem, Circle(m, h, s, kind), Len(s) > 1,
           NEW r, r = list_rotate_left(m, h)
    PROVE  /\ r \in Mem /\ Circle(r, h, Append(Tail(s), Head(s)), kind)
           /\ \A x \in LNodes : x # h /\ (\A u \in In(s) : x # N(kind, u)) => r[x] = m[x]
<1>1. PICK n \in Nat : n = Len(s) /\ n > 1
  OBVIOUS
<1>2. PICK c : /\ Places(c, h, s, kind)
               /\ Distinct(c, n)
               /\ \A x : Circle(x, h, s, kind) <=> Around(x, c, n)
  BY <1>1, PlacesFacts
<1>3. /\ c \in [0 .. n + 1 -> LNodes] /\ c[0] = h /\ c[n + 1] = h
      /\ \A k \in 1 .. n : c[k] = N(kind, s[k])
  BY <1>1, <1>2 DEF Places
<1>4. \A k \in 0 .. n : m[c[k]].next = c[k + 1] /\ m[c[k + 1]].prev = c[k]
  BY <1>2 DEF Around
<1>5. PICK a \in LNodes, b \in LNodes, z \in LNodes : a = c[1] /\ b = c[2] /\ z = c[n]
  BY <1>1, <1>3
<1>6. h \in LNodes /\ h # NULLP /\ NULLP \notin LNodes
  BY HeadFacts, NodeFacts
<1>7. a # h /\ b # h /\ z # h /\ a # b /\ a # z
  BY <1>1, <1>2, <1>3, <1>5 DEF Distinct
<1>8. m[h].next = a /\ m[h].prev = z /\ m[a].next = b
  BY <1>1, <1>3, <1>4, <1>5
<1>9. PICK m1 : m1 = list_del(m, h)
  OBVIOUS
<1>10. Unlinked(m, m1, h, z, a)
  <2>1. Unlinked(m, list_del(m, h), h, m[h].prev, m[h].next)
    BY <1>6, <1>8, DelFacts
  <2> QED BY <1>8, <1>9, <2>1
<1>11. /\ m1 \in Mem
       /\ \A x \in LNodes : x # h =>
            /\ m1[x].next = IF x = z THEN a ELSE m[x].next
            /\ m1[x].prev = IF x = a THEN z ELSE m[x].prev
            /\ x # z /\ x # a => m1[x] = m[x]
  BY <1>10 DEF Unlinked
<1>12. m1[a].next = b
  BY <1>7, <1>8, <1>11
<1>13. r = list_add_between(m1, h, a, b)
  <2>1. ~list_empty(m, h)
    BY <1>6, <1>7, <1>8 DEF list_empty
  <2>2. r = list_add(list_del(m, h), h, a)
    BY <1>8, <2>1 DEF list_rotate_left
  <2>3. list_ensure_init(m1, a) = m1
    BY <1>6, <1>12 DEF list_ensure_init
  <2> QED BY <1>9, <1>12, <2>2, <2>3 DEF list_add
<1>14. Linked(m1, r, h, a, b)
  <2>1. Linked(m1, list_add_between(m1, h, a, b), h, a, b)
    BY <1>6, <1>7, <1>11, BetweenFacts
  <2> QED BY <1>13, <2>1
<1>15. /\ r \in Mem
       /\ \A x \in LNodes :
            /\ r[x].next = IF x = a THEN h ELSE IF x = h THEN b ELSE m1[x].next
            /\ r[x].prev = IF x = b THEN h ELSE IF x = h THEN a ELSE m1[x].prev
            /\ x # a /\ x # b /\ x # h => r[x] = m1[x]
  BY <1>14 DEF Linked
<1>16. /\ \A x \in LNodes : x # a /\ x # h /\ x # z => r[x].next = m[x].next
       /\ \A x \in LNodes : x # a /\ x # h /\ x # b => r[x].prev = m[x].prev
       /\ r[h].next = b /\ r[h].prev = a /\ r[a].next = h /\ r[a].prev = z
       /\ r[b].prev = h /\ r[z].next = a
  BY <1>6, <1>7, <1>11, <1>15
<1>17. PICK d : d = [k \in 0 .. n + 1 |-> IF k = 0 \/ k = n + 1 THEN h ELSE IF k = n THEN a ELSE c[k + 1]]
  OBVIOUS
<1>18. d[0] = h /\ d[n + 1] = h /\ d[n] = a /\ (\A k \in 1 .. n - 1 : d[k] = c[k + 1])
  BY <1>1, <1>17
<1>19. PICK s2 : s2 = Append(Tail(s), Head(s))
  OBVIOUS
<1>20. /\ s2 \in Seq(LThreads) /\ Len(s2) = n /\ s2[n] = s[1]
       /\ \A k \in 1 .. n - 1 : s2[k] = s[k + 1]
  <2>1. PICK u : u = Tail(s)
    OBVIOUS
  <2>2. u \in Seq(LThreads) /\ Len(u) = n - 1 /\ (\A k \in 1 .. n - 1 : u[k] = s[k + 1])
    BY <1>1, <2>1
  <2>3. PICK e : e = Head(s)
    OBVIOUS
  <2>4. e = s[1] /\ e \in LThreads
    BY <1>1, <2>3
  <2>5. s2 = Append(u, e)
    BY <1>19, <2>1, <2>3
  <2> QED BY <1>1, <2>2, <2>4, <2>5
<1>21. Places(d, h, s2, kind)
  <2>1. d \in [0 .. n + 1 -> LNodes]
    <3>1. \A k \in 0 .. n - 1 : c[k + 1] \in LNodes
      BY <1>1, <1>3
    <3> QED BY <1>1, <1>6, <1>17, <3>1
  <2>2. ASSUME NEW k \in 1 .. n PROVE d[k] = N(kind, s2[k])
    <3>1. CASE k = n
      BY <1>1, <1>3, <1>5, <1>18, <1>20, <3>1
    <3>2. CASE k < n
      <4>1. k \in 1 .. n - 1 /\ k + 1 \in 1 .. n
        BY <1>1, <3>2
      <4> QED BY <1>3, <1>18, <1>20, <4>1
    <3> QED BY <1>1, <3>1, <3>2
  <2> QED BY <1>18, <1>20, <2>1, <2>2 DEF Places
<1>22. ASSUME NEW k \in 0 .. n PROVE r[d[k]].next = d[k + 1] /\ r[d[k + 1]].prev = d[k]
  <2>1. CASE k = 0
    <3>1. 1 \in 1 .. n - 1 /\ 1 + 1 = 2
      BY <1>1
    <3>2. d[1] = b
      BY <1>5, <1>18, <3>1
    <3> QED BY <1>16, <1>18, <2>1, <3>2
  <2>2. CASE k \in 1 .. n - 2
    <3>1. PICK i : i = k + 1
      OBVIOUS
    <3>2. i \in 2 .. n - 1 /\ i \in 0 .. n /\ i + 1 \in 3 .. n /\ i + 1 \in 0 .. n /\ i + 1 # 2
          /\ d[k] = c[i] /\ d[k + 1] = c[i + 1]
      BY <1>1, <1>18, <2>2, <3>1
    <3>3. i # 1 /\ i # n /\ i # 0 /\ i + 1 # 1 /\ i + 1 # 0 /\ 0 \in 0 .. n /\ 1 \in 0 .. n /\ 2 \in 0 .. n /\ n \in 0 .. n
      BY <1>1, <3>2
    <3>4. c[i] # a /\ c[i] # h /\ c[i] # z
      BY <1>2, <1>3, <1>5, <3>2, <3>3 DEF Distinct
    <3>5. c[i + 1] # a /\ c[i + 1] # h /\ c[i + 1] # b
      BY <1>2, <1>3, <1>5, <3>2, <3>3 DEF Distinct
    <3>6. c[i] \in LNodes /\ c[i + 1] \in LNodes
      BY <1>1, <1>3, <3>2
    <3> QED BY <1>4, <1>16, <3>2, <3>4, <3>5, <3>6
  <2>3. CASE k = n - 1
    <3>1. k \in 1 .. n - 1 /\ k + 1 = n
      BY <1>1, <2>3
    <3>2. d[k] = z /\ d[k + 1] = a
      BY <1>5, <1>18, <3>1
    <3> QED BY <1>16, <3>2
  <2>4. CASE k = n
    BY <1>16, <1>18, <2>4
  <2> QED BY <1>1, <2>1, <2>2, <2>3, <2>4
<1>23. Circle(r, h, s2, kind)
  BY <1>20, <1>21, <1>22, PlacesCircle
<1>24. ASSUME NEW x \in LNodes, x # h, \A u \in In(s) : x # N(kind, u) PROVE r[x] = m[x]
  <2>1. \A k \in 1 .. n : \E u \in In(s) : c[k] = N(kind, u)
    BY <1>1, <1>3 DEF In
  <2>2. x # a /\ x # b /\ x # z
    BY <1>1, <1>5, <1>24, <2>1
  <2> QED BY <1>11, <1>15, <1>24, <2>2
<1> QED BY <1>15, <1>19, <1>23, <1>24

-----------------------------------------------------------------------------
(* The sequences the operations leave, and what is in them. *)

LEMMA InsertedFacts ==
    ASSUME NEW s \in Seq(LThreads), Inj(s), NEW j \in 0 .. Len(s), NEW t \in LThreads,
           t \notin In(s), NEW s2, Inserted(s, j, t, s2)
    PROVE  Inj(s2) /\ In(s2) = In(s) \cup {t}
<1>1. PICK n \in Nat : n = Len(s)
  OBVIOUS
<1>2. /\ s2 \in Seq(LThreads) /\ Len(s2) = n + 1 /\ s2[j + 1] = t
      /\ \A k \in 1 .. j : s2[k] = s[k]
      /\ \A k \in j + 1 .. n : s2[k + 1] = s[k]
  BY <1>1 DEF Inserted
<1>3. DOMAIN s = 1 .. n /\ DOMAIN s2 = 1 .. n + 1
  BY <1>1, <1>2
<1>4. \A k \in 1 .. n : s[k] \in In(s) /\ s[k] # t
  BY <1>3 DEF In
<1>5. \A k \in j + 2 .. n + 1 : k - 1 \in j + 1 .. n /\ s2[k] = s[k - 1]
  <2> SUFFICES ASSUME NEW k \in j + 2 .. n + 1 PROVE k - 1 \in j + 1 .. n /\ s2[k] = s[k - 1]
    OBVIOUS
  <2>1. k - 1 \in j + 1 .. n /\ (k - 1) + 1 = k
    BY <1>1
  <2> QED BY <1>2, <2>1
<1>6. \A k \in 1 .. n + 1 : k # j + 1 => s2[k] # t
  <2> SUFFICES ASSUME NEW k \in 1 .. n + 1, k # j + 1 PROVE s2[k] # t
    OBVIOUS
  <2>1. CASE k \in 1 .. j
    BY <1>1, <1>2, <1>4, <2>1
  <2>2. CASE k \in j + 2 .. n + 1
    <3>1. k - 1 \in 1 .. n /\ s2[k] = s[k - 1]
      BY <1>1, <1>5, <2>2
    <3> QED BY <1>4, <3>1
  <2> QED BY <1>1, <2>1, <2>2
<1>7. Inj(s2)
  <2> SUFFICES ASSUME NEW i \in 1 .. n + 1, NEW k \in 1 .. n + 1, s2[i] = s2[k] PROVE i = k
    BY <1>2 DEF Inj
  <2>1. CASE i = j + 1 \/ k = j + 1
    BY <1>2, <1>6, <2>1
  <2>2. CASE i \in 1 .. j /\ k \in 1 .. j
    <3>1. i \in 1 .. n /\ k \in 1 .. n /\ s[i] = s[k]
      BY <1>1, <1>2, <2>2
    <3> QED BY <1>1, <3>1 DEF Inj
  <2>3. CASE i \in 1 .. j /\ k \in j + 2 .. n + 1
    <3>1. i \in 1 .. n /\ k - 1 \in 1 .. n /\ s[i] = s[k - 1]
      BY <1>1, <1>2, <1>5, <2>3
    <3>2. i = k - 1
      BY <1>1, <3>1 DEF Inj
    <3> QED BY <1>1, <2>3, <3>2
  <2>4. CASE k \in 1 .. j /\ i \in j + 2 .. n + 1
    <3>1. k \in 1 .. n /\ i - 1 \in 1 .. n /\ s[k] = s[i - 1]
      BY <1>1, <1>2, <1>5, <2>4
    <3>2. k = i - 1
      BY <1>1, <3>1 DEF Inj
    <3> QED BY <1>1, <2>4, <3>2
  <2>5. CASE i \in j + 2 .. n + 1 /\ k \in j + 2 .. n + 1
    <3>1. i - 1 \in 1 .. n /\ k - 1 \in 1 .. n /\ s[i - 1] = s[k - 1]
      BY <1>1, <1>5, <2>5
    <3>2. i - 1 = k - 1
      BY <1>1, <3>1 DEF Inj
    <3> QED BY <1>1, <2>5, <3>2
  <2> QED BY <1>1, <2>1, <2>2, <2>3, <2>4, <2>5
<1>8. In(s2) \subseteq In(s) \cup {t}
  <2> SUFFICES ASSUME NEW k \in 1 .. n + 1 PROVE s2[k] \in In(s) \cup {t}
    BY <1>3 DEF In
  <2>1. CASE k \in 1 .. j
    BY <1>1, <1>2, <1>4, <2>1
  <2>2. CASE k \in j + 2 .. n + 1
    <3>1. k - 1 \in 1 .. n /\ s2[k] = s[k - 1]
      BY <1>1, <1>5, <2>2
    <3> QED BY <1>4, <3>1
  <2>3. CASE k = j + 1
    BY <1>2, <2>3
  <2> QED BY <1>1, <2>1, <2>2, <2>3
<1>9. In(s) \cup {t} \subseteq In(s2)
  <2>1. t \in In(s2)
    <3>1. j + 1 \in 1 .. n + 1
      BY <1>1
    <3> QED BY <1>2, <1>3, <3>1 DEF In
  <2>2. ASSUME NEW k \in 1 .. n PROVE s[k] \in In(s2)
    <3>1. CASE k \in 1 .. j
      <4>1. k \in 1 .. n + 1 /\ s2[k] = s[k]
        BY <1>1, <1>2, <3>1
      <4> QED BY <1>3, <4>1 DEF In
    <3>2. CASE k \in j + 1 .. n
      <4>1. k + 1 \in 1 .. n + 1 /\ s2[k + 1] = s[k]
        BY <1>1, <1>2, <3>2
      <4> QED BY <1>3, <4>1 DEF In
    <3> QED BY <1>1, <3>1, <3>2
  <2> QED BY <1>3, <2>1, <2>2 DEF In
<1> QED BY <1>7, <1>8, <1>9

LEMMA RemovedFacts ==
    ASSUME NEW s \in Seq(LThreads), Inj(s), NEW j \in 1 .. Len(s), NEW s2, Removed(s, j, s2)
    PROVE  Inj(s2) /\ In(s2) = In(s) \ {s[j]}
<1>1. PICK n \in Nat : n = Len(s)
  OBVIOUS
<1>2. /\ s2 \in Seq(LThreads) /\ Len(s2) = n - 1
      /\ \A k \in 1 .. j - 1 : s2[k] = s[k]
      /\ \A k \in j .. n - 1 : s2[k] = s[k + 1]
  BY <1>1 DEF Removed
<1>3. DOMAIN s = 1 .. n /\ DOMAIN s2 = 1 .. n - 1
  BY <1>1, <1>2
<1>4. \A i, k \in 1 .. n : s[i] = s[k] => i = k
  BY <1>1 DEF Inj
<1>5. \A k \in 1 .. n - 1 : \E i \in 1 .. n : /\ s2[k] = s[i] /\ i # j
                                              /\ i = IF k < j THEN k ELSE k + 1
  <2> SUFFICES ASSUME NEW k \in 1 .. n - 1
               PROVE  \E i \in 1 .. n : /\ s2[k] = s[i] /\ i # j
                                        /\ i = IF k < j THEN k ELSE k + 1
    OBVIOUS
  <2>1. CASE k < j
    <3>1. k \in 1 .. n /\ k \in 1 .. j - 1 /\ k # j
      BY <1>1, <2>1
    <3> QED BY <1>2, <2>1, <3>1
  <2>2. CASE k >= j
    <3>1. k + 1 \in 1 .. n /\ k \in j .. n - 1 /\ k + 1 # j
      BY <1>1, <2>2
    <3> QED BY <1>1, <1>2, <2>2, <3>1
  <2> QED BY <1>1, <2>1, <2>2
<1>6. Inj(s2)
  <2> SUFFICES ASSUME NEW i \in 1 .. n - 1, NEW k \in 1 .. n - 1, s2[i] = s2[k] PROVE i = k
    BY <1>2 DEF Inj
  <2>1. PICK a \in 1 .. n : s2[i] = s[a] /\ a = IF i < j THEN i ELSE i + 1
    BY <1>5
  <2>2. PICK b \in 1 .. n : s2[k] = s[b] /\ b = IF k < j THEN k ELSE k + 1
    BY <1>5
  <2>3. a = b
    BY <1>4, <2>1, <2>2
  <2> QED BY <1>1, <2>1, <2>2, <2>3
<1>7. In(s2) \subseteq In(s) \ {s[j]}
  <2> SUFFICES ASSUME NEW k \in 1 .. n - 1 PROVE s2[k] \in In(s) \ {s[j]}
    BY <1>3 DEF In
  <2>1. PICK a \in 1 .. n : s2[k] = s[a] /\ a # j
    BY <1>5
  <2>2. s[a] # s[j]
    BY <1>1, <1>4, <2>1
  <2> QED BY <1>3, <2>1, <2>2 DEF In
<1>8. In(s) \ {s[j]} \subseteq In(s2)
  <2> SUFFICES ASSUME NEW k \in 1 .. n, s[k] # s[j] PROVE s[k] \in In(s2)
    BY <1>3 DEF In
  <2>1. CASE k < j
    <3>1. k \in 1 .. j - 1 /\ k \in 1 .. n - 1
      BY <1>1, <2>1
    <3> QED BY <1>2, <1>3, <3>1 DEF In
  <2>2. CASE k > j
    <3>1. k - 1 \in j .. n - 1 /\ k - 1 \in 1 .. n - 1 /\ (k - 1) + 1 = k
      BY <1>1, <2>2
    <3>2. s2[k - 1] = s[k]
      BY <1>2, <3>1
    <3> QED BY <1>3, <3>1, <3>2 DEF In
  <2> QED BY <1>1, <2>1, <2>2
<1> QED BY <1>6, <1>7, <1>8

LEMMA AppendInserts ==
    ASSUME NEW s \in Seq(LThreads), NEW t \in LThreads
    PROVE  Inserted(s, Len(s), t, Append(s, t)) /\ Append(s, t) \in Seq(LThreads)
BY DEF Inserted

LEMMA PrependInserts ==
    ASSUME NEW s \in Seq(LThreads), NEW t \in LThreads
    PROVE  Inserted(s, 0, t, <<t>> \o s) /\ <<t>> \o s \in Seq(LThreads)
BY DEF Inserted

LEMMA TailRemoves ==
    ASSUME NEW s \in Seq(LThreads), s # <<>>
    PROVE  Removed(s, 1, Tail(s)) /\ Tail(s) \in Seq(LThreads) /\ Len(s) >= 1
BY DEF Removed

LEMMA Joined ==
    ASSUME NEW a \in Seq(LThreads), NEW b \in Seq(LThreads)
    PROVE  /\ a \o b \in Seq(LThreads) /\ Len(a \o b) = Len(a) + Len(b)
           /\ \A k \in 1 .. Len(a \o b) :
                (a \o b)[k] = IF k <= Len(a) THEN a[k] ELSE b[k - Len(a)]
OBVIOUS

LEMMA WithoutRemoves ==
    ASSUME NEW s \in Seq(LThreads), NEW t \in In(s)
    PROVE  \E j \in 1 .. Len(s) : s[j] = t /\ Removed(s, j, Without(s, t)) /\ Without(s, t) \in Seq(LThreads)
<1>1. PICK j : j = CHOOSE i \in DOMAIN s : s[i] = t
  OBVIOUS
<1>2. j \in DOMAIN s /\ s[j] = t
  BY <1>1 DEF In
<1>3. PICK n \in Nat : n = Len(s)
  OBVIOUS
<1>4. j \in 1 .. n /\ DOMAIN s = 1 .. n
  BY <1>2, <1>3
<1>5. PICK a, b : a = SubSeq(s, 1, j - 1) /\ b = SubSeq(s, j + 1, n)
  OBVIOUS
<1>6. a \in Seq(LThreads) /\ Len(a) = j - 1 /\ \A k \in 1 .. j - 1 : a[k] = s[k]
  BY <1>3, <1>4, <1>5
<1>7. b \in Seq(LThreads) /\ Len(b) = n - j /\ \A k \in 1 .. n - j : b[k] = s[k + j]
  BY <1>3, <1>4, <1>5
<1>8. PICK w : w = a \o b
  OBVIOUS
<1>9. w = Without(s, t)
  BY <1>1, <1>3, <1>5, <1>8 DEF Without, RemoveAt
<1>10. /\ w \in Seq(LThreads) /\ Len(w) = n - 1
       /\ \A k \in 1 .. j - 1 : w[k] = a[k]
       /\ \A k \in j .. n - 1 : w[k] = b[k - (j - 1)]
  <2>1. /\ w \in Seq(LThreads) /\ Len(w) = Len(a) + Len(b)
        /\ \A k \in 1 .. Len(w) : w[k] = IF k <= Len(a) THEN a[k] ELSE b[k - Len(a)]
    BY <1>6, <1>7, <1>8, Joined
  <2>2. Len(w) = n - 1
    BY <1>4, <1>6, <1>7, <2>1
  <2>3. \A k \in 1 .. n - 1 : w[k] = IF k <= j - 1 THEN a[k] ELSE b[k - (j - 1)]
    BY <1>6, <2>1, <2>2
  <2> QED BY <1>4, <2>1, <2>2, <2>3
<1>11. ASSUME NEW k \in j .. n - 1 PROVE w[k] = s[k + 1]
  <2>1. k - (j - 1) \in 1 .. n - j /\ (k - (j - 1)) + j = k + 1
    BY <1>4
  <2> QED BY <1>7, <1>10, <2>1
<1>12. Removed(s, j, w)
  BY <1>3, <1>6, <1>10, <1>11 DEF Removed
<1> QED BY <1>2, <1>3, <1>4, <1>9, <1>10, <1>12

-----------------------------------------------------------------------------
(* The operations the kernel calls, on a ring that may have been cleared. *)

\* m and r differ only in the head h and the nodes of the threads in set.
Kept(m, r, h, set, kind) ==
    \A x \in LNodes : x # h /\ (\A u \in set : x # N(kind, u)) => r[x] = m[x]

LEMMA AddTailRing ==
    ASSUME NEW h, NEW kind, Heads(h, kind), NEW s \in Seq(LThreads), Inj(s),
           NEW m \in Mem, Ring(m, h, s, kind), NEW t \in LThreads, t \notin In(s),
           NEW r, r = list_add_tail(m, N(kind, t), h)
    PROVE  /\ r \in Mem /\ Circle(r, h, Append(s, t), kind) /\ Append(s, t) \in Seq(LThreads)
           /\ Inj(Append(s, t)) /\ In(Append(s, t)) = In(s) \cup {t}
           /\ Kept(m, r, h, In(s) \cup {t}, kind)
<1>1. PICK i : i = list_ensure_init(m, h)
  OBVIOUS
<1>2. i \in Mem /\ Circle(i, h, s, kind) /\ \A x \in LNodes : x # h => i[x] = m[x]
  BY <1>1, EnsureRing
<1>3. PICK s2 : s2 = Append(s, t)
  OBVIOUS
<1>4. Inserted(s, Len(s), t, s2) /\ s2 \in Seq(LThreads) /\ Len(s) \in 0 .. Len(s)
  BY <1>3, AppendInserts
<1>5. Inj(s2) /\ In(s2) = In(s) \cup {t}
  BY <1>4, InsertedFacts
<1>6. i[h].prev = At(h, s, kind, Len(s)) /\ At(h, s, kind, Len(s) + 1) = h
  <2>1. At(h, s, kind, Len(s) + 1) = h
    BY DEF At
  <2> QED BY <1>2, <1>4, <2>1 DEF Circle
<1>7. r = list_add_between(i, N(kind, t), At(h, s, kind, Len(s)), At(h, s, kind, Len(s) + 1))
  BY <1>1, <1>6 DEF list_add_tail
<1>8. /\ r \in Mem /\ Circle(r, h, s2, kind)
      /\ \A x \in LNodes : x # h /\ (\A u \in In(s2) : x # N(kind, u)) => r[x] = i[x]
  BY <1>2, <1>4, <1>7, InsertCircle
<1>9. Kept(m, r, h, In(s) \cup {t}, kind)
  BY <1>2, <1>5, <1>8 DEF Kept
<1> QED BY <1>3, <1>4, <1>5, <1>8, <1>9

LEMMA AddHeadRing ==
    ASSUME NEW h, NEW kind, Heads(h, kind), NEW s \in Seq(LThreads), Inj(s),
           NEW m \in Mem, Ring(m, h, s, kind), NEW t \in LThreads, t \notin In(s),
           NEW r, r = list_add(m, N(kind, t), h)
    PROVE  /\ r \in Mem /\ Circle(r, h, <<t>> \o s, kind) /\ <<t>> \o s \in Seq(LThreads)
           /\ Inj(<<t>> \o s) /\ In(<<t>> \o s) = In(s) \cup {t}
           /\ Kept(m, r, h, In(s) \cup {t}, kind)
<1>1. PICK i : i = list_ensure_init(m, h)
  OBVIOUS
<1>2. i \in Mem /\ Circle(i, h, s, kind) /\ \A x \in LNodes : x # h => i[x] = m[x]
  BY <1>1, EnsureRing
<1>3. PICK s2 : s2 = <<t>> \o s
  OBVIOUS
<1>4. Inserted(s, 0, t, s2) /\ s2 \in Seq(LThreads) /\ 0 \in 0 .. Len(s)
  BY <1>3, PrependInserts
<1>5. Inj(s2) /\ In(s2) = In(s) \cup {t}
  BY <1>4, InsertedFacts
<1>6. At(h, s, kind, 0) = h /\ i[h].next = At(h, s, kind, 0 + 1)
  <2>1. At(h, s, kind, 0) = h
    BY DEF At
  <2> QED BY <1>2, <1>4, <2>1 DEF Circle
<1>7. r = list_add_between(i, N(kind, t), At(h, s, kind, 0), At(h, s, kind, 0 + 1))
  BY <1>1, <1>6 DEF list_add
<1>8. /\ r \in Mem /\ Circle(r, h, s2, kind)
      /\ \A x \in LNodes : x # h /\ (\A u \in In(s2) : x # N(kind, u)) => r[x] = i[x]
  BY <1>2, <1>4, <1>7, InsertCircle
<1>9. Kept(m, r, h, In(s) \cup {t}, kind)
  BY <1>2, <1>5, <1>8 DEF Kept
<1> QED BY <1>3, <1>4, <1>5, <1>8, <1>9

LEMMA RingCircle ==
    ASSUME NEW h, NEW kind, NEW m, NEW s \in Seq(LThreads), s # <<>>, Ring(m, h, s, kind)
    PROVE  Circle(m, h, s, kind)
BY DEF Ring

LEMMA DelRing ==
    ASSUME NEW h, NEW kind, Heads(h, kind), NEW s \in Seq(LThreads), Inj(s),
           NEW m \in Mem, Ring(m, h, s, kind), NEW t \in In(s),
           NEW r, r = list_del_linked(m, N(kind, t))
    PROVE  /\ r \in Mem /\ Circle(r, h, Without(s, t), kind) /\ Without(s, t) \in Seq(LThreads)
           /\ Inj(Without(s, t)) /\ In(Without(s, t)) = In(s) \ {t}
           /\ r[N(kind, t)] = Zeroed
           /\ Kept(m, r, h, In(s), kind)
<1>1. PICK s2 : s2 = Without(s, t)
  OBVIOUS
<1>2. PICK j \in 1 .. Len(s) : s[j] = t /\ Removed(s, j, s2) /\ s2 \in Seq(LThreads)
  BY <1>1, WithoutRemoves
<1>3. s # <<>>
  BY DEF In
<1>4. Circle(m, h, s, kind)
  BY <1>3, RingCircle
<1>5. Inj(s2) /\ In(s2) = In(s) \ {t}
  BY <1>2, RemovedFacts
<1>6. /\ r \in Mem /\ Circle(r, h, s2, kind) /\ r[N(kind, s[j])] = Zeroed
      /\ \A x \in LNodes : x # h /\ (\A u \in In(s) : x # N(kind, u)) => r[x] = m[x]
  BY <1>2, <1>4, RemoveCircle
<1> QED BY <1>1, <1>2, <1>5, <1>6 DEF Kept

\* sched_remove of the first thread.
LEMMA TakeFirst ==
    ASSUME NEW h, NEW kind, Heads(h, kind), NEW s \in Seq(LThreads), Inj(s), s # <<>>,
           NEW m \in Mem, Ring(m, h, s, kind), NEW r, r = list_del_linked(m, list_first(m, h))
    PROVE  /\ list_first(m, h) = N(kind, s[1]) /\ s[1] \in In(s) /\ s[1] \in LThreads
           /\ r \in Mem /\ Circle(r, h, Tail(s), kind) /\ Tail(s) \in Seq(LThreads)
           /\ Inj(Tail(s)) /\ In(Tail(s)) = In(s) \ {s[1]}
           /\ r[N(kind, s[1])] = Zeroed
           /\ Kept(m, r, h, In(s), kind)
<1>1. PICK s2 : s2 = Tail(s)
  OBVIOUS
<1>2. Removed(s, 1, s2) /\ s2 \in Seq(LThreads) /\ 1 \in 1 .. Len(s) /\ s[1] \in LThreads
  BY <1>1, TailRemoves
<1>3. Circle(m, h, s, kind)
  BY RingCircle
<1>4. Inj(s2) /\ In(s2) = In(s) \ {s[1]}
  BY <1>2, RemovedFacts
<1>5. list_first(m, h) = N(kind, s[1])
  <2>1. 0 \in 0 .. Len(s) /\ At(h, s, kind, 0) = h /\ At(h, s, kind, 0 + 1) = N(kind, s[1])
    BY <1>2 DEF At
  <2> QED BY <1>3, <2>1 DEF Circle, list_first
<1>6. /\ r \in Mem /\ Circle(r, h, s2, kind) /\ r[N(kind, s[1])] = Zeroed
      /\ \A x \in LNodes : x # h /\ (\A u \in In(s) : x # N(kind, u)) => r[x] = m[x]
  BY <1>2, <1>3, <1>5, RemoveCircle
<1>7. s[1] \in In(s)
  BY <1>2 DEF In
<1> QED BY <1>1, <1>2, <1>4, <1>5, <1>6, <1>7 DEF Kept

-----------------------------------------------------------------------------
(* The lists keep to their own nodes. *)

LEMMA HeadsOf ==
    /\ Heads(READY, "queue")
    /\ \A p \in LProcs : Heads(TH(p), "process_threads")
BY DEF Heads

LEMMA QueueAlone ==
    ASSUME NEW m, NEW r, NEW q, QueueM(m, q), \A x \in LNodes \ PNodes : r[x] = m[x]
    PROVE  QueueM(r, q)
<1>1. r[READY] = m[READY] /\ \A t \in LThreads : r[Q(t)] = m[Q(t)] /\ Q(t) = N("queue", t)
  BY NodeFacts
<1>2. q \in Seq(LThreads) /\ \A i \in 1 .. Len(q) : q[i] \in LThreads
  BY DEF QueueM
<1>3. Ring(r, READY, q, "queue")
  BY <1>1, <1>2, HeadsOf, RingFrame DEF QueueM
<1> QED BY <1>1, <1>3 DEF QueueM

LEMMA RingsAlone ==
    ASSUME NEW m, NEW r, NEW ths \in [LProcs -> Seq(LThreads)], NEW ts, RingsM(m, ths, ts),
           \A x \in PNodes : r[x] = m[x]
    PROVE  RingsM(r, ths, ts)
<1>1. ASSUME NEW p \in LProcs PROVE Ring(r, TH(p), ths[p], "process_threads")
  <2>1. PICK s \in Seq(LThreads) : s = ths[p]
    OBVIOUS
  <2>2. \A i \in 1 .. Len(s) : s[i] \in LThreads
    OBVIOUS
  <2>3. r[TH(p)] = m[TH(p)] /\ \A t \in LThreads : r[N("process_threads", t)] = m[N("process_threads", t)]
    BY NodeFacts
  <2>4. Ring(m, TH(p), s, "process_threads")
    BY <2>1 DEF RingsM
  <2>5. Ring(r, TH(p), s, "process_threads")
    BY <2>2, <2>3, <2>4, HeadsOf, RingFrame
  <2> QED BY <2>1, <2>5
<1>2. \A t \in LThreads : r[PT(t)] = m[PT(t)]
  BY NodeFacts
<1> QED BY <1>1, <1>2 DEF RingsM

LEMMA KeptQueue ==
    ASSUME NEW m, NEW r, NEW set \in SUBSET LThreads, Kept(m, r, READY, set, "queue")
    PROVE  /\ \A x \in PNodes : r[x] = m[x]
           /\ \A t \in LThreads : t \notin set => r[Q(t)] = m[Q(t)]
BY NodeFacts DEF Kept

LEMMA KeptThread ==
    ASSUME NEW m, NEW r, NEW set \in SUBSET LThreads, NEW p \in LProcs,
           Kept(m, r, TH(p), set, "process_threads"), NEW t \in LThreads, t \notin set
    PROVE  r[PT(t)] = m[PT(t)]
BY NodeFacts DEF Kept

LEMMA KeptHead ==
    ASSUME NEW m, NEW r, NEW set \in SUBSET LThreads, NEW p \in LProcs,
           Kept(m, r, TH(p), set, "process_threads"), NEW o \in LProcs, o # p
    PROVE  r[TH(o)] = m[TH(o)]
BY NodeFacts DEF Kept

\* A linked node has pointers.
LEMMA CircleLinked ==
    ASSUME NEW h, NEW kind, Heads(h, kind), NEW s \in Seq(LThreads), NEW m,
           Circle(m, h, s, kind), NEW t \in In(s)
    PROVE  m[N(kind, t)] # Zeroed
<1>1. PICK k \in 1 .. Len(s) : s[k] = t
  BY DEF In
<1>2. At(h, s, kind, k) = N(kind, t) /\ k \in 0 .. Len(s) /\ k + 1 \in Int
  BY <1>1 DEF At
<1>3. m[N(kind, t)].next # NULLP
  BY <1>2, AtFacts DEF Circle
<1> QED BY <1>3 DEF Zeroed

-----------------------------------------------------------------------------
(* The ready queue. *)

LEMMA QueueThread ==
    ASSUME NEW m \in Mem, NEW q, QueueM(m, q), NEW t \in LThreads, t \notin In(q),
           NEW r, r = list_add_tail(m, Q(t), READY)
    PROVE  /\ r \in Mem /\ QueueM(r, Append(q, t)) /\ In(Append(q, t)) = In(q) \cup {t}
           /\ \A x \in PNodes : r[x] = m[x]
<1>1. Q(t) = N("queue", t)
  BY NodeFacts
<1>2. q \in Seq(LThreads) /\ Inj(q) /\ Ring(m, READY, q, "queue")
  BY DEF QueueM
<1>3. In(q) \in SUBSET LThreads
  BY <1>2 DEF In
<1>4. /\ r \in Mem /\ Circle(r, READY, Append(q, t), "queue") /\ Append(q, t) \in Seq(LThreads)
      /\ Inj(Append(q, t)) /\ In(Append(q, t)) = In(q) \cup {t}
      /\ Kept(m, r, READY, In(q) \cup {t}, "queue")
  BY <1>1, <1>2, HeadsOf, AddTailRing
<1>5. /\ \A x \in PNodes : r[x] = m[x]
      /\ \A u \in LThreads : u \notin In(q) \cup {t} => r[Q(u)] = m[Q(u)]
  <2>1. In(q) \cup {t} \in SUBSET LThreads
    BY <1>3
  <2> QED BY <1>4, <2>1, KeptQueue
<1>6. Ring(r, READY, Append(q, t), "queue")
  BY <1>4 DEF Ring
<1>7. \A u \in LThreads : u \notin In(Append(q, t)) => r[Q(u)] = Zeroed
  BY <1>4, <1>5 DEF QueueM
<1> QED BY <1>4, <1>5, <1>6, <1>7 DEF QueueM

\* The thread schedule() puts back into the queue.
Back(ts) == IF tcur # 0 /\ ts[tcur] = "ready" THEN {tcur} ELSE {}

LEMMA ScheduleStep ==
    ASSUME NEW m \in Mem, NEW q, QueueM(m, q), NEW ts, schedule_lists(m, q, ts),
           tcur \in LThreads \cup {0}, tcur \notin In(q)
    PROVE  /\ link' \in Mem /\ QueueM(link', qseq')
           /\ tcur' \in LThreads /\ tcur' \in In(q) \cup Back(ts)
           /\ In(qseq') = (In(q) \cup Back(ts)) \ {tcur'}
           /\ shell' = FALSE
           /\ \A x \in PNodes : link'[x] = m[x]
<1> DEFINE back == tcur # 0 /\ (tcur # 0 => ts[tcur] = "ready")
<1>1. PICK n, s : /\ n = IF back THEN list_add_tail(m, Q(tcur), READY) ELSE m
                  /\ s = IF back THEN Append(q, tcur) ELSE q
  OBVIOUS
<1>2. /\ s # <<>> /\ tcur' = list_first(n, READY)[2] /\ shell' = FALSE
      /\ link' = list_del_linked(n, list_first(n, READY)) /\ qseq' = Tail(s)
  BY <1>1 DEF schedule_lists
<1>3. n \in Mem /\ QueueM(n, s) /\ In(s) = In(q) \cup Back(ts) /\ \A x \in PNodes : n[x] = m[x]
  <2>1. CASE back
    <3>1. tcur \in LThreads /\ Back(ts) = {tcur} /\ n = list_add_tail(m, Q(tcur), READY)
          /\ s = Append(q, tcur)
      BY <1>1, <2>1 DEF Back
    <3> QED BY <3>1, QueueThread
  <2>2. CASE ~back
    BY <1>1, <2>2 DEF Back
  <2> QED BY <2>1, <2>2
<1>4. s \in Seq(LThreads) /\ Inj(s) /\ Ring(n, READY, s, "queue")
      /\ (\A t \in LThreads : t \notin In(s) => n[Q(t)] = Zeroed)
  BY <1>3 DEF QueueM
<1>5. /\ list_first(n, READY) = N("queue", s[1]) /\ s[1] \in In(s) /\ s[1] \in LThreads
      /\ link' \in Mem /\ Circle(link', READY, Tail(s), "queue") /\ Tail(s) \in Seq(LThreads)
      /\ Inj(Tail(s)) /\ In(Tail(s)) = In(s) \ {s[1]}
      /\ link'[N("queue", s[1])] = Zeroed
      /\ Kept(n, link', READY, In(s), "queue")
  <2>1. PICK l : l = link'
    OBVIOUS
  <2>2. l = list_del_linked(n, list_first(n, READY)) /\ s # <<>> /\ n \in Mem
    BY <1>2, <1>3, <2>1
  <2>3. Heads(READY, "queue")
    BY HeadsOf
  <2>4. /\ list_first(n, READY) = N("queue", s[1]) /\ s[1] \in In(s) /\ s[1] \in LThreads
        /\ l \in Mem /\ Circle(l, READY, Tail(s), "queue") /\ Tail(s) \in Seq(LThreads)
        /\ Inj(Tail(s)) /\ In(Tail(s)) = In(s) \ {s[1]}
        /\ l[N("queue", s[1])] = Zeroed
        /\ Kept(n, l, READY, In(s), "queue")
    BY <1>4, <2>2, <2>3, TakeFirst
  <2> QED BY <2>1, <2>4
<1>6. tcur' = s[1]
  BY <1>2, <1>5, SecondOfNode
<1>7. In(s) \in SUBSET LThreads
  BY <1>4 DEF In
<1>8. /\ \A x \in PNodes : link'[x] = n[x]
      /\ \A t \in LThreads : t \notin In(s) => link'[Q(t)] = n[Q(t)]
  BY <1>5, <1>7, KeptQueue
<1>9. \A t \in LThreads : t \notin In(qseq') => link'[Q(t)] = Zeroed
  BY <1>2, <1>4, <1>5, <1>8, NodeFacts
<1>10. QueueM(link', qseq')
  BY <1>2, <1>5, <1>9 DEF QueueM, Ring
<1> QED BY <1>2, <1>3, <1>5, <1>6, <1>8, <1>10

-----------------------------------------------------------------------------
(* The lists of processes: what holds whether or not a ring is whole. *)

\* r is what an operation on the list of a process may make of m.
Loose(m, r) == r \in Mem /\ ApartM(r) /\ \A x \in LNodes \ PNodes : r[x] = m[x]

LEMMA BetweenLoose ==
    ASSUME NEW m \in Mem, ApartM(m), NEW new \in PNodes, NEW a \in PNodes, NEW b \in PNodes
    PROVE  Loose(m, list_add_between(m, new, a, b))
<1>0. PICK r : r = list_add_between(m, new, a, b)
  OBVIOUS
<1>1. PICK m1 : m1 = [m EXCEPT ![a].next = new]
  OBVIOUS
<1>2. PICK m2 : m2 = [m1 EXCEPT ![new].prev = a]
  OBVIOUS
<1>3. PICK m3 : m3 = [m2 EXCEPT ![new].next = b]
  OBVIOUS
<1>4. r = [m3 EXCEPT ![b].prev = new]
  BY <1>0, <1>1, <1>2, <1>3 DEF list_add_between
<1>5. PNodes \subseteq LNodes
  BY NodeFacts
<1>6. m1 \in Mem /\ \A n \in LNodes : /\ m1[n].next = IF n = a THEN new ELSE m[n].next
                                      /\ m1[n].prev = m[n].prev
                                      /\ n # a => m1[n] = m[n]
  BY <1>1, <1>5 DEF Mem, Ptr
<1>7. m2 \in Mem /\ \A n \in LNodes : /\ m2[n].prev = IF n = new THEN a ELSE m1[n].prev
                                      /\ m2[n].next = m1[n].next
                                      /\ n # new => m2[n] = m1[n]
  BY <1>2, <1>5, <1>6 DEF Mem, Ptr
<1>8. m3 \in Mem /\ \A n \in LNodes : /\ m3[n].next = IF n = new THEN b ELSE m2[n].next
                                      /\ m3[n].prev = m2[n].prev
                                      /\ n # new => m3[n] = m2[n]
  BY <1>3, <1>5, <1>7 DEF Mem, Ptr
<1>9. r \in Mem /\ \A n \in LNodes : /\ r[n].prev = IF n = b THEN new ELSE m3[n].prev
                                     /\ r[n].next = m3[n].next
                                     /\ n # b => r[n] = m3[n]
  BY <1>4, <1>5, <1>8 DEF Mem, Ptr
<1>10. ApartM(r)
  <2> SUFFICES ASSUME NEW n \in PNodes
               PROVE  r[n].next \in PNodes \cup {NULLP} /\ r[n].prev \in PNodes \cup {NULLP}
    BY DEF ApartM
  <2>1. n \in LNodes /\ m[n].next \in PNodes \cup {NULLP} /\ m[n].prev \in PNodes \cup {NULLP}
    BY <1>5 DEF ApartM
  <2>2. r[n].next = new \/ r[n].next = b \/ r[n].next = m[n].next
    BY <1>6, <1>7, <1>8, <1>9, <2>1
  <2>3. r[n].prev = new \/ r[n].prev = a \/ r[n].prev = m[n].prev
    BY <1>6, <1>7, <1>8, <1>9, <2>1
  <2> QED BY <2>1, <2>2, <2>3
<1>11. \A x \in LNodes \ PNodes : r[x] = m[x]
  BY <1>6, <1>7, <1>8, <1>9
<1> QED BY <1>0, <1>9, <1>10, <1>11 DEF Loose

LEMMA ProcessAdd ==
    ASSUME NEW m \in Mem, ApartM(m), NEW t \in LThreads, NEW p \in LProcs
    PROVE  Loose(m, list_add(m, PT(t), TH(p)))
<1>1. PICK i : i = list_ensure_init(m, TH(p))
  OBVIOUS
<1>2. TH(p) \in PNodes /\ PT(t) \in PNodes /\ PNodes \subseteq LNodes /\ NULLP \notin PNodes
  BY NodeFacts
<1>3. /\ i \in Mem /\ ApartM(i) /\ i[TH(p)].next # NULLP
      /\ \A x \in LNodes \ PNodes : i[x] = m[x]
  <2>1. CASE m[TH(p)].next = NULLP
    <3>1. PICK h : h = TH(p)
      OBVIOUS
    <3>2. i = [m EXCEPT ![h] = [next |-> h, prev |-> h]]
      BY <1>1, <2>1, <3>1 DEF list_ensure_init, INIT_LIST_HEAD
    <3>3. i \in Mem /\ i[h].next = h /\ i[h].prev = h /\ \A x \in LNodes : x # h => i[x] = m[x]
      BY <1>2, <3>1, <3>2 DEF Mem, Ptr
    <3>4. ApartM(i)
      BY <1>2, <3>1, <3>3 DEF ApartM
    <3> QED BY <1>2, <3>1, <3>3, <3>4
  <2>2. CASE m[TH(p)].next # NULLP
    BY <1>1, <2>2 DEF list_ensure_init
  <2> QED BY <2>1, <2>2
<1>4. i[TH(p)].next \in PNodes
  BY <1>2, <1>3 DEF ApartM
<1>5. list_add(m, PT(t), TH(p)) = list_add_between(i, PT(t), TH(p), i[TH(p)].next)
  BY <1>1 DEF list_add
<1>6. PICK b : b = i[TH(p)].next
  OBVIOUS
<1>7. PICK r : r = list_add_between(i, PT(t), TH(p), b)
  OBVIOUS
<1>8. Loose(i, r)
  BY <1>2, <1>3, <1>4, <1>6, <1>7, BetweenLoose
<1> QED BY <1>3, <1>5, <1>6, <1>7, <1>8 DEF Loose

LEMMA ProcessDel ==
    ASSUME NEW m \in Mem, ApartM(m), NEW t \in LThreads
    PROVE  Loose(m, list_del_linked(m, PT(t)))
<1>1. PICK item : item = PT(t)
  OBVIOUS
<1>2. item \in PNodes /\ PNodes \subseteq LNodes /\ NULLP \notin LNodes
  BY <1>1, NodeFacts
<1>3. CASE m[item].next # NULLP /\ m[item].prev # NULLP
  <2>1. PICK a, b : a = m[item].prev /\ b = m[item].next
    OBVIOUS
  <2>2. a \in PNodes /\ b \in PNodes
    BY <1>2, <1>3, <2>1 DEF ApartM
  <2>3. PICK r : r = list_del(m, item)
    OBVIOUS
  <2>4. Unlinked(m, list_del(m, item), item, m[item].prev, m[item].next)
    BY <1>2, <2>1, <2>2, DelFacts
  <2>5. Unlinked(m, r, item, a, b)
    BY <2>1, <2>3, <2>4
  <2>6. ApartM(r)
    <3> SUFFICES ASSUME NEW n \in PNodes
                 PROVE  r[n].next \in PNodes \cup {NULLP} /\ r[n].prev \in PNodes \cup {NULLP}
      BY DEF ApartM
    <3>1. n \in LNodes /\ m[n].next \in PNodes \cup {NULLP} /\ m[n].prev \in PNodes \cup {NULLP}
      BY <1>2 DEF ApartM
    <3>2. CASE n = item
      BY <2>5, <3>2 DEF Unlinked, Zeroed
    <3>3. CASE n # item
      BY <2>2, <2>5, <3>1, <3>3 DEF Unlinked
    <3> QED BY <3>2, <3>3
  <2>7. r \in Mem /\ \A x \in LNodes \ PNodes : r[x] = m[x]
    BY <1>2, <2>2, <2>5 DEF Unlinked
  <2>8. list_del_linked(m, PT(t)) = r
    BY <1>1, <1>3, <2>3 DEF list_del_linked
  <2> QED BY <2>6, <2>7, <2>8 DEF Loose
<1>4. CASE ~(m[item].next # NULLP /\ m[item].prev # NULLP)
  <2>1. list_del_linked(m, PT(t)) = m
    BY <1>1, <1>4 DEF list_del_linked
  <2> QED BY <2>1 DEF Loose
<1> QED BY <1>3, <1>4

\* process_load_path and process_close clear the head of a list.
LEMMA ProcessCleared ==
    ASSUME NEW m \in Mem, ApartM(m), NEW p \in LProcs
    PROVE  LET r == [m EXCEPT ![TH(p)] = Zeroed]
           IN  /\ Loose(m, r)
               /\ r[TH(p)] = Zeroed /\ \A x \in LNodes : x # TH(p) => r[x] = m[x]
<1>1. PICK h : h = TH(p)
  OBVIOUS
<1>2. h \in PNodes /\ PNodes \subseteq LNodes
  BY <1>1, NodeFacts
<1>3. PICK r : r = [m EXCEPT ![h] = Zeroed]
  OBVIOUS
<1>4. r \in Mem /\ r[h] = Zeroed /\ \A x \in LNodes : x # h => r[x] = m[x]
  BY <1>2, <1>3 DEF Mem, Ptr, Zeroed
<1>5. ApartM(r)
  <2> SUFFICES ASSUME NEW n \in PNodes
               PROVE  r[n].next \in PNodes \cup {NULLP} /\ r[n].prev \in PNodes \cup {NULLP}
    BY DEF ApartM
  <2>1. CASE n = h
    BY <1>4, <2>1 DEF Zeroed
  <2>2. CASE n # h
    BY <1>2, <1>4, <2>2 DEF ApartM
  <2> QED BY <2>1, <2>2
<1> QED BY <1>1, <1>2, <1>3, <1>4, <1>5 DEF Loose

-----------------------------------------------------------------------------
(* The lists of processes: the operations on whole rings. *)

LEMMA InThreads ==
    ASSUME NEW s \in Seq(LThreads)
    PROVE  In(s) \in SUBSET LThreads
BY DEF In

LEMMA EmptyIn == Inj(<<>>) /\ In(<<>>) = {} /\ <<>> \in Seq(LThreads)
BY DEF Inj, In

LEMMA ClearMembers ==
    ASSUME NEW ths \in ProcSeqs, NEW ts \in States, NEW tp \in Owners, NEW str \in SUBSET LThreads,
           MembersM(ths, ts, tp, str), NEW p \in LProcs
    PROVE  /\ MembersM([ths EXCEPT ![p] = <<>>], ts, tp, str \cup In(ths[p]))
           /\ [ths EXCEPT ![p] = <<>>] \in ProcSeqs /\ str \cup In(ths[p]) \in SUBSET LThreads
<1>1. PICK w : w = [ths EXCEPT ![p] = <<>>]
  OBVIOUS
<1>2. w \in ProcSeqs /\ w[p] = <<>> /\ \A o \in LProcs : o # p => w[o] = ths[o]
  BY <1>1, EmptyIn DEF ProcSeqs
<1>3. PICK S : S = In(ths[p])
  OBVIOUS
<1>4. S \in SUBSET LThreads
  BY <1>3, InThreads DEF ProcSeqs
<1>5. MembersM(w, ts, tp, str \cup S)
  <2>1. \A o \in LProcs : Inj(w[o])
    BY <1>2, EmptyIn DEF MembersM
  <2>2. \A o \in LProcs : \A t \in In(w[o]) : tp[t] = o /\ ts[t] # "free" /\ t \notin str \cup S
    <3> SUFFICES ASSUME NEW o \in LProcs, NEW t \in In(w[o])
                 PROVE  tp[t] = o /\ ts[t] # "free" /\ t \notin str \cup S
      OBVIOUS
    <3>1. o # p /\ t \in In(ths[o])
      BY <1>2, EmptyIn
    <3>2. t \notin S
      BY <1>3, <3>1 DEF MembersM
    <3> QED BY <3>1, <3>2 DEF MembersM
  <2>3. \A t \in LThreads : ts[t] # "free" =>
            tp[t] \in LProcs /\ (t \in str \cup S \/ t \in In(w[tp[t]]))
    <3> SUFFICES ASSUME NEW t \in LThreads, ts[t] # "free"
                 PROVE  tp[t] \in LProcs /\ (t \in str \cup S \/ t \in In(w[tp[t]]))
      OBVIOUS
    <3>1. tp[t] \in LProcs /\ (t \in str \/ t \in In(ths[tp[t]]))
      BY DEF MembersM
    <3>2. CASE tp[t] = p
      BY <1>3, <3>1, <3>2
    <3>3. CASE tp[t] # p
      BY <1>2, <3>1, <3>3
    <3> QED BY <3>2, <3>3
  <2>4. \A t \in str \cup S : ts[t] # "free"
    BY <1>3 DEF MembersM
  <2> QED BY <2>1, <2>2, <2>3, <2>4 DEF MembersM
<1> QED BY <1>1, <1>2, <1>3, <1>4, <1>5

LEMMA ClearRings ==
    ASSUME NEW m \in Mem, ApartM(m), NEW ths \in ProcSeqs, NEW ts, RingsM(m, ths, ts), NEW p \in LProcs
    PROVE  RingsM([m EXCEPT ![TH(p)] = Zeroed], [ths EXCEPT ![p] = <<>>], ts)
<1>1. PICK w : w = [ths EXCEPT ![p] = <<>>]
  OBVIOUS
<1>2. w \in ProcSeqs /\ w[p] = <<>> /\ \A o \in LProcs : o # p => w[o] = ths[o]
  BY <1>1, EmptyIn DEF ProcSeqs
<1>3. PICK r : r = [m EXCEPT ![TH(p)] = Zeroed]
  OBVIOUS
<1>4. r[TH(p)] = Zeroed /\ \A x \in LNodes : x # TH(p) => r[x] = m[x]
  BY <1>3, ProcessCleared
<1>5. \A t \in LThreads : r[PT(t)] = m[PT(t)] /\ PT(t) = N("process_threads", t)
  BY <1>4, NodeFacts
<1>6. ASSUME NEW o \in LProcs PROVE Ring(r, TH(o), w[o], "process_threads")
  <2>1. CASE o = p
    BY <1>2, <1>4, <2>1 DEF Ring
  <2>2. CASE o # p
    <3>1. PICK s \in Seq(LThreads) : s = ths[o]
      BY DEF ProcSeqs
    <3>2. \A i \in 1 .. Len(s) : s[i] \in LThreads
      OBVIOUS
    <3>3. r[TH(o)] = m[TH(o)]
      BY <1>4, <2>2, NodeFacts
    <3>4. Ring(m, TH(o), s, "process_threads")
      BY <3>1 DEF RingsM
    <3>5. Ring(r, TH(o), s, "process_threads")
      BY <1>5, <3>2, <3>3, <3>4, HeadsOf, RingFrame
    <3> QED BY <1>2, <2>2, <3>1, <3>5
  <2> QED BY <2>1, <2>2
<1>7. RingsM(r, w, ts)
  BY <1>5, <1>6 DEF RingsM
<1> QED BY <1>1, <1>3, <1>7

LEMMA AddMembers ==
    ASSUME NEW ths \in ProcSeqs, NEW ts \in States, NEW tp \in Owners, NEW str \in SUBSET LThreads,
           MembersM(ths, ts, tp, str), NEW p \in LProcs, NEW t \in LThreads, ts[t] = "free"
    PROVE  /\ MembersM([ths EXCEPT ![p] = <<t>> \o @], [ts EXCEPT ![t] = "ready"],
                       [tp EXCEPT ![t] = p], str)
           /\ [ths EXCEPT ![p] = <<t>> \o @] \in ProcSeqs
           /\ [ts EXCEPT ![t] = "ready"] \in States /\ [tp EXCEPT ![t] = p] \in Owners
<1>1. PICK s \in Seq(LThreads) : s = ths[p]
  BY DEF ProcSeqs
<1>2. Inj(s) /\ t \notin In(s)
  BY <1>1 DEF MembersM
<1>3. PICK s2 : s2 = <<t>> \o s
  OBVIOUS
<1>4. s2 \in Seq(LThreads) /\ Inj(s2) /\ In(s2) = In(s) \cup {t}
  <2>1. Inserted(s, 0, t, s2) /\ s2 \in Seq(LThreads) /\ 0 \in 0 .. Len(s)
    BY <1>3, PrependInserts
  <2> QED BY <1>2, <2>1, InsertedFacts
<1>5. PICK w, ts2, tp2 : /\ w = [ths EXCEPT ![p] = <<t>> \o @]
                         /\ ts2 = [ts EXCEPT ![t] = "ready"] /\ tp2 = [tp EXCEPT ![t] = p]
  OBVIOUS
<1>6. w \in ProcSeqs /\ w[p] = s2 /\ \A o \in LProcs : o # p => w[o] = ths[o]
  BY <1>1, <1>3, <1>4, <1>5 DEF ProcSeqs
<1>7. ts2 \in States /\ ts2[t] = "ready" /\ \A u \in LThreads : u # t => ts2[u] = ts[u]
  BY <1>5 DEF States
<1>8. tp2 \in Owners /\ tp2[t] = p /\ \A u \in LThreads : u # t => tp2[u] = tp[u]
  BY <1>5 DEF Owners
<1>9. MembersM(w, ts2, tp2, str)
  <2>1. \A o \in LProcs : Inj(w[o])
    BY <1>4, <1>6 DEF MembersM
  <2>2. \A o \in LProcs : \A u \in In(w[o]) : tp2[u] = o /\ ts2[u] # "free" /\ u \notin str
    <3> SUFFICES ASSUME NEW o \in LProcs, NEW u \in In(w[o])
                 PROVE  tp2[u] = o /\ ts2[u] # "free" /\ u \notin str
      OBVIOUS
    <3>0. u \in LThreads
      BY <1>6, InThreads DEF ProcSeqs
    <3>1. CASE u = t
      <4>1. o = p
        BY <1>6, <3>1 DEF MembersM
      <4> QED BY <1>7, <1>8, <3>1, <4>1 DEF MembersM
    <3>2. CASE u # t
      <4>1. u \in In(ths[o])
        BY <1>1, <1>4, <1>6, <3>2
      <4> QED BY <1>7, <1>8, <3>0, <3>2, <4>1 DEF MembersM
    <3> QED BY <3>1, <3>2
  <2>3. \A u \in LThreads : ts2[u] # "free" =>
            tp2[u] \in LProcs /\ (u \in str \/ u \in In(w[tp2[u]]))
    <3> SUFFICES ASSUME NEW u \in LThreads, ts2[u] # "free"
                 PROVE  tp2[u] \in LProcs /\ (u \in str \/ u \in In(w[tp2[u]]))
      OBVIOUS
    <3>1. CASE u = t
      BY <1>4, <1>6, <1>8, <3>1
    <3>2. CASE u # t
      <4>1. tp2[u] \in LProcs /\ (u \in str \/ u \in In(ths[tp2[u]]))
        BY <1>7, <1>8, <3>2 DEF MembersM
      <4> QED BY <1>1, <1>4, <1>6, <4>1
    <3> QED BY <3>1, <3>2
  <2>4. \A u \in str : ts2[u] # "free"
    BY <1>7 DEF MembersM
  <2> QED BY <2>1, <2>2, <2>3, <2>4 DEF MembersM
<1> QED BY <1>5, <1>6, <1>7, <1>8, <1>9

\* Rings other than p's, after a change that kept their nodes.
LEMMA OtherRings ==
    ASSUME NEW ths \in ProcSeqs, NEW ts, NEW tp, NEW str, MembersM(ths, ts, tp, str),
           NEW m, NEW r, RingsM(m, ths, ts), NEW p \in LProcs, NEW o \in LProcs, o # p,
           NEW t \in LThreads, \A u \in In(ths[o]) : u # t,
           Kept(m, r, TH(p), In(ths[p]) \cup {t}, "process_threads")
    PROVE  Ring(r, TH(o), ths[o], "process_threads")
<1>1. PICK s \in Seq(LThreads) : s = ths[o]
  BY DEF ProcSeqs
<1>2. In(ths[p]) \cup {t} \in SUBSET LThreads
  BY InThreads DEF ProcSeqs
<1>3. /\ \A u \in LThreads : u \notin In(ths[p]) \cup {t} => r[PT(u)] = m[PT(u)]
      /\ r[TH(o)] = m[TH(o)]
  <2>1. PICK set \in SUBSET LThreads : set = In(ths[p]) \cup {t}
    BY <1>2
  <2>2. Kept(m, r, TH(p), set, "process_threads")
    BY <2>1
  <2>3. ASSUME NEW u \in LThreads, u \notin set PROVE r[PT(u)] = m[PT(u)]
    BY <2>2, <2>3, KeptThread
  <2>4. r[TH(o)] = m[TH(o)]
    BY <2>2, KeptHead
  <2> QED BY <2>1, <2>3, <2>4
<1>4. \A u \in In(s) : u \notin In(ths[p]) \cup {t}
  <2>1. ASSUME NEW u \in In(s) PROVE u # t /\ u \notin In(ths[p])
    BY <1>1, <2>1 DEF MembersM
  <2> QED BY <2>1
<1>5. \A i \in 1 .. Len(s) : s[i] \in In(s) /\ s[i] \in LThreads
  BY DEF In
<1>6. \A i \in 1 .. Len(s) : r[N("process_threads", s[i])] = m[N("process_threads", s[i])]
  BY <1>3, <1>4, <1>5, NodeFacts
<1>7. Ring(m, TH(o), s, "process_threads")
  BY <1>1 DEF RingsM
<1>8. Ring(r, TH(o), s, "process_threads")
  BY <1>3, <1>6, <1>7, HeadsOf, RingFrame
<1> QED BY <1>1, <1>8

LEMMA AddRings ==
    ASSUME NEW ths \in ProcSeqs, NEW ts \in States, NEW tp, NEW str, MembersM(ths, ts, tp, str),
           NEW m \in Mem, RingsM(m, ths, ts), NEW p \in LProcs, NEW t \in LThreads, ts[t] = "free"
    PROVE  RingsM(list_add(m, PT(t), TH(p)), [ths EXCEPT ![p] = <<t>> \o @], [ts EXCEPT ![t] = "ready"])
<1>1. PICK s \in Seq(LThreads) : s = ths[p]
  BY DEF ProcSeqs
<1>2. Inj(s) /\ t \notin In(s) /\ Ring(m, TH(p), s, "process_threads")
  BY <1>1 DEF MembersM, RingsM
<1>3. PICK r : r = list_add(m, N("process_threads", t), TH(p))
  OBVIOUS
<1>4. Heads(TH(p), "process_threads")
  BY HeadsOf
<1>5. PICK s2 : s2 = <<t>> \o s
  OBVIOUS
<1>6. /\ r \in Mem /\ Circle(r, TH(p), s2, "process_threads") /\ s2 \in Seq(LThreads)
      /\ In(s2) = In(s) \cup {t}
      /\ Kept(m, r, TH(p), In(s) \cup {t}, "process_threads")
  <2>1. PICK h, kind : h = TH(p) /\ kind = "process_threads"
    OBVIOUS
  <2>2. Heads(h, kind) /\ r = list_add(m, N(kind, t), h) /\ Ring(m, h, s, kind)
    BY <1>2, <1>3, <1>4, <2>1
  <2>3. /\ r \in Mem /\ Circle(r, h, <<t>> \o s, kind) /\ <<t>> \o s \in Seq(LThreads)
        /\ Inj(<<t>> \o s) /\ In(<<t>> \o s) = In(s) \cup {t}
        /\ Kept(m, r, h, In(s) \cup {t}, kind)
    BY <1>2, <2>2, AddHeadRing
  <2> QED BY <1>5, <2>1, <2>3
<1>7. PICK w, ts2 : w = [ths EXCEPT ![p] = <<t>> \o @] /\ ts2 = [ts EXCEPT ![t] = "ready"]
  OBVIOUS
<1>8. w[p] = s2 /\ \A o \in LProcs : o # p => w[o] = ths[o]
  BY <1>1, <1>5, <1>7 DEF ProcSeqs
<1>9. ts2[t] = "ready" /\ \A u \in LThreads : u # t => ts2[u] = ts[u]
  BY <1>7 DEF States
<1>10. ASSUME NEW o \in LProcs PROVE Ring(r, TH(o), w[o], "process_threads")
  <2>1. CASE o = p
    BY <1>6, <1>8, <2>1 DEF Ring
  <2>2. CASE o # p
    <3>1. \A u \in In(ths[o]) : u # t
      BY DEF MembersM
    <3>2. Ring(r, TH(o), ths[o], "process_threads")
      BY <1>1, <1>6, <2>2, <3>1, OtherRings
    <3> QED BY <1>8, <2>2, <3>2
  <2> QED BY <2>1, <2>2
<1>11. ASSUME NEW u \in LThreads PROVE r[PT(u)] = Zeroed <=> ts2[u] = "free"
  <2>1. In(s) \cup {t} \in SUBSET LThreads
    BY InThreads
  <2>2. PT(u) = N("process_threads", u)
    BY NodeFacts
  <2>3. CASE u \in In(s2)
    <3>1. r[PT(u)] # Zeroed
      BY <1>4, <1>6, <2>2, <2>3, CircleLinked
    <3>2. ts2[u] # "free"
      <4>1. CASE u = t
        BY <1>9, <4>1
      <4>2. CASE u # t
        BY <1>1, <1>6, <1>9, <2>3, <4>2 DEF MembersM
      <4> QED BY <4>1, <4>2
    <3> QED BY <3>1, <3>2
  <2>4. CASE u \notin In(s2)
    <3>0. PICK set \in SUBSET LThreads : set = In(s) \cup {t}
      BY <2>1
    <3>1. r[PT(u)] = m[PT(u)]
      <4>1. Kept(m, r, TH(p), set, "process_threads") /\ u \notin set
        BY <1>6, <2>4, <3>0
      <4> QED BY <4>1, KeptThread
    <3>2. ts2[u] = ts[u]
      BY <1>6, <1>9, <2>4
    <3> QED BY <3>1, <3>2 DEF RingsM
  <2> QED BY <2>3, <2>4
<1>12. RingsM(r, w, ts2)
  BY <1>10, <1>11 DEF RingsM
<1> QED BY <1>3, <1>7, <1>12, NodeFacts

LEMMA CloseMembers ==
    ASSUME NEW ths \in ProcSeqs, NEW ts \in States, NEW tp, NEW str \in SUBSET LThreads,
           MembersM(ths, ts, tp, str), NEW t \in LThreads, ts[t] # "free", t \notin str,
           NEW p, p = tp[t]
    PROVE  /\ p \in LProcs /\ t \in In(ths[p])
           /\ MembersM([ths EXCEPT ![p] = Without(@, t)], [ts EXCEPT ![t] = "free"], tp, str \ {t})
           /\ [ths EXCEPT ![p] = Without(@, t)] \in ProcSeqs
<1>1. p \in LProcs /\ t \in In(ths[p])
  BY DEF MembersM
<1>2. PICK s \in Seq(LThreads) : s = ths[p]
  BY <1>1 DEF ProcSeqs
<1>3. PICK s2 : s2 = Without(s, t)
  OBVIOUS
<1>4. s2 \in Seq(LThreads) /\ Inj(s2) /\ In(s2) = In(s) \ {t}
  <2>1. Inj(s)
    BY <1>1, <1>2 DEF MembersM
  <2>2. PICK j \in 1 .. Len(s) : s[j] = t /\ Removed(s, j, s2) /\ s2 \in Seq(LThreads)
    BY <1>1, <1>2, <1>3, WithoutRemoves
  <2> QED BY <2>1, <2>2, RemovedFacts
<1>5. PICK w, ts2 : w = [ths EXCEPT ![p] = Without(@, t)] /\ ts2 = [ts EXCEPT ![t] = "free"]
  OBVIOUS
<1>6. w \in ProcSeqs /\ w[p] = s2 /\ \A o \in LProcs : o # p => w[o] = ths[o]
  BY <1>1, <1>2, <1>3, <1>4, <1>5 DEF ProcSeqs
<1>7. ts2[t] = "free" /\ \A u \in LThreads : u # t => ts2[u] = ts[u]
  BY <1>5 DEF States
<1>8. MembersM(w, ts2, tp, str \ {t})
  <2>1. \A o \in LProcs : Inj(w[o])
    BY <1>4, <1>6 DEF MembersM
  <2>2. \A o \in LProcs : \A u \in In(w[o]) : tp[u] = o /\ ts2[u] # "free" /\ u \notin str \ {t}
    <3> SUFFICES ASSUME NEW o \in LProcs, NEW u \in In(w[o])
                 PROVE  tp[u] = o /\ ts2[u] # "free" /\ u \notin str \ {t}
      OBVIOUS
    <3>0. u \in LThreads
      BY <1>6, InThreads DEF ProcSeqs
    <3>1. u \in In(ths[o]) /\ u # t
      BY <1>1, <1>2, <1>4, <1>6 DEF MembersM
    <3> QED BY <1>7, <3>0, <3>1 DEF MembersM
  <2>3. \A u \in LThreads : ts2[u] # "free" =>
            tp[u] \in LProcs /\ (u \in str \ {t} \/ u \in In(w[tp[u]]))
    <3> SUFFICES ASSUME NEW u \in LThreads, ts2[u] # "free"
                 PROVE  tp[u] \in LProcs /\ (u \in str \ {t} \/ u \in In(w[tp[u]]))
      OBVIOUS
    <3>1. u # t
      BY <1>7
    <3>2. tp[u] \in LProcs /\ (u \in str \/ u \in In(ths[tp[u]]))
      BY <1>7, <3>1 DEF MembersM
    <3> QED BY <1>2, <1>4, <1>6, <3>1, <3>2
  <2>4. \A u \in str \ {t} : ts2[u] # "free"
    BY <1>7 DEF MembersM
  <2> QED BY <2>1, <2>2, <2>3, <2>4 DEF MembersM
<1> QED BY <1>1, <1>5, <1>6, <1>8

LEMMA CloseStray ==
    ASSUME NEW ths \in ProcSeqs, NEW ts \in States, NEW tp, NEW str \in SUBSET LThreads,
           MembersM(ths, ts, tp, str), NEW t \in str
    PROVE  MembersM(ths, [ts EXCEPT ![t] = "free"], tp, str \ {t})
<1>1. PICK ts2 : ts2 = [ts EXCEPT ![t] = "free"]
  OBVIOUS
<1>2. ts2[t] = "free" /\ \A u \in LThreads : u # t => ts2[u] = ts[u]
  BY <1>1 DEF States
<1>3. \A o \in LProcs : \A u \in In(ths[o]) : u \in LThreads /\ u # t
  BY InThreads DEF MembersM, ProcSeqs
<1>4. MembersM(ths, ts2, tp, str \ {t})
  BY <1>2, <1>3 DEF MembersM
<1> QED BY <1>1, <1>4

LEMMA CloseRings ==
    ASSUME NEW ths \in ProcSeqs, NEW ts \in States, NEW tp, NEW str, MembersM(ths, ts, tp, str),
           NEW m \in Mem, RingsM(m, ths, ts), NEW p \in LProcs, NEW t \in In(ths[p])
    PROVE  RingsM(list_del_linked(m, PT(t)), [ths EXCEPT ![p] = Without(@, t)], [ts EXCEPT ![t] = "free"])
<1>1. PICK s \in Seq(LThreads) : s = ths[p]
  BY DEF ProcSeqs
<1>2. Inj(s) /\ t \in In(s) /\ Ring(m, TH(p), s, "process_threads") /\ t \in LThreads
  BY <1>1, InThreads DEF MembersM, RingsM
<1>3. PICK h, kind : h = TH(p) /\ kind = "process_threads"
  OBVIOUS
<1>4. PICK r : r = list_del_linked(m, N(kind, t))
  OBVIOUS
<1>5. Heads(h, kind) /\ Ring(m, h, s, kind)
  BY <1>2, <1>3, HeadsOf
<1>6. PICK s2 : s2 = Without(s, t)
  OBVIOUS
<1>7. /\ r \in Mem /\ Circle(r, h, s2, kind) /\ s2 \in Seq(LThreads)
      /\ In(s2) = In(s) \ {t} /\ r[N(kind, t)] = Zeroed
      /\ Kept(m, r, h, In(s), kind)
  <2>1. /\ r \in Mem /\ Circle(r, h, Without(s, t), kind) /\ Without(s, t) \in Seq(LThreads)
        /\ Inj(Without(s, t)) /\ In(Without(s, t)) = In(s) \ {t}
        /\ r[N(kind, t)] = Zeroed
        /\ Kept(m, r, h, In(s), kind)
    BY <1>2, <1>4, <1>5, DelRing
  <2> QED BY <1>6, <2>1
<1>8. PICK w, ts2 : w = [ths EXCEPT ![p] = Without(@, t)] /\ ts2 = [ts EXCEPT ![t] = "free"]
  OBVIOUS
<1>9. w[p] = s2 /\ \A o \in LProcs : o # p => w[o] = ths[o]
  BY <1>1, <1>6, <1>8 DEF ProcSeqs
<1>10. ts2[t] = "free" /\ \A u \in LThreads : u # t => ts2[u] = ts[u]
  BY <1>2, <1>8 DEF States
<1>11. ASSUME NEW o \in LProcs PROVE Ring(r, TH(o), w[o], "process_threads")
  <2>1. CASE o = p
    BY <1>3, <1>7, <1>9, <2>1 DEF Ring
  <2>2. CASE o # p
    <3>1. \A u \in In(ths[o]) : u # t
      BY <2>2 DEF MembersM
    <3>2. In(s) = In(ths[p]) \cup {t}
      BY <1>1, <1>2
    <3>3. Kept(m, r, TH(p), In(ths[p]) \cup {t}, "process_threads")
      BY <1>3, <1>7, <3>2
    <3>4. Ring(r, TH(o), ths[o], "process_threads")
      BY <1>2, <2>2, <3>1, <3>3, OtherRings
    <3> QED BY <1>9, <2>2, <3>4
  <2> QED BY <2>1, <2>2
<1>12. ASSUME NEW u \in LThreads PROVE r[PT(u)] = Zeroed <=> ts2[u] = "free"
  <2>1. PT(u) = N(kind, u)
    BY <1>3, NodeFacts
  <2>2. CASE u = t
    BY <1>7, <1>10, <2>1, <2>2
  <2>3. CASE u \in In(s2)
    <3>1. r[PT(u)] # Zeroed
      BY <1>5, <1>7, <2>1, <2>3, CircleLinked
    <3>2. ts2[u] # "free"
      BY <1>1, <1>7, <1>10, <2>3 DEF MembersM
    <3> QED BY <3>1, <3>2
  <2>4. CASE u # t /\ u \notin In(s2)
    <3>1. PICK set \in SUBSET LThreads : set = In(s)
      BY InThreads
    <3>2. Kept(m, r, TH(p), set, "process_threads") /\ u \notin set
      BY <1>3, <1>7, <2>4, <3>1
    <3>3. r[PT(u)] = m[PT(u)]
      BY <3>2, KeptThread
    <3>4. ts2[u] = ts[u]
      BY <1>10, <2>4
    <3> QED BY <3>3, <3>4 DEF RingsM
  <2> QED BY <2>2, <2>3, <2>4
<1>13. RingsM(r, w, ts2)
  BY <1>11, <1>12 DEF RingsM
<1>14. PT(t) = N(kind, t)
  BY <1>2, <1>3, NodeFacts
<1> QED BY <1>4, <1>8, <1>13, <1>14

-----------------------------------------------------------------------------
(* The actions. *)

LEMMA CreateStep ==
    ASSUME NEW m \in Mem, ApartM(m), NEW q, QueueM(m, q), NEW t \in LThreads, t \notin In(q),
           NEW p \in LProcs, NEW r, r = create_lists(m, t, p)
    PROVE  /\ r \in Mem /\ ApartM(r) /\ QueueM(r, Append(q, t)) /\ In(Append(q, t)) = In(q) \cup {t}
           /\ \A x \in PNodes : r[x] = list_add(m, PT(t), TH(p))[x]
<1>1. PICK a : a = list_add(m, PT(t), TH(p))
  OBVIOUS
<1>2. a \in Mem /\ ApartM(a) /\ \A x \in LNodes \ PNodes : a[x] = m[x]
  BY <1>1, ProcessAdd DEF Loose
<1>3. QueueM(a, q)
  BY <1>2, QueueAlone
<1>4. r = list_add_tail(a, Q(t), READY)
  BY <1>1 DEF create_lists
<1>5. /\ r \in Mem /\ QueueM(r, Append(q, t)) /\ In(Append(q, t)) = In(q) \cup {t}
      /\ \A x \in PNodes : r[x] = a[x]
  BY <1>2, <1>3, <1>4, QueueThread
<1>6. ApartM(r)
  BY <1>2, <1>5 DEF ApartM
<1> QED BY <1>1, <1>5, <1>6

LEMMA ApartAlone ==
    ASSUME NEW m, NEW r, ApartM(m), \A x \in PNodes : r[x] = m[x]
    PROVE  ApartM(r)
BY DEF ApartM

LEMMA FreeNotQueued ==
    ASSUME KInv
    PROVE  /\ \A t \in LThreads : tst[t] # "ready" => t \notin In(qseq)
           /\ tcur \notin In(qseq)
           /\ \A t \in LThreads : tst[t] = "free" => tcur # t
<1>1. In(qseq) \in SUBSET LThreads
  BY InThreads DEF KInv, KTyped
<1>2. tcur \notin In(qseq)
  BY <1>1, ListsAssumption DEF KInv, KTyped, Current
<1>3. \A t \in LThreads : tst[t] # "ready" => t \notin In(qseq)
  BY DEF KInv, Queue
<1>4. \A t \in LThreads : tst[t] = "free" => tcur # t
  BY ListsAssumption DEF KInv, Current
<1> QED BY <1>2, <1>3, <1>4

LEMMA YieldKInv == KInv /\ ListsYield => KInv'
<1> SUFFICES ASSUME KInv, ListsYield PROVE KInv'
  OBVIOUS
<1>1. /\ link \in Mem /\ QueueM(link, qseq) /\ schedule_lists(link, qseq, tst)
      /\ tcur \in LThreads \cup {0} /\ tcur \notin In(qseq)
  BY FreeNotQueued DEF ListsYield, KInv, KTyped, Queue
<1>2. /\ link' \in Mem /\ QueueM(link', qseq')
      /\ tcur' \in LThreads /\ tcur' \in In(qseq) \cup Back(tst)
      /\ In(qseq') = (In(qseq) \cup Back(tst)) \ {tcur'}
      /\ shell' = FALSE
      /\ \A x \in PNodes : link'[x] = link[x]
  BY <1>1, ScheduleStep
<1>3. UNCHANGED <<tst, tproc, thseq, strays, dirty>>
  BY DEF ListsYield
<1>4. \A t \in In(qseq) \cup Back(tst) : tst[t] = "ready"
  BY DEF Back, KInv, Queue
<1>5. KTyped'
  BY <1>2, <1>3 DEF KInv, KTyped, QueueM
<1>6. Apart'
  BY <1>2, ApartAlone DEF KInv, Apart
<1>7. Current' /\ Queue'
  BY <1>2, <1>3, <1>4 DEF Current, Queue
<1>8. Members'
  BY <1>3 DEF KInv, Members
<1>9. Rings'
  BY <1>2, <1>3, RingsAlone DEF KInv, KTyped, Rings, ProcSeqs
<1> QED BY <1>5, <1>6, <1>7, <1>8, <1>9 DEF KInv

LEMMA ThrdExitKInv == KInv /\ ListsThrdExit => KInv'
<1> SUFFICES ASSUME KInv, ListsThrdExit PROVE KInv'
  OBVIOUS
<1>0. tcur \in LThreads /\ tcur # 0 /\ tst[tcur] = "ready" /\ tst' = [tst EXCEPT ![tcur] = "exited"] /\ tst \in States
  BY ListsAssumption DEF ListsThrdExit, KInv, KTyped, Current
<1>1. /\ link \in Mem /\ QueueM(link, qseq) /\ schedule_lists(link, qseq, tst')
      /\ tcur \in LThreads \cup {0} /\ tcur \notin In(qseq)
  BY FreeNotQueued DEF ListsThrdExit, KInv, KTyped, Queue
<1>2. /\ link' \in Mem /\ QueueM(link', qseq')
      /\ tcur' \in LThreads /\ tcur' \in In(qseq) \cup Back(tst')
      /\ In(qseq') = (In(qseq) \cup Back(tst')) \ {tcur'}
      /\ shell' = FALSE
      /\ \A x \in PNodes : link'[x] = link[x]
  <2>1. PICK ts : ts = tst'
    OBVIOUS
  <2>2. schedule_lists(link, qseq, ts)
    BY <1>1, <2>1
  <2> QED BY <1>1, <2>1, <2>2, ScheduleStep
<1>3. UNCHANGED <<tproc, thseq, strays, dirty>>
  BY DEF ListsThrdExit
<1>4. tst' \in States /\ tst'[tcur] = "exited" /\ \A u \in LThreads : u # tcur => tst'[u] = tst[u]
  BY <1>0 DEF States
<1>5. Back(tst') = {}
  BY <1>4 DEF Back
<1>6. In(qseq) \in SUBSET LThreads
  BY InThreads DEF KInv, KTyped
<1>7. \A t \in In(qseq) : tst'[t] = "ready"
  BY <1>1, <1>4, <1>6 DEF KInv, Queue
<1>8. \A u \in LThreads : tst'[u] = "free" <=> tst[u] = "free"
  BY <1>0, <1>4
<1>9. KTyped'
  BY <1>2, <1>3, <1>4 DEF KInv, KTyped, QueueM
<1>10. Apart'
  BY <1>2, ApartAlone DEF KInv, Apart
<1>11. Current' /\ Queue'
  BY <1>2, <1>5, <1>7 DEF Current, Queue
<1>12. Members'
  <2>1. \A p \in LProcs : In(thseq[p]) \in SUBSET LThreads
    BY InThreads DEF KInv, KTyped, ProcSeqs
  <2>2. strays \in SUBSET LThreads
    BY DEF KInv, KTyped
  <2>3. MembersM(thseq, tst', tproc, strays)
    BY <1>8, <2>1, <2>2 DEF KInv, Members, MembersM
  <2> QED BY <1>3, <2>3 DEF Members
<1>13. Rings'
  <2> SUFFICES ASSUME ~dirty PROVE RingsM(link', thseq, tst')
    BY <1>3 DEF Rings
  <2>1. RingsM(link', thseq, tst)
    BY <1>2, RingsAlone DEF KInv, KTyped, Rings, ProcSeqs
  <2> QED BY <1>8, <2>1 DEF RingsM
<1> QED BY <1>9, <1>10, <1>11, <1>12, <1>13 DEF KInv

LEMMA CreateKInv == KInv /\ ListsCreate => KInv'
<1> SUFFICES ASSUME KInv, ListsCreate PROVE KInv'
  OBVIOUS
<1>1. PICK p : p = tproc[tcur]
  OBVIOUS
<1>2. PICK t \in LThreads : /\ Create(t, p)
                            /\ link' = create_lists(link, t, p)
                            /\ qseq' = Append(qseq, t)
                            /\ thseq' = [thseq EXCEPT ![p] = <<t>> \o @]
  BY <1>1 DEF ListsCreate
<1>3. UNCHANGED <<tcur, shell, strays, dirty>> /\ ~shell
  BY DEF ListsCreate
<1>4. tst[t] = "free" /\ tst' = [tst EXCEPT ![t] = "ready"] /\ tproc' = [tproc EXCEPT ![t] = p]
  BY <1>2 DEF Create
<1>5. tcur \in LThreads /\ tst[tcur] = "ready" /\ p \in LProcs /\ tcur # t /\ t \notin In(qseq)
  BY <1>1, <1>3, <1>4, FreeNotQueued DEF KInv, Current, Members, MembersM
<1>6. /\ link' \in Mem /\ ApartM(link') /\ QueueM(link', qseq') /\ In(qseq') = In(qseq) \cup {t}
      /\ \A x \in PNodes : link'[x] = list_add(link, PT(t), TH(p))[x]
  <2>1. PICK r : r = create_lists(link, t, p)
    OBVIOUS
  <2>2. /\ r \in Mem /\ ApartM(r) /\ QueueM(r, Append(qseq, t)) /\ In(Append(qseq, t)) = In(qseq) \cup {t}
        /\ \A x \in PNodes : r[x] = list_add(link, PT(t), TH(p))[x]
    BY <1>5, <2>1, CreateStep DEF KInv, KTyped, Apart, Queue
  <2> QED BY <1>2, <2>1, <2>2
<1>7. /\ MembersM(thseq', tst', tproc', strays)
      /\ thseq' \in ProcSeqs /\ tst' \in States /\ tproc' \in Owners
  BY <1>2, <1>4, <1>5, AddMembers DEF KInv, KTyped, Members
<1>8. tst'[t] = "ready" /\ \A u \in LThreads : u # t => tst'[u] = tst[u]
  BY <1>4 DEF KInv, KTyped, States
<1>9. In(qseq) \in SUBSET LThreads
  BY InThreads DEF KInv, KTyped
<1>10. KTyped'
  BY <1>3, <1>6, <1>7 DEF KInv, KTyped, QueueM
<1>11. Current'
  BY <1>3, <1>5, <1>6, <1>8, FreeNotQueued DEF Current
<1>12. Queue'
  BY <1>6, <1>8, <1>9 DEF KInv, Queue
<1>13. Rings'
  <2> SUFFICES ASSUME ~dirty PROVE RingsM(link', thseq', tst')
    BY <1>3 DEF Rings
  <2>1. RingsM(link, thseq, tst)
    BY DEF KInv, Rings
  <2>2. RingsM(list_add(link, PT(t), TH(p)), thseq', tst')
    BY <1>2, <1>4, <1>5, <2>1, AddRings DEF KInv, KTyped, Members
  <2> QED BY <1>6, <1>7, <2>2, RingsAlone DEF ProcSeqs
<1> QED BY <1>3, <1>6, <1>7, <1>10, <1>11, <1>12, <1>13 DEF KInv, Apart, Members

LEMMA StartKInv == KInv /\ ListsStart => KInv'
<1> SUFFICES ASSUME KInv, ListsStart PROVE KInv'
  OBVIOUS
<1>1. PICK p \in LProcs, t \in LThreads :
        /\ Create(t, p)
        /\ thseq' = [thseq EXCEPT ![p] = <<t>>]
        /\ strays' = strays \cup In(thseq[p])
        /\ schedule_lists(create_lists([link EXCEPT ![TH(p)] = Zeroed], t, p), Append(qseq, t), tst')
  BY DEF ListsStart
<1>2. dirty' = dirty
  BY DEF ListsStart
<1>3. tst[t] = "free" /\ tst' = [tst EXCEPT ![t] = "ready"] /\ tproc' = [tproc EXCEPT ![t] = p]
  BY <1>1 DEF Create
<1>4. PICK m0 : m0 = [link EXCEPT ![TH(p)] = Zeroed]
  OBVIOUS
<1>5. PICK th0 : th0 = [thseq EXCEPT ![p] = <<>>]
  OBVIOUS
<1>6. Loose(link, m0)
  BY <1>4, ProcessCleared DEF KInv, KTyped, Apart
<1>7. m0 \in Mem /\ ApartM(m0) /\ QueueM(m0, qseq)
  BY <1>6, QueueAlone DEF Loose, KInv, Queue
<1>8. PICK str : str = strays'
  OBVIOUS
<1>9. MembersM(th0, tst, tproc, str) /\ th0 \in ProcSeqs /\ str \in SUBSET LThreads
  BY <1>1, <1>5, <1>8, ClearMembers DEF KInv, KTyped, Members
<1>10. thseq' = [th0 EXCEPT ![p] = <<t>> \o @]
  <2>1. <<t>> \o <<>> = <<t>>
    OBVIOUS
  <2>2. th0[p] = <<>>
    BY <1>5 DEF KInv, KTyped, ProcSeqs
  <2> QED BY <1>1, <1>5, <2>1, <2>2 DEF KInv, KTyped, ProcSeqs
<1>11. /\ MembersM(thseq', tst', tproc', str)
       /\ thseq' \in ProcSeqs /\ tst' \in States /\ tproc' \in Owners
  BY <1>3, <1>9, <1>10, AddMembers DEF KInv, KTyped
<1>12. tst'[t] = "ready" /\ \A u \in LThreads : u # t => tst'[u] = tst[u]
  BY <1>3 DEF KInv, KTyped, States
<1>13. t \notin In(qseq) /\ tcur \notin In(qseq) /\ tcur # t /\ tcur \in LThreads \cup {0}
  BY <1>3, FreeNotQueued DEF KInv, KTyped
<1>14. PICK r : r = create_lists(m0, t, p)
  OBVIOUS
<1>15. PICK q : q = Append(qseq, t)
  OBVIOUS
<1>16. /\ r \in Mem /\ ApartM(r) /\ QueueM(r, q) /\ In(q) = In(qseq) \cup {t}
       /\ \A x \in PNodes : r[x] = list_add(m0, PT(t), TH(p))[x]
  <2>1. /\ r \in Mem /\ ApartM(r) /\ QueueM(r, Append(qseq, t)) /\ In(Append(qseq, t)) = In(qseq) \cup {t}
        /\ \A x \in PNodes : r[x] = list_add(m0, PT(t), TH(p))[x]
    BY <1>7, <1>13, <1>14, CreateStep
  <2> QED BY <1>15, <2>1
<1>17. PICK ts : ts = tst'
  OBVIOUS
<1>18. schedule_lists(r, q, ts)
  BY <1>1, <1>4, <1>14, <1>15, <1>17
<1>19. /\ link' \in Mem /\ QueueM(link', qseq')
       /\ tcur' \in LThreads /\ tcur' \in In(q) \cup Back(ts)
       /\ In(qseq') = (In(q) \cup Back(ts)) \ {tcur'}
       /\ shell' = FALSE
       /\ \A x \in PNodes : link'[x] = r[x]
  BY <1>13, <1>16, <1>18, ScheduleStep
<1>20. In(qseq) \in SUBSET LThreads
  BY InThreads DEF KInv, KTyped
<1>21. \A u \in In(q) \cup Back(ts) : tst'[u] = "ready"
  <2>1. \A u \in In(q) : tst'[u] = "ready"
    BY <1>12, <1>13, <1>16, <1>20 DEF KInv, Queue
  <2>2. \A u \in Back(ts) : tst'[u] = "ready"
    BY <1>17 DEF Back
  <2> QED BY <2>1, <2>2
<1>22. KTyped'
  BY <1>2, <1>8, <1>9, <1>11, <1>19 DEF KInv, KTyped, QueueM
<1>23. Apart'
  BY <1>16, <1>19, ApartAlone DEF Apart
<1>24. Current' /\ Queue'
  BY <1>19, <1>21 DEF Current, Queue
<1>25. Members'
  BY <1>8, <1>11 DEF Members
<1>26. Rings'
  <2> SUFFICES ASSUME ~dirty PROVE RingsM(link', thseq', tst')
    BY <1>2 DEF Rings
  <2>1. RingsM(link, thseq, tst)
    BY DEF KInv, Rings
  <2>2. RingsM(m0, th0, tst)
    BY <1>4, <1>5, <2>1, ClearRings DEF KInv, KTyped, Apart
  <2>3. RingsM(list_add(m0, PT(t), TH(p)), thseq', tst')
    BY <1>3, <1>7, <1>9, <1>10, <2>2, AddRings DEF KInv, KTyped
  <2>4. \A x \in PNodes : link'[x] = list_add(m0, PT(t), TH(p))[x]
    BY <1>16, <1>19
  <2> QED BY <1>11, <2>3, <2>4, RingsAlone DEF ProcSeqs
<1> QED BY <1>22, <1>23, <1>24, <1>25, <1>26 DEF KInv

LEMMA StartFullKInv == KInv /\ ListsStartFull => KInv'
<1> SUFFICES ASSUME KInv, ListsStartFull PROVE KInv'
  OBVIOUS
<1>1. PICK p \in LProcs :
        /\ thseq' = [thseq EXCEPT ![p] = <<>>]
        /\ strays' = strays \cup In(thseq[p])
        /\ schedule_lists([link EXCEPT ![TH(p)] = Zeroed], qseq, tst)
  BY DEF ListsStartFull
<1>2. UNCHANGED <<tst, tproc, dirty>>
  BY DEF ListsStartFull
<1>3. PICK m0 : m0 = [link EXCEPT ![TH(p)] = Zeroed]
  OBVIOUS
<1>4. Loose(link, m0)
  BY <1>3, ProcessCleared DEF KInv, KTyped, Apart
<1>5. m0 \in Mem /\ ApartM(m0) /\ QueueM(m0, qseq)
  BY <1>4, QueueAlone DEF Loose, KInv, Queue
<1>6. PICK str, th0 : str = strays' /\ th0 = [thseq EXCEPT ![p] = <<>>]
  OBVIOUS
<1>7. MembersM(th0, tst, tproc, str) /\ th0 \in ProcSeqs /\ str \in SUBSET LThreads
  BY <1>1, <1>6, ClearMembers DEF KInv, KTyped, Members
<1>8. tcur \notin In(qseq) /\ tcur \in LThreads \cup {0}
  BY FreeNotQueued DEF KInv, KTyped
<1>9. schedule_lists(m0, qseq, tst)
  BY <1>1, <1>3
<1>10. /\ link' \in Mem /\ QueueM(link', qseq')
       /\ tcur' \in LThreads /\ tcur' \in In(qseq) \cup Back(tst)
       /\ In(qseq') = (In(qseq) \cup Back(tst)) \ {tcur'}
       /\ shell' = FALSE
       /\ \A x \in PNodes : link'[x] = m0[x]
  BY <1>5, <1>8, <1>9, ScheduleStep
<1>11. \A t \in In(qseq) \cup Back(tst) : tst[t] = "ready"
  BY DEF Back, KInv, Queue
<1>12. KTyped'
  BY <1>1, <1>2, <1>6, <1>7, <1>10 DEF KInv, KTyped, QueueM
<1>13. Apart'
  BY <1>5, <1>10, ApartAlone DEF Apart
<1>14. Current' /\ Queue'
  BY <1>2, <1>10, <1>11 DEF Current, Queue
<1>15. Members'
  BY <1>1, <1>2, <1>6, <1>7 DEF Members
<1>16. Rings'
  <2> SUFFICES ASSUME ~dirty PROVE RingsM(link', th0, tst)
    BY <1>1, <1>2, <1>6 DEF Rings
  <2>1. RingsM(link, thseq, tst)
    BY DEF KInv, Rings
  <2>2. RingsM(m0, th0, tst)
    BY <1>3, <1>6, <2>1, ClearRings DEF KInv, KTyped, Apart
  <2> QED BY <1>7, <1>10, <2>2, RingsAlone DEF ProcSeqs
<1> QED BY <1>12, <1>13, <1>14, <1>15, <1>16 DEF KInv

LEMMA JoinedKInv == KInv /\ ListsJoined => KInv'
<1> SUFFICES ASSUME KInv, ListsJoined PROVE KInv'
  OBVIOUS
<1>1. PICK t \in LThreads :
        /\ tst[t] = "exited"
        /\ link' = list_del_linked(list_del_linked(link, PT(t)), Q(t))
        /\ tst' = [tst EXCEPT ![t] = "free"]
        /\ thseq' = IF t \in strays THEN thseq
                    ELSE [thseq EXCEPT ![tproc[t]] = Without(@, t)]
        /\ strays' = strays \ {t}
        /\ dirty' = (dirty \/ t \in strays)
  BY DEF ListsJoined
<1>2. UNCHANGED <<tproc, tcur, shell, qseq>> /\ ~shell
  BY DEF ListsJoined
<1>3. PICK r : r = list_del_linked(link, PT(t))
  OBVIOUS
<1>4. r \in Mem /\ ApartM(r) /\ \A x \in LNodes \ PNodes : r[x] = link[x]
  BY <1>3, ProcessDel DEF Loose, KInv, KTyped, Apart
<1>5. t \notin In(qseq) /\ tcur # t
  <2>1. tst[t] # "ready"
    BY <1>1
  <2> QED BY <1>2, <2>1, FreeNotQueued DEF KInv, Current
<1>6. QueueM(r, qseq)
  BY <1>4, QueueAlone DEF KInv, Queue
<1>7. link' = r
  <2>1. r[Q(t)] = Zeroed
    BY <1>5, <1>6 DEF QueueM
  <2> QED BY <1>1, <1>3, <2>1 DEF list_del_linked, Zeroed
<1>8. tst' \in States /\ tst'[t] = "free" /\ \A u \in LThreads : u # t => tst'[u] = tst[u]
  BY <1>1 DEF KInv, KTyped, States
<1>9. In(qseq) \in SUBSET LThreads
  BY InThreads DEF KInv, KTyped
<1>10. Current'
  BY <1>2, <1>5, <1>8 DEF KInv, KTyped, Current
<1>11. Queue'
  BY <1>2, <1>5, <1>6, <1>7, <1>8, <1>9 DEF KInv, Queue
<1>12. Apart'
  BY <1>4, <1>7 DEF Apart
<1>13. thseq' \in ProcSeqs /\ Members' /\ Rings'
  <2>1. CASE t \in strays
    <3>1. thseq' = thseq /\ dirty'
      BY <1>1, <2>1
    <3>2. MembersM(thseq, [tst EXCEPT ![t] = "free"], tproc, strays \ {t})
      BY <2>1, CloseStray DEF KInv, KTyped, Members
    <3> QED BY <1>1, <1>2, <3>1, <3>2 DEF KInv, KTyped, Members, Rings
  <2>2. CASE t \notin strays
    <3>1. PICK p : p = tproc[t]
      OBVIOUS
    <3>3. tst[t] # "free"
      BY <1>1
    <3>4. /\ p \in LProcs /\ t \in In(thseq[p])
          /\ MembersM([thseq EXCEPT ![p] = Without(@, t)], [tst EXCEPT ![t] = "free"], tproc, strays \ {t})
          /\ [thseq EXCEPT ![p] = Without(@, t)] \in ProcSeqs
      BY <2>2, <3>1, <3>3, CloseMembers DEF KInv, KTyped, Members
    <3>5. thseq' = [thseq EXCEPT ![p] = Without(@, t)]
      BY <1>1, <2>2, <3>1
    <3>6. Rings'
      <4> SUFFICES ASSUME ~dirty PROVE RingsM(r, thseq', tst')
        BY <1>1, <1>7, <2>2 DEF Rings
      <4>1. RingsM(link, thseq, tst)
        BY DEF KInv, Rings
      <4>2. RingsM(list_del_linked(link, PT(t)), [thseq EXCEPT ![p] = Without(@, t)],
                   [tst EXCEPT ![t] = "free"])
        <5>1. thseq \in ProcSeqs /\ tst \in States /\ link \in Mem /\ MembersM(thseq, tst, tproc, strays)
          BY DEF KInv, KTyped, Members
        <5>2. p \in LProcs /\ t \in In(thseq[p])
          BY <3>4
        <5> QED BY <4>1, <5>1, <5>2, CloseRings
      <4> QED BY <1>1, <1>3, <3>5, <4>2
    <3> QED BY <1>1, <1>2, <3>4, <3>5, <3>6 DEF Members
  <2> QED BY <2>1, <2>2
<1>14. dirty' \in BOOLEAN /\ strays' \in SUBSET LThreads
  BY <1>1 DEF KInv, KTyped
<1>15. KTyped'
  BY <1>2, <1>4, <1>7, <1>8, <1>13, <1>14 DEF KInv, KTyped
<1> QED BY <1>10, <1>11, <1>12, <1>13, <1>15 DEF KInv

LEMMA ClearKInv ==
    KInv /\ process_clear /\ (tst' = [tst EXCEPT ![tcur] = "exited"] \/ tst' = tst) => KInv'
<1> SUFFICES ASSUME KInv, process_clear, tst' = [tst EXCEPT ![tcur] = "exited"] \/ tst' = tst
             PROVE  KInv'
  OBVIOUS
<1>1. PICK p : p = tproc[tcur]
  OBVIOUS
<1>2. /\ ~shell /\ shell' = TRUE
      /\ link' = [link EXCEPT ![TH(p)] = Zeroed]
      /\ thseq' = [thseq EXCEPT ![p] = <<>>]
      /\ strays' = strays \cup In(thseq[p])
      /\ UNCHANGED <<tproc, tcur, qseq, dirty>>
  BY <1>1 DEF process_clear
<1>3. tcur \in LThreads /\ tst[tcur] = "ready" /\ p \in LProcs
  BY <1>1, <1>2 DEF KInv, Current, Members, MembersM
<1>4. /\ tst' \in States /\ \A u \in LThreads : tst'[u] = "free" <=> tst[u] = "free"
      /\ \A u \in LThreads : u # tcur => tst'[u] = tst[u]
  BY <1>3 DEF KInv, KTyped, States
<1>5. link' \in Mem /\ ApartM(link') /\ QueueM(link', qseq)
  <2>1. Loose(link, link')
    BY <1>2, <1>3, ProcessCleared DEF KInv, KTyped, Apart
  <2> QED BY <2>1, QueueAlone DEF Loose, KInv, Queue
<1>6. MembersM(thseq', tst, tproc, strays') /\ thseq' \in ProcSeqs /\ strays' \in SUBSET LThreads
  BY <1>2, <1>3, ClearMembers DEF KInv, KTyped, Members
<1>7. In(qseq) \in SUBSET LThreads /\ tcur \notin In(qseq)
  BY InThreads, FreeNotQueued DEF KInv, KTyped
<1>8. KTyped'
  BY <1>2, <1>4, <1>5, <1>6 DEF KInv, KTyped
<1>9. Current'
  BY <1>2, <1>3, <1>4, <1>7 DEF Current
<1>10. Queue'
  BY <1>2, <1>4, <1>5, <1>7 DEF KInv, Queue
<1>11. Members'
  <2>1. \A o \in LProcs : In(thseq'[o]) \in SUBSET LThreads
    BY <1>6, InThreads DEF ProcSeqs
  <2>2. PICK w, str, ts : w = thseq' /\ str = strays' /\ ts = tst'
    OBVIOUS
  <2>3. MembersM(w, ts, tproc, str)
    BY <1>4, <1>6, <2>1, <2>2 DEF MembersM
  <2> QED BY <1>2, <2>2, <2>3 DEF Members
<1>12. Rings'
  <2> SUFFICES ASSUME ~dirty PROVE RingsM(link', thseq', tst')
    BY <1>2 DEF Rings
  <2>1. RingsM(link, thseq, tst)
    BY DEF KInv, Rings
  <2>2. RingsM([link EXCEPT ![TH(p)] = Zeroed], [thseq EXCEPT ![p] = <<>>], tst)
    BY <1>3, <2>1, ClearRings DEF KInv, KTyped, Apart
  <2>3. RingsM(link', thseq', tst)
    BY <1>2, <2>2
  <2> QED BY <1>4, <2>3 DEF RingsM
<1> QED BY <1>5, <1>8, <1>9, <1>10, <1>11, <1>12 DEF KInv, Apart

LEMMA SkipKInv == KInv /\ ListsSkip => KInv'
<1> SUFFICES ASSUME KInv, ListsSkip PROVE KInv'
  OBVIOUS
<1>1. /\ Len(qseq) > 1 /\ link' = list_rotate_left(link, READY)
      /\ qseq' = Append(Tail(qseq), Head(qseq))
      /\ UNCHANGED <<tst, tproc, tcur, shell, thseq, strays, dirty>>
  BY DEF ListsSkip
<1>2. PICK s \in Seq(LThreads) : s = qseq
  BY DEF KInv, KTyped
<1>3. PICK r : r = list_rotate_left(link, READY)
  OBVIOUS
<1>4. Inj(s) /\ link \in Mem /\ Ring(link, READY, s, "queue") /\ Len(s) > 1 /\ s # <<>>
  BY <1>1, <1>2 DEF KInv, KTyped, Queue, QueueM
<1>5. Circle(link, READY, s, "queue") /\ Heads(READY, "queue")
  BY <1>4, RingCircle, HeadsOf
<1>6. PICK s2 : s2 = Append(Tail(s), Head(s))
  OBVIOUS
<1>7. /\ r \in Mem /\ Circle(r, READY, s2, "queue")
      /\ \A x \in LNodes : x # READY /\ (\A u \in In(s) : x # N("queue", u)) => r[x] = link[x]
  <2>1. PICK h, kind : h = READY /\ kind = "queue"
    OBVIOUS
  <2>2. Heads(h, kind) /\ Circle(link, h, s, kind) /\ r = list_rotate_left(link, h)
    BY <1>3, <1>5, <2>1
  <2>3. /\ r \in Mem /\ Circle(r, h, Append(Tail(s), Head(s)), kind)
        /\ \A x \in LNodes : x # h /\ (\A u \in In(s) : x # N(kind, u)) => r[x] = link[x]
    BY <1>4, <2>2, RotateCircle
  <2> QED BY <1>6, <2>1, <2>3
<1>8. Inj(s2) /\ In(s2) = In(s) /\ s2 \in Seq(LThreads)
  <2>1. PICK a, e : a = Tail(s) /\ e = Head(s)
    OBVIOUS
  <2>2. Removed(s, 1, a) /\ a \in Seq(LThreads) /\ 1 \in 1 .. Len(s) /\ e = s[1] /\ e \in LThreads /\ e \in In(s)
    BY <1>4, <2>1, TailRemoves DEF In
  <2>3. Inj(a) /\ In(a) = In(s) \ {s[1]}
    BY <1>4, <2>2, RemovedFacts
  <2>4. Inserted(a, Len(a), e, s2) /\ s2 \in Seq(LThreads) /\ Len(a) \in 0 .. Len(a) /\ e \notin In(a)
    <3>1. s2 = Append(a, e) /\ e \notin In(a)
      BY <1>6, <2>1, <2>2, <2>3
    <3>2. Inserted(a, Len(a), e, Append(a, e)) /\ Append(a, e) \in Seq(LThreads)
      BY <2>2, AppendInserts
    <3>3. Len(a) \in 0 .. Len(a)
      BY <2>2
    <3> QED BY <3>1, <3>2, <3>3
  <2>5. Inj(s2) /\ In(s2) = In(a) \cup {e}
    BY <2>2, <2>3, <2>4, InsertedFacts
  <2> QED BY <2>2, <2>3, <2>4, <2>5
<1>9. In(s) \in SUBSET LThreads
  BY InThreads
<1>10. Kept(link, r, READY, In(s), "queue")
  BY <1>7 DEF Kept
<1>11. /\ \A x \in PNodes : r[x] = link[x]
       /\ \A t \in LThreads : t \notin In(s) => r[Q(t)] = link[Q(t)]
  BY <1>9, <1>10, KeptQueue
<1>12. qseq' = s2 /\ link' = r
  BY <1>1, <1>2, <1>3, <1>6
<1>13. QueueM(r, s2)
  BY <1>2, <1>7, <1>8, <1>11 DEF QueueM, Ring, KInv, Queue
<1>14. KTyped'
  BY <1>1, <1>7, <1>8, <1>12 DEF KInv, KTyped
<1>15. Apart'
  BY <1>11, <1>12, ApartAlone DEF KInv, Apart
<1>16. Current' /\ Queue'
  BY <1>1, <1>2, <1>8, <1>12, <1>13 DEF KInv, Current, Queue
<1>17. Members'
  BY <1>1 DEF KInv, Members
<1>18. Rings'
  BY <1>1, <1>11, <1>12, RingsAlone DEF KInv, KTyped, Rings, ProcSeqs
<1> QED BY <1>14, <1>15, <1>16, <1>17, <1>18 DEF KInv

LEMMA InitKInv == ListsInit => KInv
<1> SUFFICES ASSUME ListsInit PROVE KInv
  OBVIOUS
<1>1. link \in Mem /\ \A n \in LNodes : link[n] = Zeroed
  BY DEF ListsInit, Mem, Ptr, Zeroed
<1>2. Apart
  BY <1>1, NodeFacts DEF Apart, ApartM, Zeroed
<1>3. KTyped
  BY <1>1, EmptyIn DEF ListsInit, KTyped, States, Owners, ProcSeqs
<1>4. qseq = <<>> /\ (\A p \in LProcs : thseq[p] = <<>>) /\ \A t \in LThreads : tst[t] = "free"
  BY DEF ListsInit
<1>5. Queue
  BY <1>1, <1>4, EmptyIn, NodeFacts DEF Queue, QueueM, Ring
<1>6. Members
  BY <1>4, EmptyIn DEF ListsInit, Members, MembersM
<1>7. Rings
  BY <1>1, <1>4, NodeFacts DEF Rings, RingsM, Ring
<1>8. Current
  BY DEF ListsInit, Current
<1> QED BY <1>2, <1>3, <1>5, <1>6, <1>7, <1>8 DEF KInv

LEMMA NextKInv == KInv /\ [ListsNext]_lists => KInv'
<1> SUFFICES ASSUME KInv, [ListsNext]_lists PROVE KInv'
  OBVIOUS
<1>1. CASE ListsStart
  BY <1>1, StartKInv
<1>10. CASE ListsStartFull
  BY <1>10, StartFullKInv
<1>2. CASE ListsCreate
  BY <1>2, CreateKInv
<1>3. CASE ListsYield
  BY <1>3, YieldKInv
<1>4. CASE ListsThrdExit
  BY <1>4, ThrdExitKInv
<1>5. CASE ListsJoined
  BY <1>5, JoinedKInv
<1>6. CASE ListsProcessExit
  BY <1>6, ClearKInv DEF ListsProcessExit
<1>7. CASE ListsKill
  BY <1>7, ClearKInv DEF ListsKill
<1>8. CASE ListsSkip
  BY <1>8, SkipKInv
<1>9. CASE UNCHANGED lists
  BY <1>9 DEF lists, KInv, KTyped, Apart, Current, Queue, Members, Rings
<1> QED BY <1>1, <1>2, <1>3, <1>4, <1>5, <1>6, <1>7, <1>8, <1>9, <1>10 DEF ListsNext

(***************************************************************************)
(* The links stay rings through every call of the kernel: the ready queue  *)
(* always, the list of a process until a thread that outlived an earlier   *)
(* use of the entry is closed; and even then no pointer of a process's     *)
(* list reaches the ready queue (list.h, scheduler.c, process.c:31-60).    *)
(***************************************************************************)
THEOREM ListsInductive == LSpec => []KInv
BY InitKInv, NextKInv, PTL DEF LSpec

-----------------------------------------------------------------------------
(* What a cursor passes.  The recursive function of Passed exists by        *)
(* induction, and agrees with the circle by induction.                     *)

LEMMA NatLeast ==
    ASSUME NEW T \in SUBSET Nat, T # {}
    PROVE  \E x \in T : \A y \in T : x <= y
<1> DEFINE R == OpToRel(<, Nat)
<1>1. IsWellFoundedOn(R, Nat)
  BY NatLessThanWellFounded
<1>2. PICK x \in T : \A y \in T : ~ (<<y, x>> \in R)
  <2> HIDE DEF R
  <2> QED BY <1>1, WFMin
<1>3. \A y \in T : ~(y < x)
  BY <1>2 DEF OpToRel
<1> QED BY <1>3

\* The induction principle for a set of numbers.
LEMMA NatSet ==
    ASSUME NEW T \in SUBSET Nat, 0 \in T, \A n \in T : n + 1 \in T
    PROVE  T = Nat
<1> SUFFICES ASSUME T # Nat PROVE FALSE
  OBVIOUS
<1>1. PICK x \in Nat \ T : \A y \in Nat \ T : x <= y
  BY NatLeast
<1>2. x # 0 /\ x - 1 \in Nat /\ x - 1 \in T
  BY <1>1
<1> QED BY <1>1, <1>2

\* Where the cursor goes from node x, and a walk of m steps from the head.
Onward(step, x) == IF x = NULLP THEN NULLP ELSE step[x]
IsWalk(g, step, head, m) ==
    g = [k \in 0 .. m |-> IF k = 0 THEN head
                          ELSE IF g[k - 1] = NULLP THEN NULLP
                          ELSE step[g[k - 1]]]

Steps(g, step, head, m) ==
    /\ g = [k \in 0 .. m |-> g[k]]
    /\ g[0] = head /\ \A k \in 1 .. m : g[k] = Onward(step, g[k - 1])

LEMMA WalkSteps ==
    ASSUME NEW step, NEW head, NEW m \in Nat, NEW g
    PROVE  IsWalk(g, step, head, m) <=> Steps(g, step, head, m)
<1>1. ASSUME IsWalk(g, step, head, m)
      PROVE  /\ g = [k \in 0 .. m |-> g[k]]
             /\ g[0] = head /\ \A k \in 1 .. m : g[k] = Onward(step, g[k - 1])
  <2>1. \A k \in 0 .. m : g[k] = IF k = 0 THEN head ELSE Onward(step, g[k - 1])
    BY <1>1 DEF IsWalk, Onward
  <2>2. g = [k \in 0 .. m |-> g[k]]
    BY <1>1 DEF IsWalk
  <2>3. g[0] = head
    BY <2>1
  <2>4. \A k \in 1 .. m : k \in 0 .. m /\ k # 0
    OBVIOUS
  <2>5. \A k \in 1 .. m : g[k] = Onward(step, g[k - 1])
    BY <2>1, <2>4
  <2> QED BY <2>2, <2>3, <2>5
<1>2. ASSUME g = [k \in 0 .. m |-> g[k]], g[0] = head,
             \A k \in 1 .. m : g[k] = Onward(step, g[k - 1])
      PROVE  IsWalk(g, step, head, m)
  <2>1. ASSUME NEW k \in 0 .. m
        PROVE  g[k] = IF k = 0 THEN head
                      ELSE IF g[k - 1] = NULLP THEN NULLP ELSE step[g[k - 1]]
    <3>1. CASE k = 0
      BY <1>2, <3>1
    <3>2. CASE k # 0
      <4>1. k \in 1 .. m
        BY <3>2
      <4>2. g[k] = Onward(step, g[k - 1])
        BY <1>2, <4>1
      <4> QED BY <3>2, <4>2 DEF Onward
    <3> QED BY <3>1, <3>2
  <2> QED BY <1>2, <2>1 DEF IsWalk
<1> QED BY <1>1, <1>2 DEF Steps

LEMMA WalkExists ==
    ASSUME NEW step, NEW head, NEW m \in Nat
    PROVE  \E g : IsWalk(g, step, head, m)
<1> DEFINE T == {n \in Nat : \E g : IsWalk(g, step, head, n)}
<1>1. 0 \in T
  <2>1. PICK g : g = [k \in 0 .. 0 |-> head]
    OBVIOUS
  <2>2. IsWalk(g, step, head, 0)
    <3>1. g = [k \in 0 .. 0 |-> g[k]] /\ g[0] = head /\ 1 .. 0 = {}
      BY <2>1
    <3>2. Steps(g, step, head, 0)
      BY <3>1 DEF Steps
    <3> QED BY <3>2, WalkSteps
  <2> QED BY <2>2
<1>2. ASSUME NEW n \in T PROVE n + 1 \in T
  <2>1. PICK g : IsWalk(g, step, head, n)
    BY <1>2
  <2>2. n \in Nat /\ g[0] = head /\ \A k \in 1 .. n : g[k] = Onward(step, g[k - 1])
    BY <1>2, <2>1, WalkSteps DEF Steps
  <2>3. PICK e : e = Onward(step, g[n])
    OBVIOUS
  <2>4. PICK h : h = [k \in 0 .. n + 1 |-> IF k = n + 1 THEN e ELSE g[k]]
    OBVIOUS
  <2>5. h = [k \in 0 .. n + 1 |-> h[k]] /\ h[n + 1] = e /\ \A k \in 0 .. n : h[k] = g[k]
    BY <2>2, <2>4
  <2>6. ASSUME NEW k \in 1 .. n + 1 PROVE h[k] = Onward(step, h[k - 1])
    <3>1. CASE k = n + 1
      <4>1. k - 1 = n /\ n \in 0 .. n
        BY <2>2, <3>1
      <4> QED BY <2>3, <2>5, <3>1, <4>1
    <3>2. CASE k \in 1 .. n
      <4>1. k - 1 \in 0 .. n /\ k \in 0 .. n
        BY <2>2, <3>2
      <4> QED BY <2>2, <2>5, <3>2, <4>1
    <3> QED BY <2>2, <3>1, <3>2
  <2>7. h[0] = head /\ n + 1 \in Nat
    BY <2>2, <2>5
  <2>8. IsWalk(h, step, head, n + 1)
    <3>1. Steps(h, step, head, n + 1)
      BY <2>5, <2>6, <2>7 DEF Steps
    <3> QED BY <2>7, <3>1, WalkSteps
  <2> QED BY <2>7, <2>8
<1>3. T = Nat
  <2> HIDE DEF T
  <2>1. T \subseteq Nat
    BY DEF T
  <2> QED BY <1>1, <1>2, <2>1, NatSet
<1> QED BY <1>3

\* The cursor follows the places c until it is back, or at a NULL.
Route(step, head, n, c) ==
    /\ c[0] = head /\ (c[n + 1] = head \/ c[n + 1] = NULLP)
    /\ \A k \in 1 .. n : c[k] # head /\ c[k] # NULLP
    /\ \A k \in 0 .. n : step[c[k]] = c[k + 1]

LEMMA PassedPlaces ==
    ASSUME NEW step, NEW head, head # NULLP, NEW n \in Nat, NEW bound \in Nat, n + 1 <= bound,
           NEW c, Route(step, head, n, c)
    PROVE  Passed(step, head, bound) = [j \in 1 .. n |-> c[j]]
<1>1. /\ c[0] = head /\ (c[n + 1] = head \/ c[n + 1] = NULLP)
      /\ \A k \in 1 .. n : c[k] # head /\ c[k] # NULLP
      /\ \A k \in 0 .. n : step[c[k]] = c[k + 1]
  BY DEF Route
<1> DEFINE at == CHOOSE g : IsWalk(g, step, head, bound)
           ends == {k \in 1 .. bound : at[k] = head \/ at[k] = NULLP}
           least == CHOOSE k \in ends : \A i \in ends : k <= i
<1>2. Passed(step, head, bound) = IF ends = {} THEN at ELSE [j \in 1 .. least - 1 |-> at[j]]
  BY DEF Passed, IsWalk
<1>3. IsWalk(at, step, head, bound)
  BY WalkExists
<1>4. ends = {k \in 1 .. bound : at[k] = head \/ at[k] = NULLP}
  OBVIOUS
<1>5. least = CHOOSE k \in ends : \A i \in ends : k <= i
  OBVIOUS
<1> HIDE DEF at, ends, least
<1>6. at[0] = head /\ \A k \in 1 .. bound : at[k] = Onward(step, at[k - 1])
  <2>1. Steps(at, step, head, bound)
    BY <1>3, WalkSteps
  <2> QED BY <2>1 DEF Steps
<1>7. \A k \in 0 .. n + 1 : at[k] = c[k]
  <2> DEFINE T == {k \in Nat : k <= n + 1 => at[k] = c[k]}
  <2>1. 0 \in T
    BY <1>1, <1>6
  <2>2. ASSUME NEW k \in T PROVE k + 1 \in T
    <3> SUFFICES ASSUME k \in Nat, k + 1 <= n + 1 PROVE at[k + 1] = c[k + 1]
      OBVIOUS
    <3>1. k \in 0 .. n /\ k + 1 \in 1 .. bound /\ (k + 1) - 1 = k /\ at[k] = c[k]
      BY <2>2
    <3>2. c[k] # NULLP
      BY <1>1, <3>1
    <3>3. at[k + 1] = Onward(step, at[k])
      BY <1>6, <3>1
    <3> QED BY <1>1, <3>1, <3>2, <3>3 DEF Onward
  <2>3. T = Nat
    <3> HIDE DEF T
    <3>1. T \subseteq Nat
      BY DEF T
    <3> QED BY <2>1, <2>2, <3>1, NatSet
  <2> QED BY <2>3
<1>8. n + 1 \in ends
  BY <1>1, <1>7, <1>4
<1>9. \A k \in ends : k \in Int /\ n + 1 <= k
  <2> SUFFICES ASSUME NEW k \in ends, k <= n PROVE FALSE
    BY <1>4
  <2>1. k \in 1 .. n /\ k \in 0 .. n + 1 /\ (at[k] = head \/ at[k] = NULLP)
    BY <1>4
  <2> QED BY <1>1, <1>7, <2>1
<1>10. least = n + 1
  <2>1. least \in ends /\ \A i \in ends : least <= i
    BY <1>8, <1>9, <1>5
  <2> QED BY <1>8, <1>9, <2>1
<1>11. Passed(step, head, bound) = [j \in 1 .. n |-> at[j]]
  BY <1>2, <1>8, <1>10
<1> QED BY <1>7, <1>11

\* The bound that the cursors of KernelLists have is never reached.
LEMMA BoundSuffices ==
    ASSUME NEW s \in Seq(LThreads), Inj(s)
    PROVE  LBound \in Nat /\ Len(s) + 1 <= LBound
<1>1. Cardinality(LThreads) \in Nat
  BY ListsAssumption, FS_CardinalityType
<1>2. PICK n \in Nat : n = Len(s)
  OBVIOUS
<1>3. IsFiniteSet(1 .. n) /\ Cardinality(1 .. n) = n
  BY FS_Interval
<1>4. s \in [1 .. n -> LThreads]
  BY <1>2
<1>5. ~(Cardinality(LThreads) < n)
  <2> SUFFICES ASSUME Cardinality(LThreads) < n PROVE FALSE
    OBVIOUS
  <2>1. \E x, y \in 1 .. n : x # y /\ s[x] = s[y]
    BY <1>3, <1>4, ListsAssumption, FS_PigeonHole
  <2> QED BY <1>2, <2>1 DEF Inj
<1> QED BY <1>1, <1>2, <1>5 DEF LBound

LEMMA RingSpells ==
    ASSUME NEW h, NEW kind, Heads(h, kind), NEW s \in Seq(LThreads), Inj(s),
           NEW m \in Mem, Ring(m, h, s, kind)
    PROVE  /\ list_for_each_entry(m, h, LBound) = [i \in 1 .. Len(s) |-> N(kind, s[i])]
           /\ list_for_each_entry_prev(m, h, LBound) = [i \in 1 .. Len(s) |-> N(kind, s[Len(s) + 1 - i])]
           /\ list_empty(m, h) <=> s = <<>>
           /\ s # <<>> => list_last(m, h) = N(kind, s[Len(s)])
<1>0. h \in LNodes /\ h # NULLP /\ NULLP \notin LNodes
  BY HeadFacts, NodeFacts
<1>1. PICK n \in Nat : n = Len(s)
  OBVIOUS
<1>2. LBound \in Nat /\ n + 1 <= LBound
  BY <1>1, BoundSuffices
<1>3. PICK nx, pv : nx = [x \in DOMAIN m |-> m[x].next] /\ pv = [x \in DOMAIN m |-> m[x].prev]
  OBVIOUS
<1>4. \A x \in LNodes : nx[x] = m[x].next /\ pv[x] = m[x].prev
  BY <1>3 DEF Mem
<1>5. /\ list_for_each_entry(m, h, LBound) = Passed(nx, h, LBound)
      /\ list_for_each_entry_prev(m, h, LBound) = Passed(pv, h, LBound)
  BY <1>3 DEF list_for_each_entry, list_for_each_entry_prev
<1>6. CASE s = <<>> /\ m[h] = Zeroed
  <2>1. n = 0 /\ m[h].next = NULLP /\ m[h].prev = NULLP
    BY <1>1, <1>6 DEF Zeroed
  <2>2. PICK c : c = [k \in 0 .. 1 |-> IF k = 0 THEN h ELSE NULLP]
    OBVIOUS
  <2>3. c[0] = h /\ c[1] = NULLP /\ 0 + 1 = 1
    BY <2>2
  <2>4. ASSUME NEW f, f[h] = NULLP PROVE Passed(f, h, LBound) = [j \in 1 .. 0 |-> c[j]]
    <3>1. \A k \in 0 .. 0 : f[c[k]] = c[k + 1]
      BY <2>3, <2>4
    <3>2. 0 \in Nat /\ 0 + 1 <= LBound
      BY <1>2
    <3>3. Route(f, h, 0, c)
      BY <2>3, <3>1 DEF Route
    <3>4. PICK z \in Nat : z = 0
      OBVIOUS
    <3>5. z + 1 <= LBound /\ Route(f, h, z, c)
      BY <3>2, <3>3, <3>4
    <3>6. Passed(f, h, LBound) = [j \in 1 .. z |-> c[j]]
      BY <1>0, <1>2, <3>5, PassedPlaces
    <3> QED BY <3>4, <3>6
  <2>5. nx[h] = NULLP /\ pv[h] = NULLP
    BY <1>0, <1>4, <2>1
  <2>6. Passed(nx, h, LBound) = [j \in 1 .. 0 |-> c[j]] /\ Passed(pv, h, LBound) = [j \in 1 .. 0 |-> c[j]]
    BY <2>4, <2>5
  <2>7. 1 .. 0 = {} /\ Len(s) = 0
    BY <1>6
  <2>8. list_empty(m, h)
    BY <2>1 DEF list_empty
  <2> QED BY <1>5, <1>6, <2>6, <2>7, <2>8
<1>7. CASE Circle(m, h, s, kind)
  <2>1. PICK c : /\ Places(c, h, s, kind)
                 /\ Distinct(c, n)
                 /\ \A x : Circle(x, h, s, kind) <=> Around(x, c, n)
    BY <1>1, PlacesFacts
  <2>2. /\ c \in [0 .. n + 1 -> LNodes] /\ c[0] = h /\ c[n + 1] = h
        /\ \A k \in 1 .. n : c[k] = N(kind, s[k])
    BY <1>1, <2>1 DEF Places
  <2>3. \A k \in 0 .. n : m[c[k]].next = c[k + 1] /\ m[c[k + 1]].prev = c[k]
    BY <1>7, <2>1 DEF Around
  <2>4. \A k \in 1 .. n : c[k] # h /\ c[k] # NULLP
    BY <1>0, <2>1, <2>2 DEF Distinct
  <2>5. \A k \in 0 .. n : nx[c[k]] = c[k + 1] /\ pv[c[k + 1]] = c[k]
    <3>1. \A k \in 0 .. n : c[k] \in LNodes /\ c[k + 1] \in LNodes
      BY <2>2
    <3> QED BY <1>4, <2>3, <3>1
  <2>6. Passed(nx, h, LBound) = [j \in 1 .. n |-> c[j]]
    <3>1. Route(nx, h, n, c)
      BY <2>2, <2>4, <2>5 DEF Route
    <3> QED BY <1>0, <1>2, <3>1, PassedPlaces
  <2>7. PICK d : d = [k \in 0 .. n + 1 |-> c[n + 1 - k]]
    OBVIOUS
  <2>8. d[0] = h /\ d[n + 1] = h /\ \A k \in 0 .. n + 1 : d[k] = c[n + 1 - k]
    BY <2>2, <2>7
  <2>9. ASSUME NEW k \in 1 .. n PROVE d[k] # h /\ d[k] # NULLP /\ d[k] = N(kind, s[n + 1 - k])
    <3>1. n + 1 - k \in 1 .. n /\ k \in 0 .. n + 1
      OBVIOUS
    <3> QED BY <2>2, <2>4, <2>8, <3>1
  <2>10. ASSUME NEW k \in 0 .. n PROVE pv[d[k]] = d[k + 1]
    <3>1. n - k \in 0 .. n /\ (n - k) + 1 = n + 1 - k /\ n + 1 - (k + 1) = n - k
          /\ k \in 0 .. n + 1 /\ k + 1 \in 0 .. n + 1
      OBVIOUS
    <3>2. d[k] = c[n + 1 - k] /\ d[k + 1] = c[n + 1 - (k + 1)]
      BY <2>8, <3>1, Zenon
    <3>3. pv[c[(n - k) + 1]] = c[n - k]
      BY <2>5, <3>1, Zenon
    <3>4. (n - k) + 1 = n + 1 - k /\ n + 1 - (k + 1) = n - k
      BY <3>1
    <3> QED BY <3>2, <3>3, <3>4, Zenon
  <2>11. Passed(pv, h, LBound) = [j \in 1 .. n |-> d[j]]
    <3>1. Route(pv, h, n, d)
      BY <2>8, <2>9, <2>10 DEF Route
    <3> QED BY <1>0, <1>2, <3>1, PassedPlaces
  <2>12. list_empty(m, h) <=> s = <<>>
    <3>1. m[h].next = c[1]
      BY <2>2, <2>3
    <3>2. CASE n = 0
      <4>1. s = <<>> /\ c[1] = h
        BY <1>1, <2>2, <3>2, SMTT(30)
      <4> QED BY <3>1, <4>1 DEF list_empty
    <3>3. CASE n # 0
      <4>1. 1 \in 1 .. n /\ s # <<>>
        BY <1>1, <3>3
      <4> QED BY <2>4, <3>1, <4>1 DEF list_empty
    <3> QED BY <3>2, <3>3
  <2>13. s # <<>> => list_last(m, h) = N(kind, s[n])
    <3>1. m[h].prev = c[n]
      BY <2>2, <2>3
    <3>2. s # <<>> => n \in 1 .. n
      BY <1>1
    <3> QED BY <2>2, <3>1, <3>2 DEF list_last
  <2>14. [j \in 1 .. n |-> c[j]] = [i \in 1 .. n |-> N(kind, s[i])]
    BY <2>2
  <2>15. [j \in 1 .. n |-> d[j]] = [i \in 1 .. n |-> N(kind, s[n + 1 - i])]
    BY <2>9
  <2> QED BY <1>1, <1>5, <2>6, <2>11, <2>12, <2>13, <2>14, <2>15
<1> QED BY <1>6, <1>7 DEF Ring

LEMMA RingsAreExact == KInv => ListsExact
<1> SUFFICES ASSUME KInv PROVE ListsExact
  OBVIOUS
<1>1. link \in Mem /\ QueueM(link, qseq)
  BY DEF KInv, KTyped, Queue
<1>2. qseq \in Seq(LThreads) /\ Inj(qseq) /\ Ring(link, READY, qseq, "queue")
  BY <1>1 DEF QueueM
<1>3. PICK fwd, bwd : /\ fwd = list_for_each_entry(link, READY, LBound)
                      /\ bwd = list_for_each_entry_prev(link, READY, LBound)
  OBVIOUS
<1>4. Spells(READY, qseq, Q)
  <2>1. /\ fwd = [i \in 1 .. Len(qseq) |-> N("queue", qseq[i])]
        /\ bwd = [i \in 1 .. Len(qseq) |-> N("queue", qseq[Len(qseq) + 1 - i])]
        /\ list_empty(link, READY) <=> qseq = <<>>
        /\ qseq # <<>> => list_last(link, READY) = N("queue", qseq[Len(qseq)])
    BY <1>1, <1>2, <1>3, HeadsOf, RingSpells
  <2>2. \A x : N("queue", x) = Q(x)
    BY DEF N, Q
  <2> QED BY <1>3, <2>1, <2>2 DEF Spells
<1>5. \A t \in LThreads : link[Q(t)] # Zeroed <=> t \in In(qseq)
  <2> SUFFICES ASSUME NEW t \in LThreads PROVE link[Q(t)] # Zeroed <=> t \in In(qseq)
    OBVIOUS
  <2>1. CASE t \in In(qseq)
    <3>1. qseq # <<>>
      BY <2>1 DEF In
    <3>2. Circle(link, READY, qseq, "queue")
      BY <1>2, <3>1, RingCircle
    <3>3. link[N("queue", t)] # Zeroed
      BY <1>2, <2>1, <3>2, HeadsOf, CircleLinked
    <3> QED BY <2>1, <3>3, NodeFacts
  <2>2. CASE t \notin In(qseq)
    BY <1>1, <2>2 DEF QueueM
  <2> QED BY <2>1, <2>2
<1>6. ASSUME ~dirty
      PROVE  /\ \A p \in LProcs : Spells(TH(p), thseq[p], PT)
             /\ \A t \in LThreads : link[PT(t)] = Zeroed <=> tst[t] = "free"
  <2>1. RingsM(link, thseq, tst)
    BY <1>6 DEF KInv, Rings
  <2>2. ASSUME NEW p \in LProcs PROVE Spells(TH(p), thseq[p], PT)
    <3>1. PICK s \in Seq(LThreads) : s = thseq[p]
      BY DEF KInv, KTyped, ProcSeqs
    <3>2. Inj(s) /\ Ring(link, TH(p), s, "process_threads") /\ Heads(TH(p), "process_threads")
      BY <2>1, <3>1, HeadsOf DEF RingsM, KInv, Members, MembersM
    <3>3. /\ list_for_each_entry(link, TH(p), LBound) = [i \in 1 .. Len(s) |-> N("process_threads", s[i])]
          /\ list_for_each_entry_prev(link, TH(p), LBound) = [i \in 1 .. Len(s) |-> N("process_threads", s[Len(s) + 1 - i])]
          /\ list_empty(link, TH(p)) <=> s = <<>>
          /\ s # <<>> => list_last(link, TH(p)) = N("process_threads", s[Len(s)])
      BY <1>1, <3>2, RingSpells
    <3>4. \A x : N("process_threads", x) = PT(x)
      BY DEF N, PT
    <3> QED BY <3>1, <3>3, <3>4 DEF Spells
  <2> QED BY <2>1, <2>2 DEF RingsM
<1> QED BY <1>4, <1>5, <1>6 DEF ListsExact

(***************************************************************************)
(* Whatever threads and processes do, a cursor over the ready queue passes *)
(* the waiting threads in order, both ways, and comes back to the head;    *)
(* the list of a process likewise until a thread that outlived an earlier  *)
(* use of the entry is closed (list.h, scheduler.c:37, process.c:46-60).   *)
(***************************************************************************)
THEOREM ListsAlwaysExact == LSpec => []ListsExact
BY ListsInductive, RingsAreExact, PTL

-----------------------------------------------------------------------------
(* Interrupts *)

ISpec == InterruptsInit /\ [][InterruptsNext]_interrupts

-----------------------------------------------------------------------------
(* The inductive invariant: the tables and the chips. *)

HasIdt == bstage \in {"idt", "tss", "pic", "timer", "run"}
HasTss == bstage \in {"tss", "pic", "timer", "run"}
HasPic == bstage \in {"pic", "timer", "run"}
HasTimer == bstage \in {"timer", "run"}

Lines == 0 .. 7
Controller == [icw : {0}, base : Nat, cascade : Nat, mask : SUBSET Lines,
               irr : SUBSET Lines, isr : SUBSET Lines]

\* The divisor of 1000 ticks a second.
TimerSet(t) == t.mode = PIT_MODE_SQUARE_WAVE /\ t.count = 1193

TablesSet ==
    /\ bstage \in {"start", "gdt", "idt", "tss", "pic", "timer", "run"}
    /\ HasIdt => /\ DOMAIN idt = HANDLERS \cup {IVEC_SYSCALL}
                 /\ \A v \in HANDLERS : idt[v] = PL_KERNEL
                 /\ idt[IVEC_SYSCALL] = PL_USER
    /\ HasTss => task = KSEG_TSS
    /\ IF HasTimer THEN TimerSet(pit) ELSE pit = PitAtBoot

\* Once the controllers are set up only the timer's line comes through, so that
\* no other line is ever in service.
ChipsSet ==
    /\ pics \in [master : Controller, slave : Controller]
    /\ HasPic => /\ pics.master.base = IVEC_IRQ_0
                 /\ pics.master.mask = Lines \ {IRQ_TIMER} /\ pics.slave.mask = Lines
    /\ pics.slave.isr = {} /\ pics.master.isr \subseteq {IRQ_TIMER}

-----------------------------------------------------------------------------
(* The CPU, the running handler and the saved threads. *)

Tick == <<Eoi(IRQ_TIMER), Call("preempt")>>
Handlers == {<<>>, <<Call("exception")>>, Tick, <<Call("preempt")>>, <<Call("exit")>>,
             <<Call("create")>>, <<Call("thrd_exit")>>, <<Call("shell")>>}

\* A saved thread goes on in the shell that its process was killed into, or
\* returns to user code.
ThreadsSaved ==
    /\ icur \in IThreads \cup {0} /\ esp0 = icur
    /\ ist \in [IThreads -> {"none", "new", "saved"}]
    /\ kont \in [IThreads -> [todo : {<<>>, <<Call("shell")>>}, ds : Nat]]
    /\ \A t \in IThreads : ist[t] = "saved" => kont[t].ds = UserData
    /\ live \in BOOLEAN
    /\ live => cpu = "shell" /\ icur # 0 /\ frame.ds = UserData

\* The line in service is the one whose end the handler is about to send; a
\* shell that can be interrupted is the boot shell, before any thread.
CpuSane ==
    /\ cpu \in IF bstage = "run" THEN {"shell", "user", "handler"} ELSE {"boot"}
    /\ cpu = "boot" => ~iflag
    /\ cpu = "boot" \/ (cpu = "shell" /\ iflag) =>
        icur = 0 /\ \A t \in IThreads : ist[t] = "none"
    /\ cpu = "user" => iflag /\ ds = UserData /\ icur # 0
    /\ cpu = "handler" => ~iflag /\ todo \in Handlers
    /\ pics.master.isr # {} => cpu = "handler" /\ todo = Tick
    /\ kills \subseteq {"fault", "spurious"}

\* What the handler goes back to.
FrameSane ==
    /\ frame \in [cpu : {"boot", "shell", "user"}, ds : Nat, iflag : BOOLEAN]
    /\ ds \in Nat /\ iflag \in BOOLEAN
    /\ cpu = "handler" /\ frame.cpu = "user" =>
        frame.ds = UserData /\ frame.iflag /\ icur # 0
    /\ cpu = "handler" /\ frame.cpu # "user" =>
        icur = 0 /\ todo \in {<<Call("exception")>>, Tick, <<Call("preempt")>>}

SInv == TablesSet /\ ChipsSet /\ ThreadsSaved /\ CpuSane /\ FrameSane

-----------------------------------------------------------------------------
(* The bytes that the drivers write. *)

LEMMA BitsFacts ==
    /\ 4 \in Bits(17) /\ 4 \notin Bits(96)
    /\ Bits(254) = Lines \ {0} /\ Bits(255) = Lines
<1> DEFINE One(byte, k) == (byte \div 2^k) % 2 = 1
<1>1. \A byte : Bits(byte) = {k \in 0 .. 7 : One(byte, k)}
  BY Zenon DEF Bits
<1>2. One(17, 4) /\ ~One(96, 4)
  OBVIOUS
<1>3. /\ ~One(254, 0) /\ One(254, 1) /\ One(254, 2) /\ One(254, 3)
      /\ One(254, 4) /\ One(254, 5) /\ One(254, 6) /\ One(254, 7)
  OBVIOUS
<1>4. /\ One(255, 0) /\ One(255, 1) /\ One(255, 2) /\ One(255, 3)
      /\ One(255, 4) /\ One(255, 5) /\ One(255, 6) /\ One(255, 7)
  OBVIOUS
<1>5. 0 .. 7 = {0, 1, 2, 3, 4, 5, 6, 7}
  OBVIOUS
<1> HIDE DEF One
<1>6. 4 \in Bits(17) /\ 4 \notin Bits(96)
  BY <1>1, <1>2
<1>7. Bits(254) = Lines \ {0}
  BY <1>1, <1>3, <1>5 DEF Lines
<1>8. Bits(255) = Lines
  BY <1>1, <1>4, <1>5 DEF Lines
<1> QED BY <1>6, <1>7, <1>8

\* A controller that may expect initialisation words.
Initialising == [icw : {0, 2, 3, 4}, base : Nat, cascade : Nat, mask : SUBSET Lines,
                 irr : SUBSET Lines, isr : SUBSET Lines]

LEMMA ControllerReset ==
    \A c \in Controller, start \in Nat, icw3 \in Nat :
        /\ pic_init_single(c, start, icw3) \in Controller
        /\ pic_init_single(c, start, icw3).base = start
        /\ pic_init_single(c, start, icw3).isr = {}
<1> TAKE c \in Controller, start \in Nat, icw3 \in Nat
<1>0. PICK d : d = pic_init_single(c, start, icw3)
  OBVIOUS
<1>1. PICK w1 : w1 = PicCommand(c, ICW1_INIT + ICW1_NEED_ICW4)
  OBVIOUS
<1>2. w1 = [c EXCEPT !.icw = 2, !.mask = {}, !.isr = {}]
  BY <1>1, BitsFacts DEF PicCommand, ICW1_INIT, ICW1_NEED_ICW4
<1>3. w1 \in Initialising /\ w1.icw = 2 /\ w1.isr = {}
  BY <1>2 DEF Controller, Initialising
<1>4. PICK w2 : w2 = PicData(w1, start)
  OBVIOUS
<1>5. w2 = [w1 EXCEPT !.base = start, !.icw = 3]
  BY <1>3, <1>4 DEF PicData
<1>6. w2 \in Initialising /\ w2.icw = 3 /\ w2.isr = {} /\ w2.base = start
  BY <1>3, <1>5 DEF Initialising
<1>7. PICK w3 : w3 = PicData(w2, icw3)
  OBVIOUS
<1>8. w3 = [w2 EXCEPT !.cascade = icw3, !.icw = 4]
  BY <1>6, <1>7 DEF PicData
<1>9. w3 \in Initialising /\ w3.icw = 4 /\ w3.isr = {} /\ w3.base = start
  BY <1>6, <1>8 DEF Initialising
<1>10. d = PicData(w3, ICW4_MPM_8086)
  BY <1>0, <1>1, <1>4, <1>7 DEF pic_init_single
<1>11. d = [w3 EXCEPT !.icw = 0]
  BY <1>9, <1>10 DEF PicData
<1>12. d \in Controller /\ d.base = start /\ d.isr = {}
  BY <1>9, <1>11 DEF Initialising, Controller
<1> QED BY <1>0, <1>12

\* init_int_controller programs the controllers: their vectors, and a mask that
\* blocks all lines but the timer's.
Programmed == pic_set_mask(pic_init(pics, IVEC_IRQ_0), 65535 - 2^IRQ_TIMER)

LEMMA ControllersProgrammed ==
    ASSUME ChipsSet
    PROVE  /\ Programmed \in [master : Controller, slave : Controller]
           /\ Programmed.master.base = IVEC_IRQ_0
           /\ Programmed.master.mask = Lines \ {IRQ_TIMER} /\ Programmed.slave.mask = Lines
           /\ Programmed.master.isr = {} /\ Programmed.slave.isr = {}
<1>1. pics.master \in Controller /\ pics.slave \in Controller
  BY DEF ChipsSet
<1>2. PICK words \in Nat : words = 2^IRQ_CASCADE
  BY DEF IRQ_CASCADE
<1>3. PICK first \in Nat : first = IVEC_IRQ_0
  BY DEF IVEC_IRQ_0
<1>4. PICK second \in Nat : second = first + IRQ_SLAVE_START
  BY DEF IRQ_SLAVE_START
<1>5. PICK cascade \in Nat : cascade = IRQ_CASCADE
  BY DEF IRQ_CASCADE
<1>6. PICK m : m = pic_init_single(pics.master, first, words)
  OBVIOUS
<1>7. m \in Controller /\ m.base = first /\ m.isr = {}
  BY <1>1, <1>6, ControllerReset
<1>8. PICK n : n = pic_init_single(pics.slave, second, cascade)
  OBVIOUS
<1>9. n \in Controller /\ n.isr = {}
  BY <1>1, <1>8, ControllerReset
<1>10. (65535 - 2^IRQ_TIMER) % 256 = 254
       /\ ((65535 - 2^IRQ_TIMER) \div 2^IRQ_SLAVE_START) % 256 = 255
  BY DEF IRQ_TIMER, IRQ_SLAVE_START
<1>11. pic_init(pics, IVEC_IRQ_0) = [master |-> m, slave |-> n]
  <2>1. m = pic_init_single(pics.master, IVEC_IRQ_0, 2^IRQ_CASCADE)
    BY <1>2, <1>3, <1>6
  <2>2. n = pic_init_single(pics.slave, IVEC_IRQ_0 + IRQ_SLAVE_START, IRQ_CASCADE)
    BY <1>3, <1>4, <1>5, <1>8
  <2> QED BY <2>1, <2>2 DEF pic_init
<1>12. Programmed = [master |-> PicData(m, 254), slave |-> PicData(n, 255)]
  BY <1>10, <1>11 DEF Programmed, pic_set_mask
<1>13. \A c \in Controller : \A byte :
         PicData(c, byte) = [c EXCEPT !.mask = Bits(byte)]
  BY DEF PicData, Controller
<1>14. Programmed.master = [m EXCEPT !.mask = Bits(254)]
  <2>1. Programmed.master = PicData(m, 254)
    BY <1>12
  <2> QED BY <2>1, <1>7, <1>13
<1>15. Programmed.slave = [n EXCEPT !.mask = Bits(255)]
  <2>1. Programmed.slave = PicData(n, 255)
    BY <1>12
  <2> QED BY <2>1, <1>9, <1>13
<1>16. Programmed.master \in Controller /\ Programmed.master.base = first
       /\ Programmed.master.mask = Lines \ {0} /\ Programmed.master.isr = {}
  BY <1>7, <1>14, BitsFacts DEF Controller
<1>17. Programmed.slave \in Controller /\ Programmed.slave.mask = Lines /\ Programmed.slave.isr = {}
  BY <1>9, <1>15, BitsFacts DEF Controller
<1> QED BY <1>3, <1>12, <1>16, <1>17 DEF IRQ_TIMER

\* The timer gets the divisor for 1000 ticks a second.
LEMMA TimerProgrammed ==
    TimerSet(pit_set_irq_freq(PitAtBoot, PIT_MODE_SQUARE_WAVE, 1000))
<1>1. PIT_BASE_HZ \div 1000 = 1193 /\ 1193 % 65536 = 1193 /\ 1193 % 256 = 169
      /\ 1193 \div 256 = 4
  BY DEF PIT_BASE_HZ
<1>2. pit_cmd_byte(PIT_CH_IRQ, PIT_RW_LSB_MSB, PIT_MODE_SQUARE_WAVE, PIT_BASE2) = 54
  BY DEF pit_cmd_byte, PIT_CH_IRQ, PIT_RW_LSB_MSB, PIT_MODE_SQUARE_WAVE, PIT_BASE2
<1>3. 54 \div 64 = 0 /\ (54 \div 16) % 4 = 3 /\ (54 \div 2) % 8 = 3 /\ 54 % 2 = 0
  OBVIOUS
<1> DEFINE Fields == {"next", "mode", "bcd", "low", "count"}
<1>4. PICK t0 : t0 = PitAtBoot
  OBVIOUS
<1>5. DOMAIN t0 = Fields
  BY <1>4 DEF PitAtBoot
<1>6. PICK t1 : t1 = [t0 EXCEPT !.next = "low", !.mode = 3, !.bcd = 0]
  OBVIOUS
<1>7. DOMAIN t1 = Fields /\ t1.next = "low" /\ t1.mode = 3
  BY <1>5, <1>6
<1>8. t1 = PitCommand(t0, 54)
  BY <1>3, <1>6 DEF PitCommand
<1>9. PICK t2 : t2 = [t1 EXCEPT !.low = 169, !.next = "high"]
  OBVIOUS
<1>10. DOMAIN t2 = Fields /\ t2.next = "high" /\ t2.mode = 3 /\ t2.low = 169
  BY <1>7, <1>9
<1>11. t2 = PitData(t1, 169)
  BY <1>7, <1>9 DEF PitData
<1>12. PICK t3 : t3 = [t2 EXCEPT !.count = 4 * 256 + t2.low, !.next = "none"]
  OBVIOUS
<1>13. t3.mode = 3 /\ t3.count = 1193
  BY <1>10, <1>12
<1>14. t3 = PitData(t2, 4)
  BY <1>10, <1>12 DEF PitData
<1>15. pit_set_irq_freq(t0, PIT_MODE_SQUARE_WAVE, 1000) = t3
  BY <1>1, <1>2, <1>8, <1>11, <1>14 DEF pit_set_irq_freq, pit_send_cmd
<1> QED BY <1>4, <1>13, <1>15 DEF TimerSet, PIT_MODE_SQUARE_WAVE

\* The specific end of interrupt takes the timer's line out of service.
LEMMA EoiServed ==
    ASSUME ChipsSet, NEW p, p = pic_send_eoi(pics, IRQ_TIMER)
    PROVE  /\ p \in [master : Controller, slave : Controller]
           /\ p = [pics EXCEPT !.master = [@ EXCEPT !.isr = {}]]
<1>1. PicCommand(pics.master, 96) = [pics.master EXCEPT !.isr = pics.master.isr \ {0}]
  BY BitsFacts DEF PicCommand, ChipsSet, Controller
<1>2. pics.master.isr \ {0} = {}
  BY DEF ChipsSet, IRQ_TIMER
<1> QED BY <1>1, <1>2 DEF pic_send_eoi, IRQ_TIMER, IRQ_SLAVE_START, OCW2_EOI_SPECIFIC,
                          ChipsSet, Controller

-----------------------------------------------------------------------------
(* The calls of handlers, and the gates they are entered through. *)

LEMMA HandlerFacts ==
    ASSUME NEW h \in Handlers, h # <<>>
    PROVE  /\ Head(h)[1] = "eoi" =>
                h = Tick /\ Head(h)[2] = IRQ_TIMER /\ Tail(h) = <<Call("preempt")>>
           /\ Head(h)[1] = "preempt" => h = <<Call("preempt")>> /\ Tail(h) = <<>>
           /\ Head(h)[1] = "create" => h = <<Call("create")>> /\ Tail(h) = <<>>
           /\ Head(h)[1] = "exception" => h = <<Call("exception")>>
           /\ Head(h)[1] = "exit" => h = <<Call("exit")>>
           /\ Head(h)[1] = "thrd_exit" => h = <<Call("thrd_exit")>>
           /\ Head(h)[1] = "shell" => h = <<Call("shell")>>
<1>1. Head(Tick) = <<"eoi", 0>> /\ Tail(Tick) = <<Call("preempt")>>
  BY DEF Tick, Call, Eoi, IRQ_TIMER
<1>2. \A name : Head(<<Call(name)>>) = <<name, 0>> /\ Tail(<<Call(name)>>) = <<>>
  BY DEF Call
<1>3. h = Tick \/ \E name \in {"exception", "preempt", "exit", "create", "thrd_exit", "shell"} :
                    h = <<Call(name)>>
  BY DEF Handlers
<1>4. CASE h = Tick
  BY <1>1, <1>4 DEF IRQ_TIMER
<1>5. ASSUME NEW name, h = <<Call(name)>>
      PROVE  Head(h)[1] = name /\ Tail(h) = <<>>
  BY <1>2, <1>5
<1> QED BY <1>3, <1>4, <1>5

\* Which handlers may have interrupted kernel code, and that only the tick is to
\* send an end of interrupt.
LEMMA HandlersDiffer ==
    /\ <<>> # Tick /\ <<Call("exception")>> # Tick /\ <<Call("preempt")>> # Tick
    /\ <<Call("exit")>> # Tick /\ <<Call("create")>> # Tick
    /\ <<Call("thrd_exit")>> # Tick /\ <<Call("shell")>> # Tick
    /\ \A h \in {<<>>, <<Call("exit")>>, <<Call("create")>>, <<Call("thrd_exit")>>,
                 <<Call("shell")>>} :
            h \notin {<<Call("exception")>>, Tick, <<Call("preempt")>>}
BY DEF Tick, Call, Eoi

\* The timer has a gate, and so have the faults of user code, if only that of
\* the fault of a missing or closed gate; a line that was taken back has none.
LEMMA Gates ==
    ASSUME TablesSet, HasIdt
    PROVE  /\ Gate(IVEC_IRQ_0, FALSE) = IVEC_IRQ_0
           /\ Gate(39, FALSE) = 11 /\ Gate(0, FALSE) = 0
           /\ Gate(3, FALSE) = 11 /\ Gate(14, FALSE) = 14
           /\ cpu = "user" => Gate(IVEC_IRQ_0, TRUE) = 13
BY DEF TablesSet, Gate, HANDLERS, IVEC_IRQ_0, IRQ_TIMER, IVEC_SYSCALL, PL_USER, PL_KERNEL

LEMMA Dispatches ==
    /\ interrupt_dispatch(IVEC_IRQ_0) = Tick /\ ~(IVEC_IRQ_0 < IVEC_USER_START)
    /\ \A v \in {0, 11, 13, 14} :
         interrupt_dispatch(v) = <<Call("exception")>> /\ v < IVEC_USER_START
BY DEF interrupt_dispatch, handle_irq, IVEC_IRQ_0, IVEC_USER_START, IRQ_TIMER, Tick

\* What entering the kernel leaves.
Entered(h) ==
    /\ cpu' = "handler" /\ iflag' = FALSE /\ ds' = KSEG_KERNEL_DATA /\ todo' = h
    /\ frame' = [cpu |-> cpu, ds |-> ds, iflag |-> iflag]

LEMMA EnterTick ==
    ASSUME TablesSet, HasTss, Enter(IVEC_IRQ_0, FALSE, "irq")
    PROVE  Entered(Tick) /\ kills' = kills
<1>1. HasIdt /\ task = KSEG_TSS
  BY DEF HasIdt, HasTss, TablesSet
<1>2. PICK g : g = Gate(IVEC_IRQ_0, FALSE)
  OBVIOUS
<1>3. g = IVEC_IRQ_0
  BY <1>1, <1>2, Gates
<1>4. g # -1
  BY <1>3 DEF IVEC_IRQ_0
<1> QED BY <1>1, <1>2, <1>3, <1>4, Dispatches DEF Enter, Entered

LEMMA EnterException ==
    ASSUME TablesSet, HasTss, NEW vec, NEW soft, NEW why, Enter(vec, soft, why),
           Gate(vec, soft) \in {0, 11, 13, 14}
    PROVE  Entered(<<Call("exception")>>) /\ kills' = kills \cup {why}
<1>1. task = KSEG_TSS
  BY DEF HasTss, TablesSet
<1>2. PICK g \in {0, 11, 13, 14} : g = Gate(vec, soft)
  OBVIOUS
<1>3. g # -1
  BY <1>2
<1> QED BY <1>1, <1>2, <1>3, Dispatches DEF Enter, Entered

-----------------------------------------------------------------------------
(* The controllers. *)

\* What a step leaves of the controllers but their requests.
SameLines == /\ pics' \in [master : Controller, slave : Controller]
             /\ pics'.master.base = pics.master.base
             /\ pics'.master.mask = pics.master.mask /\ pics'.slave.mask = pics.slave.mask
             /\ pics'.slave.isr = pics.slave.isr

LEMMA RaiseKeeps ==
    ASSUME ChipsSet, NEW irq \in {IRQ_TIMER, 1, 8}, pics' = PicRaise(pics, irq)
    PROVE  SameLines /\ pics'.master.isr = pics.master.isr
<1>1. irq \in 0 .. 8
  BY DEF IRQ_TIMER
<1>2. pics.master \in Controller /\ pics.slave \in Controller
  BY DEF ChipsSet
<1>3. CASE irq < 8
  <2>1. pics' = [pics EXCEPT !.master.irr = @ \cup {irq}]
    BY <1>3 DEF PicRaise, IRQ_SLAVE_START
  <2>2. irq \in Lines
    BY <1>1, <1>3 DEF Lines
  <2>3. pics'.master = [pics.master EXCEPT !.irr = @ \cup {irq}] /\ pics'.slave = pics.slave
    BY <2>1 DEF ChipsSet
  <2>4. pics'.master \in Controller
    BY <1>2, <2>2, <2>3 DEF Controller
  <2> QED BY <1>2, <2>1, <2>3, <2>4 DEF ChipsSet, SameLines, Controller
<1>4. CASE irq = 8
  <2>1. pics' = [pics EXCEPT !.slave.irr = @ \cup {8 - 8}, !.master.irr = @ \cup {2}]
    BY <1>4 DEF PicRaise, IRQ_SLAVE_START, IRQ_CASCADE
  <2>2. 8 - 8 \in Lines /\ 2 \in Lines
    BY DEF Lines
  <2>3. pics'.master = [pics.master EXCEPT !.irr = @ \cup {2}]
        /\ pics'.slave = [pics.slave EXCEPT !.irr = @ \cup {8 - 8}]
    BY <2>1 DEF ChipsSet
  <2>4. pics'.master \in Controller /\ pics'.slave \in Controller
    BY <1>2, <2>2, <2>3 DEF Controller
  <2> QED BY <1>2, <2>1, <2>3, <2>4 DEF ChipsSet, SameLines, Controller
<1> QED BY <1>1, <1>3, <1>4

\* Only the timer's line gets through the masks.
LEMMA OnlyTimerOffered ==
    ASSUME ChipsSet, HasPic, NEW irq \in {IRQ_TIMER, 1, 8}, Offered(irq)
    PROVE  irq = IRQ_TIMER
BY DEF ChipsSet, Offered, PicOffers, Lines, IRQ_TIMER, IRQ_SLAVE_START, IRQ_CASCADE

LEMMA TimerTaken ==
    ASSUME ChipsSet, HasPic, pics.master.isr = {}, pics' = Taken(IRQ_TIMER)
    PROVE  SameLines /\ pics'.master.isr = {IRQ_TIMER} /\ Vector(IRQ_TIMER) = IVEC_IRQ_0
<1>1. pics.master \in Controller /\ pics.slave \in Controller
  BY DEF ChipsSet
<1>2. pics' = [pics EXCEPT !.master = PicTake(@, 0)]
  BY DEF Taken, IRQ_TIMER, IRQ_SLAVE_START
<1>3. pics'.master = [pics.master EXCEPT !.irr = @ \ {0}, !.isr = @ \cup {0}]
      /\ pics'.slave = pics.slave
  BY <1>2 DEF ChipsSet, PicTake
<1>4. pics'.master \in Controller
  <2>1. 0 \in Lines
    BY DEF Lines
  <2>2. pics.master.irr \ {0} \in SUBSET Lines /\ pics.master.isr \cup {0} \in SUBSET Lines
    BY <1>1, <2>1 DEF Controller
  <2> QED BY <1>1, <1>3, <2>2 DEF Controller
<1>5. SameLines /\ pics'.master.isr = {0}
  BY <1>1, <1>2, <1>3, <1>4 DEF ChipsSet, SameLines, Controller
<1>6. Vector(IRQ_TIMER) = IVEC_IRQ_0
  BY DEF ChipsSet, Vector, IRQ_TIMER, IRQ_SLAVE_START, IVEC_IRQ_0
<1> QED BY <1>5, <1>6 DEF IRQ_TIMER

LEMMA RequestTakenBack ==
    ASSUME ChipsSet, pics' = [pics EXCEPT !.master.irr = @ \ {IRQ_TIMER}]
    PROVE  SameLines /\ pics'.master.isr = pics.master.isr
<1>1. pics.master \in Controller /\ pics.slave \in Controller
  BY DEF ChipsSet
<1>2. pics'.master = [pics.master EXCEPT !.irr = @ \ {IRQ_TIMER}] /\ pics'.slave = pics.slave
  BY DEF ChipsSet
<1>3. pics'.master \in Controller
  BY <1>1, <1>2 DEF Controller
<1> QED BY <1>1, <1>2, <1>3 DEF ChipsSet, SameLines, Controller

-----------------------------------------------------------------------------
(* What most steps leave alone. *)

LEMMA TablesStay == TablesSet /\ UNCHANGED tables => TablesSet'
BY DEF TablesSet, HasIdt, HasTss, HasTimer, tables, TimerSet

LEMMA ChipsStay ==
    ASSUME ChipsSet, UNCHANGED bstage, UNCHANGED pics
    PROVE  ChipsSet'
BY DEF ChipsSet, HasPic

LEMMA LinesStay ==
    ASSUME ChipsSet, UNCHANGED bstage, SameLines, pics'.master.isr \subseteq {IRQ_TIMER}
    PROVE  ChipsSet'
BY DEF ChipsSet, HasPic, SameLines

\* The kernel was entered from user code or from the boot shell.
LEMMA EnteredSane ==
    ASSUME SInv, NEW h \in {<<Call("exception")>>, Tick}, Entered(h), UNCHANGED bstage,
           cpu \in {"user", "shell"}, iflag,
           UNCHANGED <<esp0, icur, ist, kont, live>>,
           pics'.master.isr # {} => h = Tick, kills' \subseteq {"fault", "spurious"}
    PROVE  ThreadsSaved' /\ CpuSane' /\ FrameSane'
<1>1. bstage = "run"
  BY DEF SInv, CpuSane
<1>2. ~live
  BY DEF SInv, ThreadsSaved, CpuSane
<1>3. ThreadsSaved'
  BY <1>2 DEF SInv, ThreadsSaved
<1>4. h \in Handlers
  BY DEF Handlers
<1>5. CpuSane'
  BY <1>1, <1>4 DEF CpuSane, Entered
<1>6. KSEG_KERNEL_DATA \in Nat
  BY DEF KSEG_KERNEL_DATA
<1>7. frame' \in [cpu : {"boot", "shell", "user"}, ds : Nat, iflag : BOOLEAN]
  BY DEF SInv, FrameSane, Entered
<1>8. frame'.cpu = cpu /\ frame'.ds = ds /\ frame'.iflag = iflag
  BY DEF Entered
<1>9. cpu = "user" => ds = UserData /\ icur # 0
  BY DEF SInv, CpuSane
<1>10. cpu = "shell" => icur = 0
  BY DEF SInv, CpuSane
<1>11. FrameSane'
  BY <1>6, <1>7, <1>8, <1>9, <1>10 DEF FrameSane, Entered
<1> QED BY <1>3, <1>5, <1>11

\* States and continuations that the scheduler may be given.
Switchable(st, ks) ==
    /\ st \in [IThreads -> {"none", "new", "saved"}]
    /\ ks \in [IThreads -> [todo : {<<>>, <<Call("shell")>>}, ds : Nat]]
    /\ \A u \in IThreads : st[u] = "saved" => ks[u].ds = UserData /\ ~iflag

\* A thread is resumed: user code starts, or the rest of its handler runs with
\* interrupts off.
LEMMA SwitchSane ==
    ASSUME SInv, bstage = "run", bstage' = bstage, pics' = pics, kills' = kills,
           pics.master.isr = {}, live' = FALSE,
           NEW st, NEW ks, Switchable(st, ks), Schedule(st, ks)
    PROVE  ThreadsSaved' /\ CpuSane' /\ FrameSane'
<1>0. PICK t \in IThreads : st[t] # "none" /\ thread_switch_to(t, st, ks)
  BY DEF Schedule
<1> USE DEF Switchable
<1>1. t # 0
  BY IThreadsAssumption
<1>2. icur' = t /\ esp0' = t /\ ist' = [st EXCEPT ![t] = "none"] /\ kont' = ks
  BY <1>0 DEF thread_switch_to, cpu_user_kstack_set
<1>3. ist' \in [IThreads -> {"none", "new", "saved"}]
      /\ \A u \in IThreads : ist'[u] = "saved" => st[u] = "saved"
  BY <1>2
<1>4. ThreadsSaved'
  BY <1>2, <1>3 DEF ThreadsSaved
<1>5. kills' \subseteq {"fault", "spurious"} /\ pics'.master.isr = {} /\ bstage' = "run"
  BY DEF SInv, CpuSane
<1>6. UserData \in Nat
  BY DEF UserData, X86_SEGSEL_INIT, KSEG_USER_DATA, PL_USER
<1>7. CASE st[t] = "new"
  <2>1. cpu' = "user" /\ iflag' = TRUE /\ ds' = UserData /\ frame' = frame
    BY <1>0, <1>7 DEF thread_switch_to, ToUser
  <2>2. CpuSane'
    BY <1>1, <1>2, <1>5, <2>1 DEF CpuSane
  <2>3. FrameSane'
    BY <1>6, <2>1 DEF SInv, FrameSane
  <2> QED BY <1>4, <2>2, <2>3
<1>8. CASE st[t] = "saved"
  <2>1. /\ cpu' = "handler" /\ iflag' = iflag /\ ds' = ds /\ todo' = ks[t].todo
        /\ frame' = [cpu |-> "user", ds |-> ks[t].ds, iflag |-> TRUE]
    BY <1>0, <1>8 DEF thread_switch_to
  <2>2. ~iflag /\ ks[t].ds = UserData /\ todo' \in {<<>>, <<Call("shell")>>}
    BY <1>8, <2>1
  <2>3. todo' \in Handlers
    BY <2>2 DEF Handlers
  <2>4. CpuSane'
    BY <1>1, <1>2, <1>5, <2>1, <2>2, <2>3 DEF CpuSane
  <2>5. FrameSane'
    BY <1>1, <1>2, <1>6, <2>1, <2>2 DEF SInv, FrameSane
  <2> QED BY <1>4, <2>4, <2>5
<1> QED BY <1>0, <1>7, <1>8

\* A handler that is not the tick's is run with no line in service; one that is
\* neither that nor the exception's came from user code.
LEMMA InService ==
    ASSUME SInv, cpu = "handler"
    PROVE  /\ bstage = "run" /\ ~iflag /\ ~live /\ todo \in Handlers
           /\ todo # Tick => pics.master.isr = {}
           /\ icur # 0 => frame.cpu = "user" /\ frame.ds = UserData
           /\ todo \notin {<<Call("exception")>>, Tick, <<Call("preempt")>>} =>
                icur # 0 /\ frame.cpu = "user" /\ frame.ds = UserData /\ frame.iflag
BY DEF SInv, CpuSane, FrameSane, ThreadsSaved

-----------------------------------------------------------------------------
(* Each step preserves the invariant: first those of kernel_main. *)

LEMMA InitSane == InterruptsInit => SInv
<1> SUFFICES ASSUME InterruptsInit PROVE SInv
  OBVIOUS
<1>1. TablesSet
  BY DEF InterruptsInit, TablesSet, HasIdt, HasTss, HasTimer
<1>2. PicAtBoot(8) \in Controller /\ PicAtBoot(112) \in Controller
      /\ PicAtBoot(8).isr = {} /\ PicAtBoot(112).isr = {}
  BY DEF PicAtBoot, Controller
<1>3. ChipsSet
  BY <1>2 DEF InterruptsInit, ChipsSet, HasPic
<1>4. ThreadsSaved
  BY DEF InterruptsInit, ThreadsSaved
<1>5. CpuSane
  BY <1>2 DEF InterruptsInit, CpuSane
<1>6. FrameSane
  BY DEF InterruptsInit, FrameSane
<1> QED BY <1>1, <1>3, <1>4, <1>5, <1>6 DEF SInv

\* A step of the set-up that leaves the threads and the CPU alone.
LEMMA BootKeeps ==
    ASSUME SInv, UNCHANGED later, bstage # "run", bstage' # "run",
           ds' \in Nat, pics'.master.isr = {}
    PROVE  ThreadsSaved' /\ CpuSane' /\ FrameSane'
<1>1. cpu = "boot"
  BY DEF SInv, CpuSane
<1>2. ThreadsSaved'
  BY <1>1 DEF SInv, ThreadsSaved, later
<1>3. CpuSane'
  BY <1>1 DEF SInv, CpuSane, later
<1>4. FrameSane'
  BY <1>1 DEF SInv, FrameSane, later
<1> QED BY <1>2, <1>3, <1>4

LEMMA SetupKeeps ==
    ASSUME SInv,
           init_gdt \/ x86_init_idt \/ init_tss \/ init_int_controller \/ init_timer_interrupt
    PROVE  SInv'
<1>1. ds \in Nat /\ (bstage # "run" => pics.master.isr = {})
  BY DEF SInv, FrameSane, CpuSane
<1>2. CASE init_gdt
  <2>1. ds' \in Nat
    BY <1>2 DEF init_gdt, X86_SEGSEL_INIT, KSEG_KERNEL_DATA, PL_KERNEL
  <2>2. TablesSet'
    BY <1>2 DEF SInv, TablesSet, init_gdt, HasIdt, HasTss, HasTimer
  <2>3. ChipsSet'
    BY <1>2 DEF SInv, ChipsSet, init_gdt, HasPic
  <2> QED BY <1>1, <1>2, <2>1, <2>2, <2>3, BootKeeps DEF SInv, init_gdt
<1>3. CASE x86_init_idt
  <2>1. idt' = With([v \in HANDLERS |-> PL_KERNEL], IVEC_SYSCALL, PL_USER)
    BY <1>3 DEF x86_init_idt, x86_idt_add_isr
  <2>2. IVEC_SYSCALL \notin HANDLERS
    BY DEF IVEC_SYSCALL, HANDLERS, IVEC_IRQ_0, IRQ_TIMER
  <2>3. /\ DOMAIN idt' = HANDLERS \cup {IVEC_SYSCALL}
        /\ \A v \in HANDLERS : idt'[v] = PL_KERNEL
        /\ idt'[IVEC_SYSCALL] = PL_USER
    BY <2>1, <2>2 DEF With
  <2>4. TablesSet'
    BY <1>3, <2>3 DEF SInv, TablesSet, x86_init_idt, HasIdt, HasTss, HasTimer
  <2>5. ChipsSet'
    BY <1>3 DEF SInv, ChipsSet, x86_init_idt, HasPic
  <2> QED BY <1>1, <1>3, <2>4, <2>5, BootKeeps DEF SInv, x86_init_idt
<1>4. CASE init_tss
  <2>1. task' = KSEG_TSS
    BY <1>4 DEF init_tss, X86_SEGSEL_IDX, X86_SEGSEL_INIT, KSEG_TSS, PL_KERNEL
  <2>2. TablesSet'
    BY <1>4, <2>1 DEF SInv, TablesSet, init_tss, HasIdt, HasTss, HasTimer
  <2>3. ChipsSet'
    BY <1>4 DEF SInv, ChipsSet, init_tss, HasPic
  <2> QED BY <1>1, <1>4, <2>2, <2>3, BootKeeps DEF SInv, init_tss
<1>5. CASE init_int_controller
  <2>1. pics' = Programmed
    BY <1>5 DEF init_int_controller, Programmed
  <2>2. ChipsSet
    BY DEF SInv
  <2>3. ChipsSet' /\ pics'.master.isr = {}
    BY <2>1, <2>2, ControllersProgrammed DEF ChipsSet
  <2>4. TablesSet'
    BY <1>5 DEF SInv, TablesSet, init_int_controller, HasIdt, HasTss, HasTimer
  <2> QED BY <1>1, <1>5, <2>3, <2>4, BootKeeps DEF SInv, init_int_controller
<1>6. CASE init_timer_interrupt
  <2>1. TimerSet(pit')
    BY <1>6, TimerProgrammed DEF init_timer_interrupt, SInv, TablesSet, HasTimer
  <2>2. TablesSet'
    BY <1>6, <2>1 DEF SInv, TablesSet, init_timer_interrupt, HasIdt, HasTss, HasTimer
  <2>3. ChipsSet'
    BY <1>6 DEF SInv, ChipsSet, init_timer_interrupt, HasPic
  <2> QED BY <1>1, <1>6, <2>2, <2>3, BootKeeps DEF SInv, init_timer_interrupt
<1> QED BY <1>2, <1>3, <1>4, <1>5, <1>6

LEMMA BootDoneKeeps == SInv /\ BootDone => SInv'
<1> SUFFICES ASSUME SInv, BootDone PROVE SInv'
  OBVIOUS
<1>1. TablesSet'
  BY DEF SInv, TablesSet, BootDone, HasIdt, HasTss, HasTimer
<1>2. ChipsSet'
  BY DEF SInv, ChipsSet, BootDone, HasPic
<1>3. cpu = "boot"
  BY DEF SInv, CpuSane, BootDone
<1>4. ThreadsSaved'
  BY <1>3 DEF SInv, ThreadsSaved, BootDone
<1>5. CpuSane'
  BY <1>3 DEF SInv, CpuSane, BootDone
<1>6. FrameSane'
  BY DEF SInv, FrameSane, BootDone
<1> QED BY <1>1, <1>2, <1>4, <1>5, <1>6 DEF SInv

-----------------------------------------------------------------------------
(* Devices and faults. *)

LEMMA RaiseSane == ASSUME SInv, NEW irq \in {IRQ_TIMER, 1, 8}, RaiseLine(irq) PROVE SInv'
<1>1. TablesSet' /\ UNCHANGED bstage
  BY TablesStay DEF SInv, RaiseLine, tables
<1>2. SameLines /\ pics'.master.isr = pics.master.isr
  BY RaiseKeeps DEF SInv, RaiseLine
<1>3. ChipsSet'
  BY <1>1, <1>2, LinesStay DEF SInv, ChipsSet
<1>4. ThreadsSaved'
  BY DEF SInv, ThreadsSaved, RaiseLine, later
<1>5. CpuSane'
  BY <1>1, <1>2 DEF SInv, CpuSane, RaiseLine, later
<1>6. FrameSane'
  BY DEF SInv, FrameSane, RaiseLine, later
<1> QED BY <1>1, <1>3, <1>4, <1>5, <1>6 DEF SInv

\* The CPU takes interrupts and faults of programs when no line is in service.
LEMMA RunsFree ==
    ASSUME SInv, cpu \in {"user", "shell"}
    PROVE  bstage = "run" /\ pics.master.isr = {} /\ HasIdt /\ HasTss /\ HasPic
           /\ TablesSet /\ ChipsSet /\ kills \subseteq {"fault", "spurious"}
           /\ (cpu = "user" => iflag)
BY DEF SInv, CpuSane, HasIdt, HasTss, HasPic

LEMMA HardwareSane ==
    ASSUME SInv, NEW irq \in {IRQ_TIMER, 1, 8}, HardwareInterrupt(irq) PROVE SInv'
<1>1. cpu \in {"user", "shell"} /\ iflag
  BY DEF HardwareInterrupt, Takes
<1>2. irq = IRQ_TIMER
  BY <1>1, RunsFree, OnlyTimerOffered DEF HardwareInterrupt
<1>3. SameLines /\ pics'.master.isr = {IRQ_TIMER} /\ Vector(IRQ_TIMER) = IVEC_IRQ_0
  BY <1>1, <1>2, RunsFree, TimerTaken DEF HardwareInterrupt
<1>4. Entered(Tick) /\ kills' = kills
  BY <1>1, <1>2, <1>3, RunsFree, EnterTick DEF HardwareInterrupt
<1>5. TablesSet' /\ UNCHANGED bstage
  BY TablesStay DEF SInv, HardwareInterrupt, tables
<1>6. ChipsSet'
  BY <1>3, <1>5, LinesStay DEF SInv
<1>7. ThreadsSaved' /\ CpuSane' /\ FrameSane'
  BY <1>1, <1>4, <1>5, RunsFree, EnteredSane DEF HardwareInterrupt
<1> QED BY <1>5, <1>6, <1>7 DEF SInv

LEMMA SpuriousSane == SInv /\ SpuriousInterrupt => SInv'
<1> SUFFICES ASSUME SInv, SpuriousInterrupt PROVE SInv'
  OBVIOUS
<1>1. cpu \in {"user", "shell"} /\ iflag
  BY DEF SpuriousInterrupt, Takes
<1>2. SameLines /\ pics'.master.isr = {}
  BY <1>1, RunsFree, RequestTakenBack DEF SpuriousInterrupt
<1>3. pics.master.base + IRQ_MASTER_LOWEST_PRIORITY = 39
  BY <1>1, RunsFree DEF ChipsSet, IVEC_IRQ_0, IRQ_MASTER_LOWEST_PRIORITY
<1>4. Enter(39, FALSE, "spurious") /\ Gate(39, FALSE) = 11
  BY <1>1, <1>3, RunsFree, Gates DEF SpuriousInterrupt
<1>5. Entered(<<Call("exception")>>) /\ kills' = kills \cup {"spurious"}
  BY <1>1, <1>4, RunsFree, EnterException
<1>6. TablesSet' /\ UNCHANGED bstage
  BY TablesStay DEF SInv, SpuriousInterrupt, tables
<1>7. ChipsSet'
  BY <1>2, <1>6, LinesStay DEF SInv
<1>8. ThreadsSaved' /\ CpuSane' /\ FrameSane'
  BY <1>1, <1>2, <1>5, <1>6, RunsFree, EnteredSane DEF SpuriousInterrupt
<1> QED BY <1>6, <1>7, <1>8 DEF SInv

LEMMA FaultSane == SInv /\ UserFault => SInv'
<1> SUFFICES ASSUME SInv, UserFault PROVE SInv'
  OBVIOUS
<1>1. cpu = "user" /\ iflag
  BY RunsFree DEF UserFault
<1>2. Entered(<<Call("exception")>>) /\ kills' = kills \cup {"fault"}
  <2>1. CASE \E vec \in {0, 3, 14} : Enter(vec, FALSE, "fault")
    <3>1. PICK vec \in {0, 3, 14} : Enter(vec, FALSE, "fault")
      BY <2>1
    <3>2. Gate(vec, FALSE) \in {0, 11, 13, 14}
      BY <1>1, RunsFree, Gates
    <3> QED BY <1>1, <3>1, <3>2, RunsFree, EnterException
  <2>2. CASE Enter(IVEC_IRQ_0 + IRQ_TIMER, TRUE, "fault")
    <3>1. IVEC_IRQ_0 + IRQ_TIMER = IVEC_IRQ_0
      BY DEF IVEC_IRQ_0, IRQ_TIMER
    <3>2. Enter(IVEC_IRQ_0, TRUE, "fault") /\ Gate(IVEC_IRQ_0, TRUE) = 13
      BY <1>1, <2>2, <3>1, RunsFree, Gates
    <3> QED BY <1>1, <3>2, RunsFree, EnterException
  <2> QED BY <2>1, <2>2 DEF UserFault
<1>3. TablesSet' /\ UNCHANGED bstage
  BY TablesStay DEF SInv, UserFault, tables
<1>4. ChipsSet' /\ pics' = pics
  BY <1>3, ChipsStay DEF SInv, UserFault
<1>5. pics'.master.isr = {}
  BY <1>1, <1>4, RunsFree
<1>6. ThreadsSaved' /\ CpuSane' /\ FrameSane'
  BY <1>1, <1>2, <1>3, <1>5, RunsFree, EnteredSane DEF UserFault
<1> QED BY <1>3, <1>4, <1>6 DEF SInv

-----------------------------------------------------------------------------
(* System calls and handlers. *)

LEMMA SyscallSane == SInv /\ Syscall => SInv'
<1> SUFFICES ASSUME SInv, Syscall PROVE SInv'
  OBVIOUS
<1>1. cpu = "user" /\ iflag /\ ds = UserData /\ icur # 0 /\ ~live
  BY DEF SInv, Syscall, CpuSane, ThreadsSaved
<1>2. TablesSet' /\ UNCHANGED bstage
  BY TablesStay DEF SInv, Syscall, tables
<1>3. ChipsSet' /\ pics' = pics
  BY <1>2, ChipsStay DEF SInv, Syscall
<1>4. ThreadsSaved'
  BY <1>1 DEF SInv, ThreadsSaved, Syscall
<1>5. todo' \in Handlers
  BY DEF Syscall, Handlers
<1>6. CpuSane'
  BY <1>1, <1>2, <1>3, <1>5, RunsFree DEF CpuSane, Syscall
<1>7. frame' = [cpu |-> "user", ds |-> UserData, iflag |-> iflag] /\ cpu' = "handler"
      /\ ds' = KSEG_KERNEL_DATA /\ iflag' = FALSE /\ icur' = icur
  BY <1>1 DEF Syscall
<1>8. UserData \in Nat /\ KSEG_KERNEL_DATA \in Nat
  BY DEF UserData, X86_SEGSEL_INIT, KSEG_USER_DATA, PL_USER, KSEG_KERNEL_DATA
<1>9. FrameSane'
  BY <1>1, <1>7, <1>8 DEF SInv, FrameSane
<1> QED BY <1>2, <1>3, <1>4, <1>6, <1>9 DEF SInv

LEMMA EoiSane == SInv /\ SendEoi => SInv'
<1> SUFFICES ASSUME SInv, SendEoi PROVE SInv'
  OBVIOUS
<1>1. cpu = "handler" /\ todo # <<>> /\ Head(todo)[1] = "eoi"
  BY DEF SendEoi, InHandler
<1>2. todo = Tick /\ Head(todo)[2] = IRQ_TIMER /\ Tail(todo) = <<Call("preempt")>>
  BY <1>1, InService, HandlerFacts
<1>3. pics' = pic_send_eoi(pics, IRQ_TIMER) /\ todo' = <<Call("preempt")>>
  BY <1>2 DEF SendEoi
<1>4. /\ pics' \in [master : Controller, slave : Controller]
      /\ pics' = [pics EXCEPT !.master = [@ EXCEPT !.isr = {}]]
  BY <1>3, EoiServed DEF SInv
<1>5. SameLines /\ pics'.master.isr = {}
  BY <1>4 DEF SameLines, SInv, ChipsSet, Controller
<1>6. TablesSet' /\ UNCHANGED bstage
  BY TablesStay DEF SInv, SendEoi, tables
<1>7. ChipsSet'
  BY <1>5, <1>6, LinesStay DEF SInv
<1>8. ThreadsSaved'
  BY DEF SInv, ThreadsSaved, SendEoi
<1>9. CpuSane'
  BY <1>1, <1>3, <1>5, <1>6, InService DEF SInv, CpuSane, SendEoi, Handlers
<1>10. FrameSane'
  BY <1>1, <1>3 DEF SInv, FrameSane, SendEoi
<1> QED BY <1>6, <1>7, <1>8, <1>9, <1>10 DEF SInv

\* The kernel drops to a shell with interrupts off.
LEMMA ShellSane ==
    ASSUME SInv, cpu = "handler", pics.master.isr = {}, ToShell,
           UNCHANGED <<tables, pics, esp0, icur, ist, kont, frame, kills>>,
           live' \in BOOLEAN, live' => icur # 0
    PROVE  SInv'
<1>1. TablesSet' /\ UNCHANGED bstage
  BY TablesStay DEF SInv, tables
<1>2. ChipsSet'
  BY <1>1, ChipsStay DEF SInv
<1>3. icur # 0 => frame.ds = UserData
  BY InService
<1>4. ThreadsSaved'
  BY <1>3 DEF SInv, ThreadsSaved, ToShell
<1>5. CpuSane'
  BY <1>1, InService DEF SInv, CpuSane, ToShell
<1>6. FrameSane'
  BY DEF SInv, FrameSane, ToShell
<1> QED BY <1>1, <1>2, <1>4, <1>5, <1>6 DEF SInv

LEMMA KillSane == SInv /\ (KillProcess \/ ExitProcess) => SInv'
<1> SUFFICES ASSUME SInv, KillProcess \/ ExitProcess PROVE SInv'
  OBVIOUS
<1>1. CASE KillProcess
  <2>1. cpu = "handler" /\ todo # <<>> /\ Head(todo)[1] = "exception"
    BY <1>1 DEF KillProcess, InHandler
  <2>2. todo = <<Call("exception")>>
    BY <2>1, InService, HandlerFacts
  <2>3. pics.master.isr = {}
    BY <2>1, <2>2, InService, HandlersDiffer
  <2>4. live' \in BOOLEAN /\ (live' => icur # 0)
    BY <1>1 DEF KillProcess
  <2> QED BY <1>1, <2>1, <2>3, <2>4, ShellSane DEF KillProcess
<1>2. CASE ExitProcess
  <2>1. cpu = "handler" /\ todo # <<>> /\ Head(todo)[1] = "exit"
    BY <1>2 DEF ExitProcess, InHandler
  <2>2. todo = <<Call("exit")>>
    BY <2>1, InService, HandlerFacts
  <2>3. pics.master.isr = {}
    BY <2>1, <2>2, InService, HandlersDiffer
  <2>4. live' = FALSE
    BY <1>2, <2>1 DEF ExitProcess, SInv, ThreadsSaved
  <2> QED BY <1>2, <2>1, <2>3, <2>4, ShellSane DEF ExitProcess
<1> QED BY <1>1, <1>2

\* The current thread is saved: it will go on with what its handler had left.
LEMMA SavedSane ==
    ASSUME SInv, icur # 0, frame.ds = UserData, ~iflag,
           NEW rest \in {<<>>, <<Call("shell")>>}
    PROVE  Switchable(Saved(rest)[1], Saved(rest)[2])
<1>1. icur \in IThreads /\ UserData \in Nat
  BY DEF SInv, ThreadsSaved, UserData, X86_SEGSEL_INIT, KSEG_USER_DATA, PL_USER
<1>2. PICK st : st = [ist EXCEPT ![icur] = "saved"]
  OBVIOUS
<1>3. PICK ks : ks = [kont EXCEPT ![icur] = [todo |-> rest, ds |-> UserData]]
  OBVIOUS
<1>4. st \in [IThreads -> {"none", "new", "saved"}]
  BY <1>1, <1>2 DEF SInv, ThreadsSaved
<1>5. ks \in [IThreads -> [todo : {<<>>, <<Call("shell")>>}, ds : Nat]]
  BY <1>1, <1>3 DEF SInv, ThreadsSaved
<1>6. ASSUME NEW u \in IThreads, st[u] = "saved"
      PROVE  ks[u].ds = UserData
  BY <1>1, <1>2, <1>3, <1>6 DEF SInv, ThreadsSaved
<1>7. Saved(rest) = <<st, ks>>
  BY <1>2, <1>3 DEF Saved
<1> QED BY <1>4, <1>5, <1>6, <1>7 DEF Switchable

LEMMA PreemptSane == SInv /\ Preempt => SInv'
<1> SUFFICES ASSUME SInv, Preempt PROVE SInv'
  OBVIOUS
<1>1. cpu = "handler" /\ todo # <<>> /\ Head(todo)[1] = "preempt"
  BY DEF Preempt, InHandler
<1>2. todo = <<Call("preempt")>> /\ Tail(todo) = <<>>
  BY <1>1, InService, HandlerFacts
<1>3. pics.master.isr = {} /\ ~iflag /\ live' = FALSE /\ bstage = "run"
  BY <1>1, <1>2, InService, HandlersDiffer DEF Preempt
<1>4. CASE icur = 0
  BY <1>1, <1>3, <1>4, ShellSane DEF Preempt
<1>5. CASE icur # 0
  <2>1. frame.ds = UserData
    BY <1>1, <1>5, InService
  <2>2. Schedule(Saved(<<>>)[1], Saved(<<>>)[2])
    BY <1>2, <1>5 DEF Preempt
  <2>3. PICK st, ks : st = Saved(<<>>)[1] /\ ks = Saved(<<>>)[2]
    OBVIOUS
  <2>4. Switchable(st, ks)
    BY <1>3, <1>5, <2>1, <2>3, SavedSane
  <2>5. Schedule(st, ks)
    BY <2>2, <2>3
  <2>6. bstage' = bstage /\ pics' = pics /\ kills' = kills /\ UNCHANGED tables
    BY DEF Preempt, tables
  <2>7. ThreadsSaved' /\ CpuSane' /\ FrameSane'
    BY <1>3, <2>4, <2>5, <2>6, SwitchSane
  <2>8. TablesSet' /\ ChipsSet'
    BY <2>6, TablesStay, ChipsStay DEF SInv
  <2> QED BY <2>7, <2>8 DEF SInv
<1> QED BY <1>4, <1>5

LEMMA ExitSane == SInv /\ ThreadExit => SInv'
<1> SUFFICES ASSUME SInv, ThreadExit PROVE SInv'
  OBVIOUS
<1>1. cpu = "handler" /\ todo # <<>> /\ Head(todo)[1] = "thrd_exit"
  BY DEF ThreadExit, InHandler
<1>2. todo = <<Call("thrd_exit")>>
  BY <1>1, InService, HandlerFacts
<1>3. pics.master.isr = {} /\ ~iflag /\ live' = FALSE /\ bstage = "run"
  BY <1>1, <1>2, InService, HandlersDiffer DEF ThreadExit
<1>4. PICK st, ks : st = ist /\ ks = kont
  OBVIOUS
<1>5. Switchable(st, ks)
  BY <1>3, <1>4 DEF SInv, ThreadsSaved, Switchable
<1>6. Schedule(st, ks)
  BY <1>4 DEF ThreadExit
<1>7. bstage' = bstage /\ pics' = pics /\ kills' = kills /\ UNCHANGED tables
  BY DEF ThreadExit, tables
<1>8. ThreadsSaved' /\ CpuSane' /\ FrameSane'
  BY <1>3, <1>5, <1>6, <1>7, SwitchSane
<1>9. TablesSet' /\ ChipsSet'
  BY <1>7, TablesStay, ChipsStay DEF SInv
<1> QED BY <1>8, <1>9 DEF SInv

LEMMA CreateSane == SInv /\ ThreadCreate => SInv'
<1> SUFFICES ASSUME SInv, ThreadCreate PROVE SInv'
  OBVIOUS
<1>1. cpu = "handler" /\ todo # <<>> /\ Head(todo)[1] = "create"
  BY DEF ThreadCreate, InHandler
<1>2. todo = <<Call("create")>> /\ todo' = <<>>
  BY <1>1, InService, HandlerFacts DEF ThreadCreate
<1>3. pics.master.isr = {} /\ icur # 0 /\ frame.cpu = "user"
  BY <1>1, <1>2, InService, HandlersDiffer
<1>4. TablesSet' /\ ChipsSet'
  BY TablesStay, ChipsStay DEF SInv, ThreadCreate, tables
<1>5. PICK n \in IThreads : ist' = [ist EXCEPT ![n] = "new"]
  BY DEF ThreadCreate
<1>6. ThreadsSaved'
  BY <1>5 DEF SInv, ThreadsSaved, ThreadCreate
<1>7. CpuSane'
  BY <1>1, <1>2, <1>3, InService DEF SInv, CpuSane, ThreadCreate, tables, Handlers
<1>8. FrameSane'
  BY <1>3 DEF SInv, FrameSane, ThreadCreate
<1> QED BY <1>4, <1>6, <1>7, <1>8 DEF SInv

LEMMA IretSane == SInv /\ IretHandler => SInv'
<1> SUFFICES ASSUME SInv, IretHandler PROVE SInv'
  OBVIOUS
<1>1. cpu = "handler" /\ todo = <<>>
  BY DEF IretHandler
<1>2. todo # Tick /\ todo \notin {<<Call("exception")>>, Tick, <<Call("preempt")>>}
  BY <1>1, HandlersDiffer
<1>3. /\ bstage = "run" /\ ~live /\ pics.master.isr = {}
      /\ icur # 0 /\ frame.cpu = "user" /\ frame.ds = UserData /\ frame.iflag
  BY <1>1, <1>2, InService
<1>4. TablesSet' /\ ChipsSet'
  BY TablesStay, ChipsStay DEF SInv, IretHandler, tables
<1>5. ThreadsSaved'
  BY <1>3 DEF SInv, ThreadsSaved, IretHandler
<1>6. CpuSane'
  BY <1>3 DEF SInv, CpuSane, IretHandler, tables
<1>7. FrameSane'
  BY <1>3 DEF SInv, FrameSane, IretHandler
<1> QED BY <1>4, <1>5, <1>6, <1>7 DEF SInv

LEMMA ResumeSane == SInv /\ ShellResumes => SInv'
<1> SUFFICES ASSUME SInv, ShellResumes PROVE SInv'
  OBVIOUS
<1>1. cpu = "handler" /\ todo # <<>> /\ Head(todo)[1] = "shell"
  BY DEF ShellResumes, InHandler
<1>2. todo = <<Call("shell")>>
  BY <1>1, InService, HandlerFacts
<1>3. /\ bstage = "run" /\ ~iflag /\ pics.master.isr = {}
      /\ icur # 0 /\ frame.cpu = "user" /\ frame.ds = UserData
  BY <1>1, <1>2, InService, HandlersDiffer
<1>4. TablesSet' /\ ChipsSet'
  BY TablesStay, ChipsStay DEF SInv, ShellResumes, tables
<1>5. ThreadsSaved'
  BY <1>3 DEF SInv, ThreadsSaved, ShellResumes
<1>6. CpuSane'
  BY <1>3 DEF SInv, CpuSane, ShellResumes, tables
<1>7. FrameSane'
  BY <1>3 DEF SInv, FrameSane, ShellResumes
<1> QED BY <1>4, <1>5, <1>6, <1>7 DEF SInv

\* The boot shell, which can be interrupted, starts its program with no thread
\* saved; a later shell runs with interrupts off.
LEMMA StartSane == SInv /\ ShellStarts => SInv'
<1> SUFFICES ASSUME SInv, ShellStarts PROVE SInv'
  OBVIOUS
<1>1. cpu = "shell" /\ live' = FALSE /\ UNCHANGED tables
      /\ bstage' = bstage /\ pics' = pics /\ kills' = kills
  BY DEF ShellStarts, tables
<1>2. bstage = "run" /\ pics.master.isr = {}
  BY <1>1, RunsFree
<1>3. PICK sv : sv = IF live THEN Saved(<<Call("shell")>>) ELSE <<ist, kont>>
  OBVIOUS
<1>4. PICK n \in IThreads : Schedule([sv[1] EXCEPT ![n] = "new"], sv[2])
  BY <1>3 DEF ShellStarts
<1>5. Switchable(sv[1], sv[2])
  <2>1. CASE live
    <3>1. icur # 0 /\ frame.ds = UserData
      BY <2>1 DEF SInv, ThreadsSaved
    <3>2. ~iflag
      BY <1>1, <3>1 DEF SInv, CpuSane
    <3> QED BY <1>3, <2>1, <3>1, <3>2, SavedSane
  <2>2. CASE ~live
    <3>1. sv[1] = ist /\ sv[2] = kont
      BY <1>3, <2>2
    <3>2. \A u \in IThreads : ist[u] = "saved" => ~iflag
      BY <1>1 DEF SInv, CpuSane
    <3> QED BY <3>1, <3>2 DEF SInv, ThreadsSaved, Switchable
  <2> QED BY <2>1, <2>2 DEF SInv, ThreadsSaved
<1>6. PICK st, ks : st = [sv[1] EXCEPT ![n] = "new"] /\ ks = sv[2]
  OBVIOUS
<1>7. Switchable(st, ks)
  BY <1>5, <1>6 DEF Switchable
<1>8. Schedule(st, ks)
  BY <1>4, <1>6
<1>9. ThreadsSaved' /\ CpuSane' /\ FrameSane'
  BY <1>1, <1>2, <1>7, <1>8, SwitchSane
<1>10. TablesSet' /\ ChipsSet'
  BY <1>1, TablesStay, ChipsStay DEF SInv
<1> QED BY <1>9, <1>10 DEF SInv

-----------------------------------------------------------------------------
\* SInv holds of every state: the tables and chips stay as kernel_main set them
\* up, the one line that comes through is ended by the handler that is about to
\* switch threads, and every saved thread goes back to user code as it left it.
THEOREM InterruptsInductive == ISpec => []SInv
<1>1. SInv /\ UNCHANGED interrupts => SInv'
  <2> SUFFICES ASSUME SInv, UNCHANGED interrupts PROVE SInv'
    OBVIOUS
  <2>1. TablesSet' /\ ChipsSet'
    BY TablesStay, ChipsStay DEF SInv, interrupts, tables
  <2>2. ThreadsSaved' /\ CpuSane' /\ FrameSane'
    BY DEF SInv, ThreadsSaved, CpuSane, FrameSane, interrupts
  <2> QED BY <2>1, <2>2 DEF SInv
<1>2. SInv /\ InterruptsNext => SInv'
  <2> SUFFICES ASSUME SInv, InterruptsNext PROVE SInv'
    OBVIOUS
  <2>1. CASE \E irq \in {IRQ_TIMER, 1, 8} : RaiseLine(irq) \/ HardwareInterrupt(irq)
    BY <2>1, RaiseSane, HardwareSane
  <2> QED BY <2>1, SetupKeeps, BootDoneKeeps, SpuriousSane, FaultSane, SyscallSane, EoiSane,
             PreemptSane, ExitSane, CreateSane, KillSane, IretSane, StartSane, ResumeSane
             DEF InterruptsNext
<1> QED BY <1>1, <1>2, InitSane, PTL DEF ISpec

\* Whenever user code runs interrupts are enabled, no line is in service, the
\* timer ticks 1000 times a second and is not masked, DS is the user's and the
\* TSS names the stack of the thread that runs; the machine never resets and no
\* device kills a program but by a request the timer took back (interrupt.c:60,
\* process.c:310, x86_seg.c:347).
THEOREM InterruptsAlwaysServed == ISpec => []InterruptsServed
<1>1. SInv => InterruptsServed
  <2> SUFFICES ASSUME SInv PROVE InterruptsServed
    OBVIOUS
  <2>1. cpu # "reset" /\ kills \subseteq {"fault", "spurious"}
    BY DEF SInv, CpuSane
  <2>2. ASSUME cpu = "user"
        PROVE  /\ iflag /\ ds = UserData /\ esp0 = icur
               /\ pics.master.isr = {} /\ pics.slave.isr = {}
               /\ IRQ_TIMER \notin pics.master.mask
    BY <2>2, RunsFree DEF SInv, CpuSane, ThreadsSaved, ChipsSet
  <2>3. ASSUME cpu = "user"
        PROVE  PIT_BASE_HZ \div PitPeriod(pit) = 1000
    <3>1. pit.count = 1193
      BY <2>3, RunsFree DEF TablesSet, HasTimer, TimerSet
    <3>2. PitPeriod(pit) = 1193
      BY <3>1 DEF PitPeriod
    <3> QED BY <3>2 DEF PIT_BASE_HZ
  <2> QED BY <2>1, <2>2, <2>3 DEF InterruptsServed
<1> QED BY <1>1, InterruptsInductive, PTL
=============================================================================
