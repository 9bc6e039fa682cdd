------------------------- MODULE PhilosophersProofs -------------------------
(***************************************************************************)
(* Philosophers who share a fork never eat at once, on the table or on the *)
(* screen, and can only be stuck in the full circle, for every number of   *)
(* philosophers, every number of rounds and all options.                   *)
(***************************************************************************)
EXTENDS Philosophers, TLAPS

HoldsA(i) == pc[i] \in {"take_b", "eat", "full", "drop_b", "drop_a"}
HoldsB(i) == pc[i] \in {"eat", "full", "drop_b"}
Hands(i) == (IF HoldsA(i) THEN {forka(i)} ELSE {})
            \cup (IF HoldsB(i) THEN {forkb(i)} ELSE {})

\* A fork in a hand is locked, and in no other hand.
ForksHeld ==
    /\ \A i \in Phls : Hands(i) \subseteq locked
    /\ \A i, j \in Phls : i # j => Hands(i) \cap Hands(j) = {}
    /\ \A i \in Phls : HoldsB(i) => forka(i) # forkb(i)

\* A philosopher who eats holds both forks, and is drawn again before it puts
\* one down.
EatingHolds ==
    \A i \in Phls :
        /\ state[i] = "EATING" => pc[i] = "full"
        /\ screen[i] = "EATING" =>
              pc[i] = "full" \/ (pc[i] = "drop_b" /\ phase[i] # "go")

Round == {"hungry", "take_a", "take_b", "eat", "full", "drop_b", "drop_a", "next"}
\* Inside the loop's body the round counter is below its end.
InRound == \A i \in Phls : pc[i] \in Round => loop[i] < phl_loops

\* main has not created the philosophers it has not come to.
Uncreated == main.at = "create" => \A j \in Phls : main.i <= j => pc[j] = "unborn"

PInv == TypeOK /\ InRound /\ Uncreated /\ ForksHeld /\ EatingHolds

LEMMA ForkRange ==
    ASSUME NEW i \in Phls
    PROVE  forka(i) \in Phls /\ forkb(i) \in Phls /\ print_mtx \notin Phls
<1>1. nthreads \in Nat /\ nthreads > 0 /\ i \in Int
  BY PhlAssumption DEF Phls
<1>2. (i + 1) % nthreads \in 0 .. nthreads - 1
  BY <1>1
<1> QED BY <1>1, <1>2 DEF forka, forkb, fork_left, fork_right, Phls, print_mtx

LEMMA PInit == Init => PInv
<1> SUFFICES ASSUME Init PROVE PInv
  OBVIOUS
<1>1. TypeOK
  <2>1. left_handed \in BOOLEAN /\ exit_first_finished \in BOOLEAN
    BY DEF Init
  <2>2. main \in [at : {"create", "join", "end"}, i : Phls]
    BY PhlAssumption DEF Init, Phls
  <2>3. /\ locked \subseteq Mutexes
        /\ pc \in [Phls -> Places]
        /\ phase \in [Phls -> {"go", "print", "draw"}]
        /\ loop \in [Phls -> 0 .. phl_loops]
        /\ state \in [Phls -> PhlStates]
        /\ screen \in [Phls -> Drawn]
    BY PhlAssumption DEF Init, mtx_init, Places, PhlStates, Drawn
  <2> QED BY <2>1, <2>2, <2>3 DEF TypeOK
<1>2. ForksHeld
  BY DEF Init, ForksHeld, Hands, HoldsA, HoldsB
<1>3. EatingHolds /\ InRound /\ Uncreated
  BY DEF Init, EatingHolds, InRound, Round, Uncreated
<1> QED BY <1>1, <1>2, <1>3 DEF PInv

\* What a step leaves alone keeps the forks in the same hands.
LEMMA SameHands ==
    ASSUME PInv, UNCHANGED <<left_handed, pc>>,
           locked \cap Phls \subseteq locked'
    PROVE  ForksHeld'
<1>1. \A i \in Phls : forka(i)' = forka(i) /\ forkb(i)' = forkb(i)
                      /\ (HoldsA(i)' <=> HoldsA(i)) /\ (HoldsB(i)' <=> HoldsB(i))
                      /\ Hands(i)' = Hands(i)
  BY DEF forka, forkb, lefty, HoldsA, HoldsB, Hands
<1>2. \A i \in Phls : Hands(i) \subseteq Phls
  BY ForkRange DEF Hands
<1> QED BY <1>1, <1>2 DEF PInv, ForksHeld

\* A step of philosopher i that changes its place: what the invariant asks of
\* its hands before and after.
LEMMA HandStep ==
    ASSUME PInv, NEW i \in Phls, NEW q \in Places,
           UNCHANGED left_handed,
           pc' = [pc EXCEPT ![i] = q],
           \A j \in Phls \ {i} : Hands(j) \subseteq locked',
           Hands(i)' \subseteq locked',
           \A j \in Phls \ {i} : Hands(i)' \cap Hands(j) = {},
           HoldsB(i)' => forka(i) # forkb(i)
    PROVE  ForksHeld'
<1>1. \A j \in Phls : forka(j)' = forka(j) /\ forkb(j)' = forkb(j)
  BY DEF forka, forkb, lefty
<1>2. \A j \in Phls \ {i} : pc'[j] = pc[j]
  BY DEF PInv, TypeOK
<1>3. \A j \in Phls \ {i} : Hands(j)' = Hands(j) /\ (HoldsB(j)' <=> HoldsB(j))
  BY <1>1, <1>2 DEF Hands, HoldsA, HoldsB
<1> QED BY <1>1, <1>3 DEF PInv, ForksHeld

\* Types.
LEMMA GoesType ==
    ASSUME TypeOK, NEW i \in Phls, NEW p, NEW q \in Places, Goes(i, p, q),
           locked' \subseteq Mutexes, state' \in [Phls -> PhlStates]
    PROVE  TypeOK'
<1>1. left_handed' \in BOOLEAN /\ exit_first_finished' \in BOOLEAN
  BY DEF Goes, TypeOK
<1>2. /\ pc' \in [Phls -> Places]
      /\ phase' \in [Phls -> {"go", "print", "draw"}]
      /\ UNCHANGED <<loop, screen, main>>
  BY DEF Goes, TypeOK
<1> QED BY <1>1, <1>2 DEF TypeOK

LEMMA TypeStep == TypeOK /\ InRound /\ Next => TypeOK'
<1> SUFFICES ASSUME TypeOK, InRound, Next PROVE TypeOK'
  OBVIOUS
<1>1. /\ \A i \in Phls : forka(i) \in Mutexes /\ forkb(i) \in Mutexes
      /\ print_mtx \in Mutexes
  BY ForkRange, PhlAssumption DEF Phls, Mutexes, print_mtx
<1>2. left_handed' = left_handed /\ exit_first_finished' = exit_first_finished
  BY DEF Next, phl_main, MainCreate, MainJoin, Goes, Think, GetHungry, TakeA,
         TakeB, Eat, Full, DropB, DropA, NextRound, PrintLock, PrintDraw,
         Finish, ExitProgram
<1>3. left_handed' \in BOOLEAN /\ exit_first_finished' \in BOOLEAN
  BY <1>2 DEF TypeOK
<1>4. \A k \in Phls : k + 1 < nthreads => k + 1 \in Phls
  BY PhlAssumption DEF Phls
<1>5. 0 \in Phls
  BY PhlAssumption DEF Phls
<1>6. CASE MainCreate
  <2>1. /\ pc' \in [Phls -> Places]
        /\ UNCHANGED <<locked, phase, loop, state, screen>>
    BY <1>6 DEF MainCreate, TypeOK, Places
  <2>2. main' \in [at : {"create", "join", "end"}, i : Phls]
    BY <1>4, <1>5, <1>6 DEF MainCreate, TypeOK
  <2> QED BY <1>3, <2>1, <2>2 DEF TypeOK
<1>7. CASE MainJoin
  <2>1. main' \in [at : {"create", "join", "end"}, i : Phls]
    BY <1>4, <1>5, <1>7 DEF MainJoin, TypeOK
  <2> QED BY <1>3, <1>7, <2>1 DEF MainJoin, TypeOK
<1>8. ASSUME NEW i \in Phls, phl_main(i) PROVE TypeOK'
  <2>1. CASE Think(i) \/ GetHungry(i) \/ Eat(i) \/ Full(i)
    <3>1. locked' = locked /\ state' \in [Phls -> PhlStates]
      BY <2>1 DEF Think, GetHungry, Eat, Full, Becomes, TypeOK, PhlStates
    <3>2. PICK q, p \in Places : Goes(i, p, q)
      BY <2>1 DEF Think, GetHungry, Eat, Full, Places
    <3> QED BY <3>1, <3>2, GoesType DEF TypeOK
  <2>2. CASE TakeA(i) \/ TakeB(i) \/ DropB(i) \/ DropA(i)
    <3>1. locked' \subseteq Mutexes /\ state' = state
      BY <1>1, <2>2 DEF TakeA, TakeB, DropB, DropA, mtx_lock, mtx_unlock, TypeOK
    <3>2. PICK q, p \in Places : Goes(i, p, q)
      BY <2>2 DEF TakeA, TakeB, DropB, DropA, Places
    <3> QED BY <3>1, <3>2, GoesType DEF TypeOK
  <2>3. CASE NextRound(i)
    <3>1. pc' \in [Phls -> Places] /\ UNCHANGED <<locked, phase, state, screen, main>>
      BY <2>3 DEF NextRound, TypeOK, Places
    <3>2. loop' \in [Phls -> 0 .. phl_loops]
      <4>1. loop[i] < phl_loops
        BY <2>3 DEF NextRound, InRound, Round
      <4>2. loop[i] + 1 \in 0 .. phl_loops
        BY <4>1, PhlAssumption DEF TypeOK
      <4> QED BY <2>3, <4>2 DEF NextRound, TypeOK
    <3> QED BY <1>3, <3>1, <3>2 DEF TypeOK
  <2>4. CASE PrintLock(i) \/ PrintDraw(i)
    <3>1. locked' \subseteq Mutexes /\ phase' \in [Phls -> {"go", "print", "draw"}]
      BY <1>1, <2>4 DEF PrintLock, PrintDraw, mtx_lock, mtx_unlock, TypeOK
    <3>2. screen' \in [Phls -> Drawn] /\ UNCHANGED <<pc, loop, state, main>>
      BY <2>4 DEF PrintLock, PrintDraw, TypeOK, Drawn
    <3> QED BY <1>3, <3>1, <3>2 DEF TypeOK
  <2>5. CASE Finish(i)
    <3>1. locked' \subseteq Mutexes /\ pc' \in [Phls -> Places]
      BY <1>1, <2>5 DEF Finish, mtx_lock, TypeOK, Places
    <3> QED BY <1>3, <2>5, <3>1 DEF Finish, TypeOK
  <2>6. CASE ExitProgram(i)
    <3>1. main' \in [at : {"create", "join", "end"}, i : Phls]
      BY <1>5, <2>6 DEF ExitProgram
    <3> QED BY <1>3, <2>6, <3>1 DEF ExitProgram, TypeOK
  <2> QED BY <1>8, <2>1, <2>2, <2>3, <2>4, <2>5, <2>6 DEF phl_main
<1> QED BY <1>6, <1>7, <1>8 DEF Next

LEMMA RoundStep == TypeOK /\ InRound /\ Next => InRound'
<1> SUFFICES ASSUME TypeOK, InRound, Next PROVE InRound'
  OBVIOUS
<1>1. CASE MainCreate \/ MainJoin
  BY <1>1 DEF MainCreate, MainJoin, InRound, Round, TypeOK
<1>2. ASSUME NEW i \in Phls, NEW p \in Round \cup {"think"}, NEW q, Goes(i, p, q),
             p = "think" => loop_on(i)
      PROVE  InRound'
  <2>1. loop[i] < phl_loops
    BY <1>2 DEF Goes, InRound, loop_on
  <2> QED BY <1>2, <2>1 DEF Goes, InRound, TypeOK
<1>3. ASSUME NEW i \in Phls, phl_main(i) PROVE InRound'
  <2>1. CASE Think(i)
    BY <1>2, <2>1 DEF Think
  <2>2. CASE GetHungry(i) \/ Eat(i) \/ Full(i) \/ TakeA(i) \/ TakeB(i)
             \/ DropB(i) \/ DropA(i)
    <3>1. PICK p \in Round, q \in Places : Goes(i, p, q)
      BY <2>2 DEF GetHungry, Eat, Full, TakeA, TakeB, DropB, DropA, Round, Places
    <3>2. p # "think"
      BY <3>1 DEF Round
    <3> QED BY <1>2, <3>1, <3>2
  <2>3. CASE NextRound(i)
    BY <2>3 DEF NextRound, InRound, Round, TypeOK
  <2>4. CASE PrintLock(i) \/ PrintDraw(i) \/ ExitProgram(i)
    BY <2>4 DEF PrintLock, PrintDraw, ExitProgram, InRound
  <2>5. CASE Finish(i)
    BY <2>5 DEF Finish, InRound, Round, TypeOK
  <2> QED BY <1>3, <2>1, <2>2, <2>3, <2>4, <2>5 DEF phl_main
<1> QED BY <1>1, <1>3 DEF Next

\* Forks change hands through the mutex only.
LEMMA ForksStep == PInv /\ Next => ForksHeld'
<1> SUFFICES ASSUME PInv, Next PROVE ForksHeld'
  OBVIOUS
<1> USE DEF PInv
<1>0. /\ pc \in [Phls -> Places]
      /\ \A i \in Phls : /\ Hands(i) \subseteq locked
                         /\ Hands(i) \subseteq Phls
                         /\ HoldsB(i) => HoldsA(i) /\ forka(i) # forkb(i)
                         /\ HoldsA(i) <=> forka(i) \in Hands(i)
      /\ \A i, j \in Phls : i # j => Hands(i) \cap Hands(j) = {}
  BY ForkRange, SMTT(30) DEF TypeOK, ForksHeld, Hands, HoldsA, HoldsB
\* A philosopher whose hands do not change.
<1>1. ASSUME NEW i \in Phls, NEW q \in Places, UNCHANGED left_handed,
             pc' = [pc EXCEPT ![i] = q],
             locked \cap Phls \subseteq locked',
             HoldsA(i)' <=> HoldsA(i), HoldsB(i)' <=> HoldsB(i)
      PROVE  ForksHeld'
  <2>1. forka(i)' = forka(i) /\ forkb(i)' = forkb(i)
    BY <1>1 DEF forka, forkb, lefty
  <2>2. Hands(i)' = Hands(i)
    BY <1>1, <2>1 DEF Hands
  <2>3. /\ \A j \in Phls \ {i} : Hands(j) \subseteq locked'
        /\ Hands(i)' \subseteq locked'
        /\ \A j \in Phls \ {i} : Hands(i)' \cap Hands(j) = {}
        /\ HoldsB(i)' => forka(i) # forkb(i)
    BY <1>0, <1>1, <2>2
  <2> QED BY <1>1, <2>3, HandStep
\* A philosopher whose hands are empty afterwards.
<1>2. ASSUME NEW i \in Phls, NEW q \in {"think", "exit", "done", "next"},
             UNCHANGED left_handed, pc' = [pc EXCEPT ![i] = q],
             \A j \in Phls \ {i} : Hands(j) \subseteq locked'
      PROVE  ForksHeld'
  <2>1. q \in Places /\ pc'[i] = q
    BY <1>0, <1>2 DEF Places
  <2>2. ~HoldsA(i)' /\ ~HoldsB(i)'
    BY <2>1 DEF HoldsA, HoldsB
  <2>3. Hands(i)' = {}
    BY <2>2 DEF Hands
  <2> QED BY <1>2, <2>1, <2>2, <2>3, HandStep
<1>3. CASE MainJoin
  BY <1>3, SameHands DEF MainJoin
<1>4. CASE MainCreate
  <2>1. PICK k \in Phls : k = main.i
    BY DEF TypeOK
  <2>2. pc' = [pc EXCEPT ![k] = "think"] /\ UNCHANGED <<left_handed, locked>>
    BY <1>4, <2>1 DEF MainCreate
  <2> QED BY <1>0, <1>2, <2>2
<1>5. ASSUME NEW i \in Phls, phl_main(i) PROVE ForksHeld'
  <2>0. /\ forka(i) \in Phls /\ forkb(i) \in Phls /\ print_mtx \notin Phls
        /\ UNCHANGED left_handed => forka(i)' = forka(i) /\ forkb(i)' = forkb(i)
    BY ForkRange DEF forka, forkb, lefty
  <2>1. CASE Think(i) \/ GetHungry(i) \/ Eat(i) \/ Full(i)
    <3>1. PICK p \in Places, q \in Places :
            /\ Goes(i, p, q)
            /\ <<p, q>> \in {<<"think", "hungry">>, <<"hungry", "take_a">>,
                             <<"eat", "full">>, <<"full", "drop_b">>}
      BY <2>1 DEF Think, GetHungry, Eat, Full, Places
    <3>2. pc[i] = p /\ pc' = [pc EXCEPT ![i] = q] /\ UNCHANGED <<left_handed, locked>>
      BY <2>1, <3>1 DEF Goes, Think, GetHungry, Eat, Full
    <3>3. pc'[i] = q
      BY <1>0, <3>2
    <3>4. (HoldsA(i)' <=> HoldsA(i)) /\ (HoldsB(i)' <=> HoldsB(i))
      BY <3>1, <3>2, <3>3 DEF HoldsA, HoldsB
    <3> QED BY <1>1, <3>2, <3>4
  <2>2. CASE TakeA(i)
    <3>1. /\ pc[i] = "take_a" /\ pc' = [pc EXCEPT ![i] = "take_b"]
          /\ UNCHANGED left_handed
          /\ forka(i) \notin locked /\ locked' = locked \cup {forka(i)}
      BY <2>2 DEF TakeA, Goes, mtx_lock
    <3>2. pc'[i] = "take_b" /\ "take_b" \in Places
      BY <1>0, <3>1 DEF Places
    <3>3. Hands(i)' = {forka(i)} /\ ~HoldsB(i)'
      BY <2>0, <3>1, <3>2 DEF Hands, HoldsA, HoldsB
    <3>4. /\ \A j \in Phls \ {i} : Hands(j) \subseteq locked'
          /\ \A j \in Phls \ {i} : Hands(i)' \cap Hands(j) = {}
      BY <1>0, <3>1, <3>3
    <3> QED BY <3>1, <3>2, <3>3, <3>4, HandStep
  <2>3. CASE TakeB(i)
    <3>1. /\ pc[i] = "take_b" /\ pc' = [pc EXCEPT ![i] = "eat"]
          /\ UNCHANGED left_handed
          /\ forkb(i) \notin locked /\ locked' = locked \cup {forkb(i)}
      BY <2>3 DEF TakeB, Goes, mtx_lock
    <3>2. pc'[i] = "eat" /\ "eat" \in Places
      BY <1>0, <3>1 DEF Places
    <3>3. /\ Hands(i)' = {forka(i), forkb(i)}
          /\ Hands(i) = {forka(i)}
      BY <2>0, <3>1, <3>2 DEF Hands, HoldsA, HoldsB
    <3>4. forka(i) # forkb(i)
      BY <1>0, <3>1, <3>3
    <3>5. \A j \in Phls \ {i} : Hands(i)' \cap Hands(j) = {}
      BY <1>0, <3>1, <3>3
    <3> QED BY <1>0, <3>1, <3>2, <3>3, <3>4, <3>5, HandStep
  <2>4. CASE DropB(i)
    <3>1. /\ pc[i] = "drop_b" /\ pc' = [pc EXCEPT ![i] = "drop_a"]
          /\ UNCHANGED left_handed /\ locked' = locked \ {forkb(i)}
      BY <2>4 DEF DropB, Goes, mtx_unlock
    <3>2. pc'[i] = "drop_a" /\ "drop_a" \in Places
      BY <1>0, <3>1 DEF Places
    <3>3. /\ Hands(i)' = {forka(i)} /\ ~HoldsB(i)'
          /\ Hands(i) = {forka(i), forkb(i)} /\ forka(i) # forkb(i)
      BY <1>0, <2>0, <3>1, <3>2 DEF Hands, HoldsA, HoldsB
    <3>4. /\ \A j \in Phls \ {i} : Hands(j) \subseteq locked'
          /\ Hands(i)' \subseteq locked'
          /\ \A j \in Phls \ {i} : Hands(i)' \cap Hands(j) = {}
      BY <1>0, <3>1, <3>3
    <3> QED BY <3>1, <3>2, <3>3, <3>4, HandStep
  <2>5. CASE DropA(i)
    <3>1. /\ pc[i] = "drop_a" /\ pc' = [pc EXCEPT ![i] = "next"]
          /\ UNCHANGED left_handed /\ locked' = locked \ {forka(i)}
      BY <2>5 DEF DropA, Goes, mtx_unlock
    <3>2. Hands(i) = {forka(i)}
      BY <3>1 DEF Hands, HoldsA, HoldsB
    <3> QED BY <1>0, <1>2, <3>1, <3>2
  <2>6. CASE NextRound(i) \/ Finish(i)
    <3>1. /\ UNCHANGED left_handed
          /\ \E q \in {"think", "exit", "done"} : pc' = [pc EXCEPT ![i] = q]
          /\ locked \subseteq locked'
      BY <2>6 DEF NextRound, Finish, mtx_lock
    <3> QED BY <1>0, <1>2, <3>1
  <2>7. CASE PrintLock(i) \/ PrintDraw(i) \/ ExitProgram(i)
    <3>1. UNCHANGED <<left_handed, pc>> /\ locked \cap Phls \subseteq locked'
      BY <2>0, <2>7 DEF PrintLock, PrintDraw, ExitProgram, mtx_lock, mtx_unlock
    <3> QED BY <3>1, SameHands
  <2> QED BY <1>5, <2>1, <2>2, <2>3, <2>4, <2>5, <2>6, <2>7 DEF phl_main
<1> QED BY <1>3, <1>4, <1>5 DEF Next

\* What is drawn follows what is done, before a fork is put down.
LEMMA EatingStep == PInv /\ Next => EatingHolds'
<1> SUFFICES ASSUME PInv, Next PROVE EatingHolds'
  OBVIOUS
<1>0. /\ pc \in [Phls -> Places] /\ phase \in [Phls -> {"go", "print", "draw"}]
      /\ state \in [Phls -> PhlStates] /\ screen \in [Phls -> Drawn]
      /\ EatingHolds
  BY DEF PInv, TypeOK
<1>1. CASE MainJoin
  BY <1>0, <1>1 DEF MainJoin, EatingHolds
<1>2. CASE MainCreate
  <2>1. PICK k \in Phls : k = main.i
    BY DEF PInv, TypeOK
  <2>2. /\ pc[k] = "unborn" /\ pc' = [pc EXCEPT ![k] = "think"]
        /\ UNCHANGED <<phase, state, screen>>
    BY <1>2, <2>1 DEF MainCreate, PInv, Uncreated, Phls
  <2> QED BY <1>0, <2>2 DEF EatingHolds
<1>3. ASSUME NEW i \in Phls, phl_main(i) PROVE EatingHolds'
  <2>1. ASSUME NEW p, NEW q, Goes(i, p, q), p # "full",
               UNCHANGED state \/ \E st \in {"THINKING", "HUNGRY"} : Becomes(i, st)
        PROVE  EatingHolds'
    <3>1. /\ pc[i] = p /\ phase[i] = "go" /\ screen' = screen
          /\ pc' = [pc EXCEPT ![i] = q] /\ phase' = [phase EXCEPT ![i] = "print"]
      BY <2>1 DEF Goes
    <3>2. state[i] # "EATING" /\ screen[i] # "EATING"
      BY <1>0, <2>1, <3>1 DEF EatingHolds
    <3>3. state'[i] # "EATING" /\ \A j \in Phls \ {i} : state'[j] = state[j]
      BY <1>0, <2>1, <3>2 DEF Becomes
    <3> QED BY <1>0, <3>1, <3>2, <3>3 DEF EatingHolds
  <2>2. CASE Think(i) \/ GetHungry(i) \/ TakeA(i) \/ TakeB(i) \/ DropB(i) \/ DropA(i)
    BY <2>1, <2>2 DEF Think, GetHungry, TakeA, TakeB, DropB, DropA
  <2>3. CASE Eat(i)
    <3>1. /\ pc[i] = "eat" /\ screen' = screen
          /\ pc' = [pc EXCEPT ![i] = "full"] /\ phase' = [phase EXCEPT ![i] = "print"]
          /\ state' = [state EXCEPT ![i] = "EATING"]
      BY <2>3 DEF Eat, Goes, Becomes
    <3> QED BY <1>0, <3>1 DEF EatingHolds
  <2>4. CASE Full(i)
    <3>1. /\ pc[i] = "full" /\ screen' = screen
          /\ pc' = [pc EXCEPT ![i] = "drop_b"] /\ phase' = [phase EXCEPT ![i] = "print"]
          /\ state' = [state EXCEPT ![i] = "FULL"]
      BY <2>4 DEF Full, Goes, Becomes
    <3> QED BY <1>0, <3>1 DEF EatingHolds
  <2>5. CASE NextRound(i) \/ Finish(i)
    <3>1. /\ pc[i] \in {"next", "think"}
          /\ \E q \in {"think", "exit", "done"} : pc' = [pc EXCEPT ![i] = q]
          /\ UNCHANGED <<phase, state, screen>>
      BY <2>5 DEF NextRound, Finish
    <3> QED BY <1>0, <3>1 DEF EatingHolds
  <2>6. CASE PrintLock(i)
    <3>1. /\ UNCHANGED <<pc, state, screen>> /\ phase' = [phase EXCEPT ![i] = "draw"]
      BY <2>6 DEF PrintLock
    <3> QED BY <1>0, <3>1 DEF EatingHolds
  <2>7. CASE PrintDraw(i)
    <3>1. /\ UNCHANGED <<pc, state>> /\ phase' = [phase EXCEPT ![i] = "go"]
          /\ screen' = [screen EXCEPT ![i] = state[i]]
      BY <2>7 DEF PrintDraw
    <3> QED BY <1>0, <3>1 DEF EatingHolds
  <2>8. CASE ExitProgram(i)
    BY <1>0, <2>8 DEF ExitProgram, EatingHolds
  <2> QED BY <1>3, <2>2, <2>3, <2>4, <2>5, <2>6, <2>7, <2>8 DEF phl_main
<1> QED BY <1>1, <1>2, <1>3 DEF Next

LEMMA UncreatedStep == TypeOK /\ Uncreated /\ Next => Uncreated'
<1> SUFFICES ASSUME TypeOK, Uncreated, Next PROVE Uncreated'
  OBVIOUS
<1>0. main.i \in Int /\ \A j \in Phls : j \in Int
  BY PhlAssumption DEF TypeOK, Phls
<1>1. CASE MainCreate
  BY <1>0, <1>1 DEF MainCreate, Uncreated, TypeOK
<1>2. CASE MainJoin
  BY <1>2 DEF MainJoin, Uncreated, TypeOK
<1>3. ASSUME NEW i \in Phls, phl_main(i) PROVE Uncreated'
  <2>1. CASE ExitProgram(i)
    BY <2>1 DEF ExitProgram, Uncreated
  <2>2. CASE PrintLock(i) \/ PrintDraw(i)
    BY <2>2 DEF PrintLock, PrintDraw, Uncreated
  <2>3. CASE ~(ExitProgram(i) \/ PrintLock(i) \/ PrintDraw(i))
    <3>1. main' = main /\ pc[i] # "unborn" /\ \E q : pc' = [pc EXCEPT ![i] = q]
      BY <1>3, <2>3 DEF phl_main, Goes, Think, GetHungry, TakeA, TakeB, Eat, Full,
                        DropB, DropA, NextRound, Finish
    <3> QED BY <3>1 DEF Uncreated, TypeOK
  <2> QED BY <2>1, <2>2, <2>3
<1> QED BY <1>1, <1>2, <1>3 DEF Next

\* PInv is inductive.
LEMMA PNext == PInv /\ [Next]_vars => PInv'
<1> SUFFICES ASSUME PInv, [Next]_vars PROVE PInv'
  OBVIOUS
<1>1. CASE Next
  BY <1>1, TypeStep, RoundStep, UncreatedStep, ForksStep, EatingStep DEF PInv
<1>2. CASE UNCHANGED vars
  <2>1. TypeOK'
    <3>1. left_handed' \in BOOLEAN /\ exit_first_finished' \in BOOLEAN
      BY <1>2 DEF vars, PInv, TypeOK
    <3> QED BY <1>2, <3>1 DEF vars, PInv, TypeOK
  <2>2. ForksHeld'
    BY <1>2, SameHands DEF vars
  <2> QED BY <1>2, <2>1, <2>2 DEF vars, PInv, InRound, Uncreated, EatingHolds
<1> QED BY <1>1, <1>2

\* Two philosophers who share a fork never eat at the same time and are never
\* shown eating at the same time, however many dine and whatever the options.
THEOREM NeighboursNeverEat == Spec => []EatExclusive
<1>1. PInv => EatExclusive
  <2> SUFFICES ASSUME PInv, NEW i \in Phls, NEW j \in Phls, Neighbours(i, j)
               PROVE  ~(HoldsB(i) /\ HoldsB(j))
    BY DEF EatExclusive, PInv, EatingHolds, HoldsB
  <2> SUFFICES ASSUME HoldsB(i), HoldsB(j) PROVE FALSE
    OBVIOUS
  <2>1. HoldsA(i) /\ HoldsA(j)
    BY DEF HoldsA, HoldsB
  <2>2. fork_left(i) = j /\ fork_right(j) = j /\ i # j
    BY DEF Neighbours, fork_left, fork_right
  <2>3. j \in Hands(i) /\ j \in Hands(j)
    BY <2>1, <2>2 DEF Hands, forka, forkb
  <2> QED BY <2>2, <2>3 DEF PInv, ForksHeld
<1> QED BY <1>1, PInit, PNext, PTL DEF Spec

\* phl_main's round counter and all other variables keep their types.
THEOREM PhilosophersType == Spec => []TypeOK
<1>1. PInv => TypeOK
  BY DEF PInv
<1> QED BY <1>1, PInit, PNext, PTL DEF Spec

-----------------------------------------------------------------------------
(* Deadlock.  Whoever waits, waits for a mutex that somebody holds. *)

\* A locked fork is in somebody's hand.
ForksOwned == \A f \in locked \cap Phls : \E i \in Phls : f \in Hands(i)
\* print_mtx is held by the philosopher that draws or by the one that exits.
PrintOwned == print_mtx \in locked =>
                \E i \in Phls : phase[i] = "draw" \/ pc[i] = "exit"
\* A philosopher leaves the loop after its last phl_print.
DoneDrawn == \A i \in Phls : pc[i] \in {"done", "exit"} => phase[i] = "go"

QInv == PInv /\ ForksOwned /\ PrintOwned /\ DoneDrawn

\* The places that a step of philosopher i leaves alone.
LEMMA OthersStay ==
    ASSUME TypeOK, NEW i \in Phls, phl_main(i)
    PROVE  /\ UNCHANGED <<left_handed, exit_first_finished>>
           /\ \E q \in Places : pc' = [pc EXCEPT ![i] = q]
           /\ \A j \in Phls : j # i => pc'[j] = pc[j] /\ phase'[j] = phase[j]
<1>1. pc \in [Phls -> Places] /\ phase \in [Phls -> {"go", "print", "draw"}]
  BY DEF TypeOK
<1>2. ASSUME NEW p, NEW q \in Places, Goes(i, p, q)
      PROVE  /\ UNCHANGED <<left_handed, exit_first_finished>>
             /\ pc' = [pc EXCEPT ![i] = q]
             /\ \A j \in Phls : j # i => pc'[j] = pc[j] /\ phase'[j] = phase[j]
  BY <1>1, <1>2 DEF Goes
<1>3. CASE \/ Think(i) \/ GetHungry(i) \/ TakeA(i) \/ TakeB(i) \/ Eat(i) \/ Full(i)
           \/ DropB(i) \/ DropA(i)
  <2>1. \E p, q \in Places : Goes(i, p, q)
    BY <1>3 DEF Think, GetHungry, TakeA, TakeB, Eat, Full, DropB, DropA, Places
  <2> QED BY <1>2, <2>1
<1>4. CASE NextRound(i) \/ Finish(i)
  BY <1>1, <1>4 DEF NextRound, Finish, Places
<1>5. CASE PrintLock(i) \/ PrintDraw(i) \/ ExitProgram(i)
  <2>1. pc' = pc /\ pc = [pc EXCEPT ![i] = pc[i]] /\ pc[i] \in Places
    BY <1>1, <1>5 DEF PrintLock, PrintDraw, ExitProgram
  <2> QED BY <1>1, <1>5, <2>1 DEF PrintLock, PrintDraw, ExitProgram
<1> QED BY <1>3, <1>4, <1>5 DEF phl_main

\* A philosopher locks only what it then holds and unlocks what it held.
LEMMA LocksAreHeld ==
    ASSUME PInv, NEW i \in Phls, phl_main(i)
    PROVE  locked' \cap Phls \subseteq (locked \ Hands(i)) \cup Hands(i)'
<1>0. /\ pc \in [Phls -> Places]
      /\ forka(i) \in Phls /\ forkb(i) \in Phls /\ print_mtx \notin Phls
      /\ HoldsB(i) => forka(i) # forkb(i)
  BY ForkRange DEF PInv, TypeOK, ForksHeld
<1>1. forka(i)' = forka(i) /\ forkb(i)' = forkb(i)
  BY OthersStay DEF forka, forkb, lefty, PInv
<1>2. ASSUME locked' \cap Phls \subseteq locked, HoldsA(i)' <=> HoldsA(i),
             HoldsB(i)' <=> HoldsB(i)
      PROVE  locked' \cap Phls \subseteq (locked \ Hands(i)) \cup Hands(i)'
  <2>1. Hands(i)' = Hands(i)
    BY <1>1, <1>2 DEF Hands
  <2> QED BY <1>2, <2>1
<1>3. CASE Think(i) \/ GetHungry(i) \/ Eat(i) \/ Full(i)
  <2>1. \/ pc[i] = "think" /\ pc'[i] = "hungry"
        \/ pc[i] = "hungry" /\ pc'[i] = "take_a"
        \/ pc[i] = "eat" /\ pc'[i] = "full"
        \/ pc[i] = "full" /\ pc'[i] = "drop_b"
    BY <1>0, <1>3 DEF Think, GetHungry, Eat, Full, Goes
  <2>2. (HoldsA(i)' <=> HoldsA(i)) /\ (HoldsB(i)' <=> HoldsB(i)) /\ locked' = locked
    BY <1>3, <2>1 DEF HoldsA, HoldsB, Think, GetHungry, Eat, Full
  <2> QED BY <1>2, <2>2
<1>4. CASE TakeA(i)
  <2>1. pc[i] = "take_a" /\ pc'[i] = "take_b" /\ locked' = locked \cup {forka(i)}
    BY <1>0, <1>4 DEF TakeA, Goes, mtx_lock
  <2>2. Hands(i) = {} /\ Hands(i)' = {forka(i)}
    BY <1>1, <2>1 DEF Hands, HoldsA, HoldsB
  <2> QED BY <2>1, <2>2
<1>5. CASE TakeB(i)
  <2>1. pc[i] = "take_b" /\ pc'[i] = "eat" /\ locked' = locked \cup {forkb(i)}
    BY <1>0, <1>5 DEF TakeB, Goes, mtx_lock
  <2>2. Hands(i) = {forka(i)} /\ Hands(i)' = {forka(i), forkb(i)}
    BY <1>1, <2>1 DEF Hands, HoldsA, HoldsB
  <2> QED BY <2>1, <2>2
<1>6. CASE DropB(i)
  <2>1. pc[i] = "drop_b" /\ pc'[i] = "drop_a" /\ locked' = locked \ {forkb(i)}
    BY <1>0, <1>6 DEF DropB, Goes, mtx_unlock
  <2>2. Hands(i) = {forka(i), forkb(i)} /\ Hands(i)' = {forka(i)}
    BY <1>1, <2>1 DEF Hands, HoldsA, HoldsB
  <2> QED BY <2>1, <2>2
<1>7. CASE DropA(i)
  <2>1. pc[i] = "drop_a" /\ pc'[i] = "next" /\ locked' = locked \ {forka(i)}
    BY <1>0, <1>7 DEF DropA, Goes, mtx_unlock
  <2>2. Hands(i) = {forka(i)} /\ Hands(i)' = {}
    BY <1>1, <2>1 DEF Hands, HoldsA, HoldsB
  <2> QED BY <2>1, <2>2
<1>8. CASE NextRound(i) \/ Finish(i)
  <2>1. /\ pc[i] \in {"next", "think"} /\ pc'[i] \in {"think", "exit", "done"}
        /\ locked' \subseteq locked \cup {print_mtx}
    BY <1>0, <1>8 DEF NextRound, Finish, mtx_lock
  <2>2. (HoldsA(i)' <=> HoldsA(i)) /\ (HoldsB(i)' <=> HoldsB(i))
    BY <2>1 DEF HoldsA, HoldsB
  <2> QED BY <1>0, <1>2, <2>1, <2>2
<1>9. CASE PrintLock(i) \/ PrintDraw(i) \/ ExitProgram(i)
  <2>1. pc' = pc /\ locked' \subseteq locked \cup {print_mtx}
    BY <1>9 DEF PrintLock, PrintDraw, ExitProgram, mtx_lock, mtx_unlock
  <2>2. (HoldsA(i)' <=> HoldsA(i)) /\ (HoldsB(i)' <=> HoldsB(i))
    BY <2>1 DEF HoldsA, HoldsB
  <2> QED BY <1>0, <1>2, <2>1, <2>2
<1> QED BY <1>3, <1>4, <1>5, <1>6, <1>7, <1>8, <1>9 DEF phl_main

LEMMA OwnedStep == PInv /\ ForksOwned /\ Next => ForksOwned'
<1> SUFFICES ASSUME PInv, ForksOwned, Next PROVE ForksOwned'
  OBVIOUS
<1>1. ASSUME NEW i \in Phls, UNCHANGED left_handed,
             \A j \in Phls : j # i => pc'[j] = pc[j],
             locked' \cap Phls \subseteq (locked \ Hands(i)) \cup Hands(i)'
      PROVE  ForksOwned'
  <2> SUFFICES ASSUME NEW f \in locked' \cap Phls
               PROVE  \E j \in Phls : f \in Hands(j)'
    BY DEF ForksOwned
  <2>1. CASE f \in Hands(i)'
    BY <2>1
  <2>2. CASE f \in locked \ Hands(i)
    <3>1. PICK j \in Phls : f \in Hands(j)
      BY <2>2 DEF ForksOwned
    <3>2. j # i /\ pc'[j] = pc[j]
      BY <1>1, <2>2, <3>1
    <3>3. forka(j)' = forka(j) /\ forkb(j)' = forkb(j)
      BY <1>1 DEF forka, forkb, lefty
    <3>4. Hands(j)' = Hands(j)
      BY <3>2, <3>3 DEF Hands, HoldsA, HoldsB
    <3> QED BY <3>1, <3>4
  <2> QED BY <1>1, <2>1, <2>2
<1>2. CASE MainCreate
  <2>1. PICK k \in Phls : k = main.i
    BY DEF PInv, TypeOK
  <2>2. pc[k] = "unborn" /\ UNCHANGED <<left_handed, locked>>
        /\ \A j \in Phls : j # k => pc'[j] = pc[j]
    BY <1>2, <2>1 DEF MainCreate, PInv, TypeOK, Uncreated, Phls
  <2>3. Hands(k) = {}
    BY <2>2 DEF Hands, HoldsA, HoldsB
  <2> QED BY <1>1, <2>2, <2>3
<1>3. CASE MainJoin
  BY <1>3 DEF MainJoin, ForksOwned, Hands, HoldsA, HoldsB, forka, forkb, lefty
<1>4. ASSUME NEW i \in Phls, phl_main(i) PROVE ForksOwned'
  BY <1>1, <1>4, OthersStay, LocksAreHeld DEF PInv
<1> QED BY <1>2, <1>3, <1>4 DEF Next

LEMMA PrintStep == PInv /\ PrintOwned /\ DoneDrawn /\ Next => PrintOwned' /\ DoneDrawn'
<1> SUFFICES ASSUME PInv, PrintOwned, DoneDrawn, Next PROVE PrintOwned' /\ DoneDrawn'
  OBVIOUS
<1>0. pc \in [Phls -> Places] /\ phase \in [Phls -> {"go", "print", "draw"}]
  BY DEF PInv, TypeOK
<1>1. CASE MainCreate
  <2>1. PICK k \in Phls : k = main.i
    BY DEF PInv, TypeOK
  <2>2. /\ pc[k] = "unborn" /\ UNCHANGED <<phase, locked>>
        /\ \A j \in Phls : pc'[j] = IF j = k THEN "think" ELSE pc[j]
    BY <1>0, <1>1, <2>1 DEF MainCreate, PInv, TypeOK, Uncreated, Phls
  <2> QED BY <2>2 DEF PrintOwned, DoneDrawn
<1>2. CASE MainJoin
  BY <1>2 DEF MainJoin, PrintOwned, DoneDrawn
\* Philosopher i neither held print_mtx nor locks or unlocks it.
<1>3. ASSUME NEW i \in Phls, phl_main(i), phase[i] # "draw", pc[i] # "exit",
             print_mtx \in locked' => print_mtx \in locked,
             pc'[i] \in {"done", "exit"} => phase'[i] = "go"
      PROVE  PrintOwned' /\ DoneDrawn'
  <2>1. \A j \in Phls : j # i => pc'[j] = pc[j] /\ phase'[j] = phase[j]
    BY <1>3, OthersStay DEF PInv
  <2> QED BY <1>3, <2>1 DEF PrintOwned, DoneDrawn
<1>4. ASSUME NEW i \in Phls, phl_main(i)
      PROVE  PrintOwned' /\ DoneDrawn'
  <2>0. /\ forka(i) # print_mtx /\ forkb(i) # print_mtx
        /\ \A j \in Phls : j # i => pc'[j] = pc[j] /\ phase'[j] = phase[j]
    BY <1>4, ForkRange, OthersStay DEF PInv
  <2>1. CASE \/ Think(i) \/ GetHungry(i) \/ TakeA(i) \/ TakeB(i) \/ Eat(i) \/ Full(i)
             \/ DropB(i) \/ DropA(i)
    <3>1. /\ phase[i] = "go" /\ pc[i] # "exit" /\ pc'[i] \notin {"done", "exit"}
      BY <1>0, <2>1 DEF Think, GetHungry, TakeA, TakeB, Eat, Full, DropB, DropA, Goes
    <3>2. print_mtx \in locked' => print_mtx \in locked
      BY <2>0, <2>1 DEF Think, GetHungry, TakeA, TakeB, Eat, Full, DropB, DropA,
                        mtx_lock, mtx_unlock
    <3> QED BY <1>3, <1>4, <3>1, <3>2
  <2>2. CASE NextRound(i)
    <3>1. /\ phase[i] = "go" /\ pc[i] # "exit" /\ pc'[i] \notin {"done", "exit"} /\ locked' = locked
      BY <1>0, <2>2 DEF NextRound
    <3> QED BY <1>3, <1>4, <3>1
  <2>3. CASE Finish(i)
    <3>1. /\ phase'[i] = "go" /\ phase[i] = "go" /\ pc[i] = "think"
          /\ pc'[i] = "exit" \/ locked' = locked
      BY <1>0, <2>3 DEF Finish
    <3>2. CASE pc'[i] = "exit"
      BY <2>0, <3>1, <3>2 DEF PrintOwned, DoneDrawn
    <3>3. CASE locked' = locked
      BY <1>3, <1>4, <3>1, <3>3
    <3> QED BY <3>1, <3>2, <3>3
  <2>4. CASE PrintLock(i)
    <3>1. phase[i] = "print" /\ phase'[i] = "draw" /\ pc' = pc
      BY <1>0, <2>4 DEF PrintLock
    <3> QED BY <2>0, <3>1 DEF PrintOwned, DoneDrawn
  <2>5. CASE PrintDraw(i)
    <3>1. phase'[i] = "go" /\ pc' = pc /\ print_mtx \notin locked'
      BY <1>0, <2>5 DEF PrintDraw, mtx_unlock
    <3> QED BY <2>0, <3>1 DEF PrintOwned, DoneDrawn
  <2>6. CASE ExitProgram(i)
    BY <2>6 DEF ExitProgram, PrintOwned, DoneDrawn
  <2> QED BY <1>4, <2>1, <2>2, <2>3, <2>4, <2>5, <2>6 DEF phl_main
<1> QED BY <1>1, <1>2, <1>4 DEF Next

LEMMA QInductive == Spec => []QInv
<1>1. Init => QInv
  <2> SUFFICES ASSUME Init PROVE QInv
    OBVIOUS
  <2>1. ForksOwned /\ PrintOwned /\ DoneDrawn
    BY DEF Init, mtx_init, ForksOwned, PrintOwned, DoneDrawn
  <2> QED BY <2>1, PInit DEF QInv
<1>2. QInv /\ [Next]_vars => QInv'
  <2> SUFFICES ASSUME QInv, [Next]_vars PROVE QInv'
    OBVIOUS
  <2>1. CASE Next
    BY <2>1, PNext, OwnedStep, PrintStep DEF QInv
  <2>2. CASE UNCHANGED vars
    <3>1. PInv'
      BY <2>2, PNext DEF QInv
    <3>2. ForksOwned' /\ PrintOwned' /\ DoneDrawn'
      BY <2>2 DEF vars, QInv, ForksOwned, PrintOwned, DoneDrawn, Hands, HoldsA, HoldsB,
                  forka, forkb, lefty
    <3> QED BY <3>1, <3>2 DEF QInv
  <2> QED BY <2>1, <2>2
<1> QED BY <1>1, <1>2, PTL DEF Spec

\* Whoever follows its right neighbour into a set is followed all the way around.
LEMMA AroundTheTable ==
    ASSUME NEW S, NEW m \in Phls, m \in S,
           \A k \in Phls : k \in S => fork_left(k) \in S
    PROVE  Phls \subseteq S
<1>1. /\ nthreads \in {1, 2, 3, 4, 5, 6, 7, 8}
      /\ \A k \in Phls : k \in Int /\ 0 <= k /\ k < nthreads
      /\ \A k \in Int : 0 <= k /\ k < nthreads => k \in Phls
  BY PhlAssumption DEF Phls
<1>2. /\ \A k \in Phls : k + 1 < nthreads => fork_left(k) = k + 1
      /\ fork_left(nthreads - 1) = 0
  <2>1. \A k \in Nat : k < nthreads => k % nthreads = k
    BY <1>1
  <2>2. nthreads % nthreads = 0 /\ (nthreads - 1) + 1 = nthreads
    BY <1>1
  <2>3. \A k \in Phls : k + 1 \in Nat
    BY <1>1
  <2> QED BY <2>1, <2>2, <2>3 DEF fork_left
<1>3. /\ \A k \in Phls : k \in S /\ k + 1 < nthreads => k + 1 \in S
      /\ nthreads - 1 \in S => 0 \in S
  BY <1>1, <1>2
<1>4. ASSUME NEW k \in Phls, k \in S PROVE nthreads - 1 \in S
  <2> DEFINE P(n) == n < nthreads => n \in S
  <2>1. k \in {0, 1, 2, 3, 4, 5, 6, 7}
    BY <1>1
  <2>2. \A n \in {0, 1, 2, 3, 4, 5, 6} : P(n) => P(n + 1)
    BY <1>1, <1>3
  <2> QED BY <1>1, <1>4, <2>1, <2>2
<1>5. 0 \in S
  BY <1>3, <1>4
<1>6. ASSUME NEW k \in Phls PROVE k \in S
  <2> DEFINE P(n) == n < nthreads => n \in S
  <2>1. k \in {0, 1, 2, 3, 4, 5, 6, 7}
    BY <1>1
  <2>2. \A n \in {0, 1, 2, 3, 4, 5, 6} : P(n) => P(n + 1)
    BY <1>1, <1>3
  <2> QED BY <1>1, <1>5, <2>1, <2>2
<1> QED BY <1>6

\* In a stuck program nobody waits for print_mtx: whoever has not returned waits
\* for a fork, with its first fork in hand or with none, and every locked fork is
\* the first fork of one who waits for the second.
LEMMA StuckOnForks ==
    ASSUME QInv, Stuck
    PROVE  /\ \A i \in Phls : pc[i] # "done" =>
                \/ pc[i] = "take_a" /\ forka(i) \in locked
                \/ pc[i] = "take_b" /\ forkb(i) \in locked
           /\ \A f \in locked \cap Phls : \E i \in Phls : pc[i] = "take_b" /\ forka(i) = f
<1>1. print_mtx \notin locked
  <2> SUFFICES ASSUME NEW i \in Phls, phase[i] = "draw" \/ pc[i] = "exit" PROVE FALSE
    BY DEF QInv, PrintOwned
  <2>1. CASE pc[i] = "done"
    BY <2>1 DEF QInv, DoneDrawn
  <2>2. CASE pc[i] # "done"
    <3>1. Wants(i) # {} /\ Wants(i) \subseteq locked
      BY <2>2 DEF Stuck
    <3>2. phase[i] # "draw"
      BY <3>1 DEF Wants
    <3>3. pc[i] = "exit" /\ phase[i] = "go"
      BY <3>2 DEF QInv, DoneDrawn
    <3> QED BY <3>1, <3>3 DEF Wants
  <2> QED BY <2>1, <2>2
<1>2. ASSUME NEW i \in Phls, pc[i] # "done"
      PROVE  \/ pc[i] = "take_a" /\ forka(i) \in locked
             \/ pc[i] = "take_b" /\ forkb(i) \in locked
  <2>1. Wants(i) # {} /\ Wants(i) \subseteq locked
    BY <1>2 DEF Stuck
  <2> QED BY <1>1, <2>1 DEF Wants
<1>3. ASSUME NEW f \in locked \cap Phls
      PROVE  \E i \in Phls : pc[i] = "take_b" /\ forka(i) = f
  <2>1. PICK i \in Phls : f \in Hands(i)
    BY <1>3 DEF QInv, ForksOwned
  <2>2. HoldsA(i) \/ HoldsB(i)
    BY <2>1 DEF Hands
  <2>3. pc[i] = "take_b"
    BY <1>2, <2>2 DEF HoldsA, HoldsB
  <2> QED BY <2>1, <2>3 DEF Hands, HoldsB
<1> QED BY <1>2, <1>3

\* With -l and at least two philosophers nobody can be stuck: the last fork is the
\* first fork of nobody, so its neighbour goes on, and with it the next.
LEMMA LeftHandedNotStuck ==
    ASSUME QInv, Stuck, left_handed, nthreads # 1
    PROVE  FALSE
<1>1. /\ nthreads \in {2, 3, 4, 5, 6, 7, 8}
      /\ \A k \in Phls : k \in Int /\ 0 <= k /\ k < nthreads
      /\ \A k \in Int : 0 <= k /\ k < nthreads => k \in Phls
  BY PhlAssumption DEF Phls
<1>2. /\ \A k \in Phls : k # nthreads - 1 => forka(k) = k /\ forkb(k) = k + 1
      /\ forka(nthreads - 1) = 0 /\ forkb(nthreads - 1) = nthreads - 1
  BY <1>1 DEF forka, forkb, lefty, fork_left, fork_right
<1>3. nthreads - 1 \notin locked
  <2> SUFFICES ASSUME NEW i \in Phls, forka(i) = nthreads - 1 PROVE FALSE
    BY <1>1, StuckOnForks
  <2> QED BY <1>1, <1>2
<1>4. pc[nthreads - 1] # "take_b"
  BY <1>1, <1>2, <1>3, StuckOnForks
<1>5. ASSUME NEW k \in Phls, k + 1 < nthreads - 1, pc[k] = "take_b"
      PROVE  pc[k + 1] = "take_b"
  <2>1. k + 1 \in Phls /\ k # nthreads - 1 /\ k + 1 # 0
    BY <1>1, <1>5
  <2>2. k + 1 \in locked
    BY <1>2, <1>5, <2>1, StuckOnForks
  <2>3. PICK i \in Phls : pc[i] = "take_b" /\ forka(i) = k + 1
    BY <2>1, <2>2, StuckOnForks
  <2>4. i = k + 1
    BY <1>2, <2>1, <2>3
  <2> QED BY <2>3, <2>4
<1>6. nthreads - 2 \in Phls /\ pc[nthreads - 2] # "take_b"
  <2>1. nthreads - 2 \in Phls /\ nthreads - 2 # nthreads - 1
        /\ (nthreads - 2) + 1 = nthreads - 1
    BY <1>1
  <2> QED BY <1>2, <1>3, <2>1, StuckOnForks
<1>7. \A k \in Phls : pc[k] # "take_b"
  <2> DEFINE P(n) == n < nthreads - 1 => pc[n] # "take_b"
  <2>1. \A n \in {0, 1, 2, 3, 4, 5, 6} : P(n + 1) => P(n)
    <3> SUFFICES ASSUME NEW n \in {0, 1, 2, 3, 4, 5, 6}, n < nthreads - 1, P(n + 1)
                 PROVE  pc[n] # "take_b"
      OBVIOUS
    <3>1. n \in Phls /\ (n + 1 < nthreads - 1 \/ n = nthreads - 2)
      BY <1>1
    <3> QED BY <1>5, <1>6, <3>1
  <2>2. P(7)
    BY <1>1
  <2>3. \A n \in {0, 1, 2, 3, 4, 5, 6} : P(n)
    <3> HIDE DEF P
    <3> QED BY <2>1, <2>2
  <2> TAKE k \in Phls
  <2>4. k = nthreads - 1 \/ (k \in {0, 1, 2, 3, 4, 5, 6} /\ k < nthreads - 1)
    BY <1>1
  <2> QED BY <1>4, <2>3, <2>4
<1>8. locked \cap Phls = {}
  BY <1>7, StuckOnForks
<1>9. main.i \in Phls /\ pc[main.i] # "done"
  BY DEF Stuck, QInv, PInv, TypeOK
<1> QED BY <1>7, <1>8, <1>9, StuckOnForks, ForkRange

\* The program of process/philosophers.c deadlocks only with every philosopher
\* between its two mtx_lock calls, and with -l only when there is one fork for
\* both: for up to 8 philosophers, the threads the library has.
THEOREM DeadlockOnlyInCircle == Spec => []StuckOnlyInCircle
<1>1. QInv => StuckOnlyInCircle
  <2> SUFFICES ASSUME QInv, Stuck
               PROVE  /\ \A i \in Phls : pc[i] = "take_b"
                      /\ left_handed => nthreads = 1
    BY DEF StuckOnlyInCircle
  <2>1. left_handed => nthreads = 1
    BY LeftHandedNotStuck
  <2>2. \A i \in Phls : forka(i) = i /\ forkb(i) = fork_left(i)
    <3>1. nthreads = 1 => \A i \in Phls : i = 0 /\ fork_left(i) = 0
      BY DEF Phls, fork_left
    <3> QED BY <2>1, <3>1 DEF forka, forkb, lefty, fork_right
  <2>3. \A i \in Phls : pc[i] # "done" => pc[i] = "take_b" /\ fork_left(i) \in locked
    <3> SUFFICES ASSUME NEW i \in Phls, pc[i] = "take_a", i \in locked PROVE FALSE
      BY <2>2, StuckOnForks
    <3> QED BY <2>2, StuckOnForks
  <2> DEFINE S == {i \in Phls : pc[i] = "take_b"}
  <2>4. main.i \in Phls /\ main.i \in S
    <3>1. main.i \in Phls /\ pc[main.i] # "done"
      BY DEF Stuck, QInv, PInv, TypeOK
    <3> QED BY <2>3, <3>1
  <2>5. \A k \in Phls : k \in S => fork_left(k) \in S
    <3> SUFFICES ASSUME NEW k \in Phls, pc[k] = "take_b" PROVE fork_left(k) \in S
      OBVIOUS
    <3>1. fork_left(k) \in locked \cap Phls
      BY <2>2, <2>3, ForkRange
    <3> QED BY <2>2, <3>1, StuckOnForks
  <2>6. Phls \subseteq S
    <3> HIDE DEF S
    <3> QED BY <2>4, <2>5, AroundTheTable
  <2> QED BY <2>1, <2>6
<1> QED BY <1>1, QInductive, PTL
=============================================================================
