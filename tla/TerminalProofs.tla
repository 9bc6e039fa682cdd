--------------------------- MODULE TerminalProofs ---------------------------
(***************************************************************************)
(* TLAPS proofs about the terminal: nothing that is typed is lost, lines   *)
(* come whole, and the screen shows the line that is edited as long as it  *)
(* is of printable characters and fits; for every size of the buffers and  *)
(* of the terminal and every sequence of keys.                             *)
(***************************************************************************)
EXTENDS Terminal, SequenceTheorems, WellFoundedInduction, TLAPS

Chars == Keys \cup {"a", "sp", "nl", "cr", "^", ">"}
EdType == [out : Seq(Chars), cur : Seq(Chars)]

NlFree(s) == \A k \in 1 .. Len(s) : s[k] # "nl"
FrontFree(s) == \A k \in 1 .. Len(s) - 1 : s[k] # "nl"

\* The end of the cursor line is the prompt followed by b.
Shows(b, s) ==
    /\ Len(s) > Len(b)
    /\ s[Len(s) - Len(b)] = ">"
    /\ \A k \in 1 .. Len(b) : s[Len(s) - Len(b) + k] = b[k]

Typed ==
    /\ port \in Seq(Chars) /\ ibuf \in Seq(Chars) /\ line \in Seq(Chars)
    /\ base \in Seq(Chars) /\ typed \in Seq(Chars) /\ got \in Seq(Chars)
    /\ screen \in Seq(Chars)
    /\ eol \in BOOLEAN /\ baseEol \in BOOLEAN /\ plain \in BOOLEAN

\* The shell's own reads are in cooked mode, with plain echo.
ShellMode == pc \in {"prompt", "read", "run"} => flags = SH_TTYFLAGS

\* Only the last character in the buffer can be a newline, and then it has an end.
OneLine ==
    pc \in {"boot", "open", "prompt", "read", "run"} /\ NlFree(base) =>
        FrontFree(ibuf) /\ (~eol => NlFree(ibuf))

\* Between commands only a line that has ended waits in the buffer.
WholeLines == pc \in {"prompt", "run"} /\ base = <<>> /\ ibuf # <<>> => eol

Echoed == pc = "read" /\ base = <<>> /\ ~eol /\ plain => Shows(ibuf, screen)

\* What the line editing has finished has been read, up to a line that has
\* ended and is being read; the unfinished line is the buffer.
Balanced(ed, end, read, buf) ==
    /\ ed \in EdType
    /\ IF end THEN ed.cur = <<>> /\ ed.out = read \o buf
              ELSE ed.cur = buf /\ ed.out = read
Accounted == IF Cooked THEN Balanced(Edit(Start, typed), eol, got, ibuf)
             ELSE got \o ibuf = base \o typed

LInv ==
    /\ Typed /\ ShellMode /\ OneLine /\ LineByLine /\ WholeLines /\ Echoed
    /\ Accounted

-----------------------------------------------------------------------------
(* Induction, and what the recursive function of Edit computes. *)

LEMMA NatLeast ==
    ASSUME NEW T \in SUBSET Nat, T # {}
    PROVE  \E x \in T : \A y \in T : x <= y
<1> DEFINE R == OpToRel(<, Nat)
<1>1. IsWellFoundedOn(R, Nat)
  BY NatLessThanWellFounded
<1>2. PICK x \in T : \A y \in T : ~ (<<y, x>> \in R)
  <2> HIDE DEF R
  <2> QED BY <1>1, WFMin
<1>3. \A y \in T : ~(y < x)
  BY <1>2 DEF OpToRel
<1> QED BY <1>3

\* The induction principle for a set of numbers.
LEMMA NatSet ==
    ASSUME NEW T \in SUBSET Nat, 0 \in T, \A n \in T : n + 1 \in T
    PROVE  T = Nat
<1> SUFFICES ASSUME T # Nat PROVE FALSE
  OBVIOUS
<1>1. PICK x \in Nat \ T : \A y \in Nat \ T : x <= y
  BY NatLeast
<1>2. x # 0 /\ x - 1 \in Nat /\ x - 1 \in T
  BY <1>1
<1> QED BY <1>1, <1>2

\* g is the editing of ed by the first m characters of s.
IsEdit(g, ed, s, m) ==
    g = [n \in 0 .. m |-> IF n = 0 THEN ed ELSE EditChar(g[n - 1], s[n])]

LEMMA EditExists ==
    ASSUME NEW ed, NEW s, NEW m \in Nat
    PROVE  \E g : IsEdit(g, ed, s, m)
<1> DEFINE T == {n \in Nat : \E g : IsEdit(g, ed, s, n)}
<1>1. 0 \in T
  <2>1. IsEdit([n \in 0 .. 0 |-> ed], ed, s, 0)
    BY DEF IsEdit
  <2> QED BY <2>1
<1>2. ASSUME NEW n \in T PROVE n + 1 \in T
  <2>1. PICK g : IsEdit(g, ed, s, n)
    BY <1>2
  <2> DEFINE h == [k \in 0 .. n + 1 |-> IF k = n + 1 THEN EditChar(g[n], s[n + 1]) ELSE g[k]]
  <2>2. /\ n \in Nat /\ g[0] = ed
        /\ \A k \in 1 .. n : g[k] = EditChar(g[k - 1], s[k])
    BY <1>2, <2>1 DEF IsEdit
  <2>3. \A k \in 0 .. n : h[k] = g[k]
    BY <2>2
  <2>4. ASSUME NEW k \in 0 .. n + 1
        PROVE  h[k] = IF k = 0 THEN ed ELSE EditChar(h[k - 1], s[k])
    <3>1. CASE k = 0
      BY <3>1, <2>2, <2>3
    <3>2. CASE k = n + 1
      <4>1. h[k - 1] = g[n] /\ k # 0 /\ h[k] = EditChar(g[n], s[n + 1])
        BY <3>2, <2>2, <2>3
      <4> QED BY <4>1, <3>2
    <3>3. CASE k \in 1 .. n
      <4>1. h[k] = g[k] /\ h[k - 1] = g[k - 1] /\ k # 0
        BY <3>3, <2>2, <2>3
      <4> QED BY <4>1, <3>3, <2>2
    <3> QED BY <3>1, <3>2, <3>3, <2>2
  <2>5. h = [k \in 0 .. n + 1 |-> h[k]]
    OBVIOUS
  <2>6. IsEdit(h, ed, s, n + 1)
    <3> HIDE DEF h
    <3> QED BY <2>4, <2>5 DEF IsEdit
  <2> QED BY <2>2, <2>6
<1>3. T = Nat
  <2> HIDE DEF T
  <2>1. T \subseteq Nat
    BY DEF T
  <2> QED BY <1>1, <1>2, <2>1, NatSet
<1> QED BY <1>3

\* Two editings agree as long as they see the same characters.
LEMMA EditUnique ==
    ASSUME NEW ed, NEW s, NEW t, NEW m \in Nat, NEW l \in Nat, NEW j \in Nat,
           NEW g, NEW h, IsEdit(g, ed, s, m), IsEdit(h, ed, t, l),
           j <= m, j <= l, \A k \in 1 .. j : s[k] = t[k]
    PROVE  g[j] = h[j]
<1> DEFINE T == {n \in Nat : n <= j => g[n] = h[n]}
<1>0. /\ g[0] = ed /\ h[0] = ed
      /\ \A k \in 1 .. j : g[k] = EditChar(g[k - 1], s[k]) /\ h[k] = EditChar(h[k - 1], t[k])
  BY DEF IsEdit
<1>1. 0 \in T
  BY <1>0
<1>2. ASSUME NEW n \in T PROVE n + 1 \in T
  <2>1. CASE n + 1 <= j
    <3>1. n + 1 \in 1 .. j /\ g[n] = h[n] /\ (n + 1) - 1 = n
      BY <2>1, <1>2
    <3>2. g[n + 1] = EditChar(g[n], s[n + 1]) /\ h[n + 1] = EditChar(h[n], t[n + 1])
      BY <3>1, <1>0
    <3> QED BY <3>1, <3>2
  <2>2. CASE ~(n + 1 <= j)
    BY <2>2
  <2> QED BY <2>1, <2>2
<1>3. T = Nat
  <2> HIDE DEF T
  <2>1. T \subseteq Nat
    BY DEF T
  <2> QED BY <1>1, <1>2, <2>1, NatSet
<1> QED BY <1>3

LEMMA EditValue ==
    ASSUME NEW ed, NEW s \in Seq(Chars)
    PROVE  \E g : IsEdit(g, ed, s, Len(s)) /\ Edit(ed, s) = g[Len(s)]
<1>1. \E g : IsEdit(g, ed, s, Len(s))
  <2>1. Len(s) \in Nat
    OBVIOUS
  <2> QED BY <2>1, EditExists
<1> DEFINE f == CHOOSE g : IsEdit(g, ed, s, Len(s))
<1>2. IsEdit(f, ed, s, Len(s))
  BY <1>1
<1>3. Edit(ed, s) = f[Len(s)]
  BY DEF Edit, IsEdit
<1> QED BY <1>2, <1>3

\* One more character.
LEMMA EditStep ==
    ASSUME NEW ed, NEW s \in Seq(Chars), NEW ch \in Chars
    PROVE  /\ Edit(ed, <<>>) = ed
           /\ Edit(ed, Append(s, ch)) = EditChar(Edit(ed, s), ch)
<1>1. Edit(ed, <<>>) = ed
  <2>1. <<>> \in Seq(Chars) /\ Len(<<>>) = 0
    OBVIOUS
  <2>2. PICK g : IsEdit(g, ed, <<>>, 0) /\ Edit(ed, <<>>) = g[0]
    BY <2>1, EditValue
  <2> QED BY <2>2 DEF IsEdit
<1>2. Edit(ed, Append(s, ch)) = EditChar(Edit(ed, s), ch)
  <2> DEFINE t == Append(s, ch)
             n == Len(s)
  <2>1. /\ n \in Nat /\ t \in Seq(Chars) /\ Len(t) = n + 1 /\ t[n + 1] = ch
        /\ \A k \in 1 .. n : s[k] = t[k]
    OBVIOUS
  <2>2. PICK g : IsEdit(g, ed, s, n) /\ Edit(ed, s) = g[n]
    BY EditValue
  <2>3. PICK h : IsEdit(h, ed, t, n + 1) /\ Edit(ed, t) = h[n + 1]
    BY <2>1, EditValue
  <2> HIDE DEF t, n
  <2>4. h[n + 1] = EditChar(h[n], t[n + 1])
    BY <2>1, <2>3 DEF IsEdit
  <2>5. g[n] = h[n]
    BY <2>1, <2>2, <2>3, EditUnique
  <2>6. Edit(ed, t) = EditChar(Edit(ed, s), ch)
    BY <2>1, <2>2, <2>3, <2>4, <2>5
  <2> QED BY <2>6 DEF t
<1> QED BY <1>1, <1>2

-----------------------------------------------------------------------------
(* What the steps do to the types. *)

LEMMA CharFacts ==
    /\ {"a", "sp", "nl", "cr", "^", ">"} \subseteq Chars
    /\ \A k \in Keys : k \in Chars
    /\ \A ch \in Chars : ifilter(ch) \in Chars
    /\ <<>> \in Seq(Chars)
BY DEF Chars, ifilter

LEMMA NonEmpty == \A r \in Seq(Chars) : r # <<>> => Len(r) # 0
OBVIOUS

LEMMA WriteType ==
    ASSUME NEW q \in Seq(Chars), NEW w \in Seq(Chars), Len(w) <= 2
    PROVE  serial_write(q, w) \in Seq(Chars)
<1>1. ASSUME NEW p \in Seq(Chars), NEW ch \in Chars PROVE ofilter(p, ch) \in Seq(Chars)
  <2>1. \A r \in Seq(Chars), c \in Chars : Looped(r, c) \in Seq(Chars)
    BY DEF Looped
  <2>2. "cr" \in Chars
    BY CharFacts
  <2>3. Looped(p, ch) \in Seq(Chars) /\ Looped(Looped(p, "cr"), ch) \in Seq(Chars)
    BY <2>1, <2>2
  <2> QED BY <2>3 DEF ofilter
<1>2. CASE w = <<>>
  BY <1>2 DEF serial_write
<1>3. CASE Len(w) = 1
  <2>1. w[1] \in Chars
    BY <1>3, ElementOfSeq
  <2> QED BY <1>1, <1>3, <2>1 DEF serial_write
<1>4. CASE Len(w) = 2
  <2>1. w[1] \in Chars /\ w[2] \in Chars
    BY <1>4
  <2>2. ofilter(q, w[1]) \in Seq(Chars)
    BY <1>1, <2>1
  <2>3. ofilter(ofilter(q, w[1]), w[2]) \in Seq(Chars)
    BY <1>1, <2>1, <2>2
  <2> QED BY <1>4, <2>3 DEF serial_write
<1>5. w = <<>> \/ Len(w) = 1 \/ Len(w) = 2
  <2>1. Len(w) \in Nat
    OBVIOUS
  <2>2. w # <<>> => Len(w) # 0
    BY NonEmpty
  <2>3. PICK n \in Nat : n = Len(w)
    BY <2>1
  <2>4. n <= 2 /\ (w # <<>> => n # 0)
    BY <2>2, <2>3
  <2>5. n = 0 \/ n = 1 \/ n = 2
    BY <2>4
  <2> QED BY <2>3, <2>4, <2>5
<1> QED BY <1>2, <1>3, <1>4, <1>5

LEMMA ShownType ==
    ASSUME NEW r \in Seq(Chars), NEW c \in Chars
    PROVE  Shown(r, c) \in Seq(Chars)
<1>1. CASE c = "tab"
  <2>1. PICK n \in Int : n = TabColumns(r)
    <3>1. Len(r) \in Nat /\ TABSZ \in Nat \ {0} /\ COLS \in Nat
      BY TtyAssumption
    <3>2. Len(r) % TABSZ \in Int
      BY <3>1
    <3>3. TABSZ - (Len(r) % TABSZ) \in Int /\ COLS - 1 - Len(r) \in Int
      BY <3>1, <3>2
    <3> QED BY <3>3 DEF TabColumns
  <2>2. PICK t : t = [k \in 1 .. n |-> "sp"]
    OBVIOUS
  <2>3. t \in Seq(Chars)
    <3>1. "sp" \in Chars
      BY CharFacts
    <3>2. PICK l \in Nat : 1 .. n = 1 .. l
      <4>1. CASE n \in Nat
        BY <4>1
      <4>2. CASE n \notin Nat
        <5>1. 1 .. n = 1 .. 0
          BY <4>2
        <5> QED BY <5>1
      <4> QED BY <4>1, <4>2
    <3>3. t \in [1 .. l -> Chars]
      BY <2>2, <3>1, <3>2
    <3> QED BY <3>3
  <2>4. Shown(r, c) = r \o t
    <3>1. c \notin {"nl", "cr"} /\ ~isprint(c)
      BY <1>1 DEF isprint
    <3>2. Shown(r, c) = r \o [k \in 1 .. TabColumns(r) |-> "sp"]
      BY <1>1, <3>1, Zenon DEF Shown
    <3> QED BY <2>1, <2>2, <3>2, Zenon
  <2> QED BY <2>3, <2>4
<1>2. CASE c # "tab"
  <2>1. <<>> \in Seq(Chars) /\ Append(r, c) \in Seq(Chars)
    BY CharFacts
  <2>2. Shown(r, c) = <<>> \/ Shown(r, c) = Append(r, c) \/ Shown(r, c) = r
    BY <1>2 DEF Shown
  <2> QED BY <2>1, <2>2
<1> QED BY <1>1, <1>2

LEMMA EchoType ==
    ASSUME NEW ch \in Chars, NEW scr \in Seq(Chars)
    PROVE  /\ echoc(ch) \in Seq(Chars) /\ Len(echoc(ch)) <= 2
           /\ Wrote(scr, echoc(ch)) \in Seq(Chars)
<1>1. "^" \in Chars /\ "a" \in Chars
  BY CharFacts
<1>2. \A r \in Seq(Chars), c \in Chars : Shown(r, c) \in Seq(Chars)
  BY ShownType
<1>3. CASE echoc(ch) = <<>>
  BY <1>3 DEF Wrote
<1>4. CASE echoc(ch) = <<ch>>
  BY <1>2, <1>4 DEF Wrote
<1>5. CASE echoc(ch) = <<"^", "a">>
  <2>1. Shown(Shown(scr, "^"), "a") \in Seq(Chars)
    BY <1>1, <1>2
  <2>2. echoc(ch) # <<>> /\ Len(echoc(ch)) = 2 /\ echoc(ch)[1] = "^" /\ echoc(ch)[2] = "a"
    BY <1>5
  <2> QED BY <1>1, <1>5, <2>1, <2>2 DEF Wrote
<1> QED BY <1>3, <1>4, <1>5 DEF echoc

\* The four things tty_inchar does with the next character.
Stored(ch) ==
    /\ Cooked => ch \notin Controls
    /\ ibuf' = Append(ibuf, ch)
    /\ screen' = Wrote(screen, echoc(ch))
    /\ eol' = (eol \/ (Cooked /\ ch = "nl"))
Ended(ch) == Cooked /\ ch = "D" /\ ibuf' = ibuf /\ eol' = TRUE
Back(ch) ==
    /\ Cooked /\ ch = "bs" /\ eol' = eol
    /\ ibuf' = Erased(ibuf)
    /\ screen' = IF ibuf # <<>> THEN Erased(screen) ELSE screen
Cleared(ch) ==
    /\ Cooked /\ ch = "U" /\ eol' = eol
    /\ ibuf' = <<>>
    /\ screen' = SubSeq(screen, 1, IF Len(screen) < Len(ibuf) THEN 0 ELSE Len(screen) - Len(ibuf))

LEMMA TakeEffect ==
    ASSUME Typed, TtyTakes
    PROVE  /\ Typed'
           /\ pc \in {"read", "raw"} /\ ~eol
           /\ UNCHANGED <<pc, line, flags, base, baseEol, got>>
           /\ \E ch \in Chars : /\ typed' = Append(typed, ch)
                                /\ plain' = (plain /\ StaysPlain(screen, ch))
                                /\ Stored(ch) \/ Ended(ch) \/ Back(ch) \/ Cleared(ch)
<1> DEFINE c == ifilter(Head(port))
<1>0. /\ ~eol /\ port \in Seq(Chars) /\ port # <<>>
      /\ tty_inchar(c, Tail(port)) /\ typed' = Append(typed, c)
      /\ plain' = (plain /\ StaysPlain(screen, c))
      /\ UNCHANGED <<flags, base, baseEol, got, pc, line>>
  BY DEF TtyTakes, Take, Reading, Typed
<1>1. c \in Chars /\ Tail(port) \in Seq(Chars)
  BY <1>0, CharFacts
<1>2. PICK ch \in Chars : /\ tty_inchar(ch, Tail(port)) /\ typed' = Append(typed, ch)
                          /\ plain' = (plain /\ StaysPlain(screen, ch))
  BY <1>0, <1>1
<1>3. Stored(ch) \/ Ended(ch) \/ Back(ch) \/ Cleared(ch)
  BY <1>2 DEF tty_inchar, add_to_inbuf, on_eof, backspace, clearline, Stored, Ended, Back, Cleared
<1>4. typed' \in Seq(Chars) /\ plain' \in BOOLEAN
  BY <1>2 DEF Typed
<1>5. port' \in Seq(Chars)
  <2>1. serial_write(Tail(port), echoc(ch)) \in Seq(Chars)
    BY <1>1, EchoType, WriteType DEF Typed
  <2> QED BY <1>1, <1>2, <2>1 DEF tty_inchar, add_to_inbuf, on_eof, backspace, clearline
<1>6. \A r \in Seq(Chars) : Erased(r) \in Seq(Chars)
  BY DEF Erased
<1>7. ibuf' \in Seq(Chars) /\ eol' \in BOOLEAN
  <2>1. CASE Stored(ch)
    BY <2>1 DEF Stored, Typed
  <2>2. CASE Ended(ch) \/ Back(ch) \/ Cleared(ch)
    BY <2>2, <1>6, CharFacts DEF Ended, Back, Cleared, Typed
  <2> QED BY <1>3, <2>1, <2>2
<1>8. screen' \in Seq(Chars)
  <2>1. CASE add_to_inbuf(ch, Tail(port))
    BY <2>1, EchoType DEF add_to_inbuf, Typed
  <2>2. CASE on_eof(Tail(port)) \/ backspace(Tail(port))
    BY <2>2, <1>6, CharFacts DEF on_eof, backspace, Typed
  <2>3. CASE clearline(Tail(port))
    <3>0. Len(screen) \in Nat /\ Len(ibuf) \in Nat
      BY DEF Typed
    <3> DEFINE k == IF Len(screen) < Len(ibuf) THEN 0 ELSE Len(screen) - Len(ibuf)
    <3>2. k \in Nat /\ k <= Len(screen) /\ screen' = SubSeq(screen, 1, k)
      BY <2>3, <3>0 DEF clearline
    <3>1. PICK n \in Nat : n <= Len(screen) /\ screen' = SubSeq(screen, 1, n)
      BY <3>2
    <3> QED BY <3>1 DEF Typed
  <2> QED BY <1>2, <2>1, <2>2, <2>3 DEF tty_inchar
<1>9. pc \in {"read", "raw"}
  BY DEF TtyTakes
<1> QED BY <1>0, <1>2, <1>3, <1>4, <1>5, <1>7, <1>8, <1>9 DEF Typed

-----------------------------------------------------------------------------
(* One character is taken off the port. *)

\* In the shell's mode a stored character is echoed as it is, and takes one
\* column if it is printable and the row is not full.
LEMMA PlainEcho ==
    ASSUME flags = SH_TTYFLAGS, NEW ch, NEW scr
    PROVE  /\ Cooked
           /\ ch \notin Controls /\ StaysPlain(scr, ch) =>
                  Wrote(scr, echoc(ch)) = Append(scr, ch)
<1>1. Cooked /\ echoc(ch) = <<ch>>
  BY DEF Cooked, SH_TTYFLAGS, echoc
<1>2. <<ch>> # <<>> /\ Len(<<ch>>) = 1 /\ <<ch>>[1] = ch
  OBVIOUS
<1>3. Wrote(scr, echoc(ch)) = Shown(scr, ch)
  BY <1>1, <1>2 DEF Wrote
<1>4. ASSUME ch \notin Controls, StaysPlain(scr, ch) PROVE Shown(scr, ch) = Append(scr, ch)
  <2>1. isprint(ch) /\ Len(scr) + 1 < COLS /\ ch \notin {"nl", "cr", "tab"}
    BY <1>4 DEF StaysPlain, isprint
  <2> QED BY <2>1 DEF Shown
<1> QED BY <1>1, <1>3, <1>4

LEMMA TakeOneLine ==
    ASSUME LInv, TtyTakes
    PROVE  OneLine'
<1> USE DEF LInv
<1> SUFFICES ASSUME pc' \in {"boot", "open", "prompt", "read", "run"}, NlFree(base)'
             PROVE  (FrontFree(ibuf) /\ (~eol => NlFree(ibuf)))'
  BY DEF OneLine
<1>1. PICK ch \in Chars : Stored(ch) \/ Ended(ch) \/ Back(ch) \/ Cleared(ch)
  BY TakeEffect
<1>2. pc = "read" /\ flags = SH_TTYFLAGS /\ Cooked /\ ~eol /\ base' = base
  BY TakeEffect, PlainEcho DEF ShellMode
<1>3. NlFree(ibuf) /\ ibuf \in Seq(Chars) /\ Len(ibuf) \in Nat
  BY <1>2 DEF OneLine, NlFree, Typed
<1>4. CASE Stored(ch)
  <2>0. ibuf' = Append(ibuf, ch) /\ (ch = "nl" => eol')
    BY <1>2, <1>4 DEF Stored
  <2>1. /\ Len(ibuf') = Len(ibuf) + 1 /\ ibuf'[Len(ibuf) + 1] = ch
        /\ \A k \in 1 .. Len(ibuf) : ibuf'[k] = ibuf[k]
    BY <1>3, <2>0
  <2> QED BY <1>3, <2>0, <2>1 DEF NlFree, FrontFree
<1>5. CASE Ended(ch)
  BY <1>3, <1>5 DEF Ended, NlFree, FrontFree
<1>6. CASE Back(ch)
  <2>1. CASE ibuf = <<>>
    BY <1>3, <1>6, <2>1 DEF Back, Erased, NlFree, FrontFree
  <2>2. CASE ibuf # <<>>
    <3>0. PICK n \in Nat : n = Len(ibuf)
      BY <1>3
    <3>1. ibuf' = SubSeq(ibuf, 1, n - 1) /\ n # 0
      BY <1>3, <1>6, <2>2, <3>0, NonEmpty DEF Back, Erased
    <3>2. Len(ibuf') = n - 1 /\ \A k \in 1 .. n - 1 : ibuf'[k] = ibuf[k]
      BY <1>3, <3>0, <3>1
    <3> QED BY <1>3, <3>0, <3>2 DEF NlFree, FrontFree
  <2> QED BY <2>1, <2>2
<1>7. CASE Cleared(ch)
  BY <1>7 DEF Cleared, NlFree, FrontFree
<1> QED BY <1>1, <1>4, <1>5, <1>6, <1>7

LEMMA TakeEchoed ==
    ASSUME LInv, TtyTakes
    PROVE  Echoed'
<1> USE DEF LInv
<1> SUFFICES ASSUME pc' = "read", base' = <<>>, ~eol', plain'
             PROVE  Shows(ibuf', screen')
  BY DEF Echoed, Shows
<1>1. PICK ch \in Chars : /\ plain' = (plain /\ StaysPlain(screen, ch))
                          /\ Stored(ch) \/ Ended(ch) \/ Back(ch) \/ Cleared(ch)
  BY TakeEffect
<1>2. pc = "read" /\ base = <<>> /\ ~eol /\ plain /\ flags = SH_TTYFLAGS
  BY <1>1, TakeEffect DEF ShellMode
<1>3. PICK n \in Nat, m \in Nat : n = Len(ibuf) /\ m = Len(screen)
  BY DEF Typed
<1>4. /\ m > n /\ screen[m - n] = ">"
      /\ \A k \in 1 .. n : screen[m - n + k] = ibuf[k]
      /\ ibuf \in Seq(Chars) /\ screen \in Seq(Chars)
  BY <1>2, <1>3 DEF Echoed, Shows, Typed
<1>5. CASE Stored(ch)
  <2>1. ibuf' = Append(ibuf, ch) /\ screen' = Append(screen, ch)
    <3>0. StaysPlain(screen, ch)
      <4>1. plain' = (plain /\ StaysPlain(screen, ch))
        BY <1>1
      <4>2. StaysPlain(screen, ch) <=> ch \in Controls \/ (isprint(ch) /\ Len(screen) + 1 < COLS)
        BY DEF StaysPlain
      <4> QED BY <4>1, <4>2
    <3>1. Cooked /\ StaysPlain(screen, ch)
      BY <1>2, <3>0 DEF Cooked, SH_TTYFLAGS
    <3>2. ch \notin Controls /\ ibuf' = Append(ibuf, ch) /\ screen' = Wrote(screen, echoc(ch))
      BY <1>5, <3>1 DEF Stored
    <3>3. Wrote(screen, echoc(ch)) = Append(screen, ch)
      BY <1>2, <3>1, <3>2, PlainEcho, Zenon
    <3> QED BY <3>2, <3>3, Zenon
  <2>2. /\ Len(ibuf') = n + 1 /\ Len(screen') = m + 1
        /\ ibuf'[n + 1] = ch /\ screen'[m + 1] = ch
        /\ \A k \in 1 .. n : ibuf'[k] = ibuf[k]
        /\ \A k \in 1 .. m : screen'[k] = screen[k]
    BY <1>3, <1>4, <2>1
  <2>3. \A k \in 1 .. n + 1 : screen'[(m + 1) - (n + 1) + k] = ibuf'[k]
    <3>1. ASSUME NEW k \in 1 .. n
          PROVE  screen'[(m + 1) - (n + 1) + k] = ibuf'[k]
      <4>1. (m + 1) - (n + 1) + k = m - n + k /\ m - n + k \in 1 .. m
        BY <1>4
      <4> QED BY <1>4, <2>2, <4>1
    <3>2. (m + 1) - (n + 1) + (n + 1) = m + 1
      OBVIOUS
    <3>3. screen'[(m + 1) - (n + 1) + (n + 1)] = ibuf'[n + 1]
      BY <2>2, <3>2
    <3>4. \A k \in 1 .. n + 1 : k \in 1 .. n \/ k = n + 1
      OBVIOUS
    <3> QED BY <3>1, <3>3, <3>4
  <2>4. (m + 1) - (n + 1) = m - n /\ m - n \in 1 .. m /\ m + 1 > n + 1
    BY <1>4
  <2> QED BY <1>4, <2>2, <2>3, <2>4 DEF Shows
<1>6. CASE Ended(ch)
  BY <1>6 DEF Ended
<1>7. CASE Back(ch)
  <2>1. CASE ibuf = <<>>
    BY <1>3, <1>4, <1>7, <2>1 DEF Back, Erased, Shows
  <2>2. CASE ibuf # <<>>
    <3>1. n # 0 /\ screen # <<>>
      BY <1>3, <1>4, <2>2, NonEmpty
    <3>2. ibuf' = SubSeq(ibuf, 1, n - 1) /\ screen' = SubSeq(screen, 1, m - 1)
      BY <1>3, <1>7, <2>2, <3>1 DEF Back, Erased
    <3>3. /\ Len(ibuf') = n - 1 /\ Len(screen') = m - 1
          /\ \A k \in 1 .. n - 1 : ibuf'[k] = ibuf[k]
          /\ \A k \in 1 .. m - 1 : screen'[k] = screen[k]
      BY <1>3, <1>4, <3>1, <3>2
    <3> QED BY <1>4, <3>1, <3>3 DEF Shows
  <2> QED BY <2>1, <2>2
<1>8. CASE Cleared(ch)
  <2>1. ibuf' = <<>> /\ screen' = SubSeq(screen, 1, m - n)
    BY <1>3, <1>4, <1>8 DEF Cleared
  <2>2. Len(ibuf') = 0 /\ Len(screen') = m - n /\ screen'[m - n] = screen[m - n]
    BY <1>3, <1>4, <2>1
  <2> QED BY <1>4, <2>2 DEF Shows
<1> QED BY <1>1, <1>5, <1>6, <1>7, <1>8

\* Line editing goes along with the history.
LEMMA TakeAccounted ==
    ASSUME LInv, TtyTakes
    PROVE  Accounted'
<1> USE DEF LInv
<1>1. PICK ch \in Chars : /\ typed' = Append(typed, ch)
                          /\ Stored(ch) \/ Ended(ch) \/ Back(ch) \/ Cleared(ch)
  BY TakeEffect
<1>2. UNCHANGED <<flags, base, baseEol, got>> /\ ~eol
  BY TakeEffect
<1>6. typed' = Append(typed, ch)
  BY <1>1
<1>3. /\ ibuf \in Seq(Chars) /\ base \in Seq(Chars) /\ typed \in Seq(Chars) /\ got \in Seq(Chars)
  BY DEF Typed
<1>4. CASE ~Cooked
  <2>1. ~Cooked' /\ ibuf' = Append(ibuf, ch)
    BY <1>1, <1>2, <1>4 DEF Cooked, Stored, Ended, Back, Cleared
  <2>2. got \o ibuf = base \o typed
    BY <1>4 DEF Accounted
  <2>3. got \o Append(ibuf, ch) = Append(got \o ibuf, ch)
    BY <1>3
  <2>4. base \o Append(typed, ch) = Append(base \o typed, ch)
    BY <1>3
  <2>5. got' \o ibuf' = base' \o typed'
    <3>1. got' = got /\ base' = base
      BY <1>2
    <3>2. got' \o ibuf' = got \o Append(ibuf, ch)
      BY <2>1, <3>1, Zenon
    <3>3. base' \o typed' = base \o Append(typed, ch)
      BY <1>6, <3>1, Zenon
    <3> QED BY <2>2, <2>3, <2>4, <3>2, <3>3, Zenon
  <2> QED BY <2>1, <2>5 DEF Accounted
<1>5. CASE Cooked
  <2>1. Cooked' /\ Start' = Start
    BY <1>2, <1>5 DEF Cooked, Start
  <2>2. PICK ed : ed = Edit(Start, typed)
    OBVIOUS
  <2>3. ed \in EdType /\ ed.cur = ibuf /\ ed.out = got
    BY <1>2, <1>5, <2>2 DEF Accounted, Balanced
  <2>4. Edit(Start, typed)' = EditChar(ed, ch)
    <3>1. Edit(Start, typed)' = Edit(Start, Append(typed, ch))
      BY <1>6, <2>1
    <3> QED BY <1>3, <2>2, <3>1, EditStep
  <2>5. PICK e2 : e2 = EditChar(ed, ch)
    OBVIOUS
  <2>6. Balanced(e2, eol', got, ibuf')
    <3> USE DEF Balanced
    <3>1. CASE Stored(ch) /\ ch = "nl"
      <4>1. e2 = [out |-> got \o Append(ibuf, ch), cur |-> <<>>]
        BY <2>3, <2>5, <3>1 DEF EditChar
      <4>2. eol' = TRUE /\ ibuf' = Append(ibuf, ch)
        BY <1>5, <3>1 DEF Stored
      <4>3. got \o Append(ibuf, ch) \in Seq(Chars) /\ <<>> \in Seq(Chars)
        BY <1>3
      <4> QED BY <4>1, <4>2, <4>3 DEF EdType
    <3>2. CASE Stored(ch) /\ ch # "nl"
      <4>1. e2 = [ed EXCEPT !.cur = Append(@, ch)]
        BY <1>5, <2>5, <3>2 DEF EditChar, Stored, Controls
      <4>2. ~eol' /\ ibuf' = Append(ibuf, ch)
        BY <1>2, <3>2 DEF Stored
      <4>3. Append(ibuf, ch) \in Seq(Chars)
        BY <1>3
      <4>4. e2.out = got /\ e2.cur = Append(ibuf, ch) /\ e2 \in EdType
        BY <1>3, <2>3, <4>1, <4>3 DEF EdType
      <4> QED BY <4>2, <4>4
    <3>3. CASE Ended(ch)
      <4>1. e2 = [out |-> got \o ibuf, cur |-> <<>>]
        BY <2>3, <2>5, <3>3 DEF EditChar, Ended
      <4>2. got \o ibuf \in Seq(Chars) /\ <<>> \in Seq(Chars)
        BY <1>3
      <4> QED BY <3>3, <4>1, <4>2 DEF EdType, Ended
    <3>4. CASE Back(ch)
      <4>1. e2 = [ed EXCEPT !.cur = Erased(@)]
        BY <2>5, <3>4 DEF EditChar, Back
      <4>2. Erased(ibuf) \in Seq(Chars)
        BY <1>3 DEF Erased
      <4> QED BY <1>2, <2>3, <3>4, <4>1, <4>2 DEF EdType, Back
    <3>5. CASE Cleared(ch)
      <4>1. e2 = [ed EXCEPT !.cur = <<>>]
        BY <2>5, <3>5 DEF EditChar, Cleared
      <4> QED BY <1>2, <2>3, <3>5, <4>1, CharFacts DEF EdType, Cleared
    <3> QED BY <1>1, <3>1, <3>2, <3>3, <3>4, <3>5
  <2> QED BY <1>2, <2>1, <2>4, <2>5, <2>6 DEF Accounted
<1> QED BY <1>4, <1>5

LEMMA TakeInv == ASSUME LInv, TtyTakes PROVE LInv'
<1>1. Typed' /\ pc' \in {"read", "raw"} /\ UNCHANGED <<pc, flags>>
  BY TakeEffect DEF LInv
<1>2. ShellMode' /\ LineByLine' /\ WholeLines'
  BY <1>1 DEF LInv, ShellMode, LineByLine, WholeLines, SH_TTYFLAGS
<1> QED BY <1>1, <1>2, TakeOneLine, TakeEchoed, TakeAccounted DEF LInv

-----------------------------------------------------------------------------
(* The other steps. *)

LEMMA Assoc == \A r, t, u \in Seq(Chars) : (r \o t) \o u = r \o (t \o u)
BY ConcatAssociative

\* A new stretch of input.
LEMMA MarkAccounted ==
    ASSUME Typed', base' = ibuf', baseEol' = eol', typed' = <<>>, got' = <<>>
    PROVE  Accounted'
<1>1. ibuf' \in Seq(Chars) /\ eol' \in BOOLEAN /\ <<>> \in Seq(Chars)
  BY CharFacts DEF Typed
<1>2. CASE Cooked'
  <2>1. Edit(Start, typed)' = Start'
    <3>1. Edit(Start, typed)' = Edit(Start', <<>>)
      OBVIOUS
    <3>2. "a" \in Chars
      BY CharFacts
    <3> QED BY <1>1, <3>1, <3>2, EditStep
  <2>2. CASE eol'
    <3>1. Start' = [out |-> ibuf', cur |-> <<>>]
      BY <2>2 DEF Start
    <3>2. got' \o ibuf' = ibuf'
      BY <1>1, ConcatEmptySeq
    <3>3. Balanced(Start', eol', got', ibuf')
      BY <1>1, <2>2, <3>1, <3>2 DEF Balanced, EdType
    <3> QED BY <1>2, <2>1, <3>3 DEF Accounted
  <2>3. CASE ~eol'
    <3>1. Start' = [out |-> <<>>, cur |-> ibuf']
      BY <2>3 DEF Start
    <3>3. Balanced(Start', eol', got', ibuf')
      BY <1>1, <2>3, <3>1 DEF Balanced, EdType
    <3> QED BY <1>2, <2>1, <3>3 DEF Accounted
  <2> QED BY <2>2, <2>3
<1>3. CASE ~Cooked'
  <2>1. got' \o ibuf' = base' \o typed'
    BY <1>1, ConcatEmptySeq
  <2> QED BY <1>3, <2>1 DEF Accounted
<1> QED BY <1>2, <1>3

\* Nothing of the input or of its history changes.
LEMMA SameAccounted ==
    ASSUME Accounted, UNCHANGED <<ibuf, eol, flags, base, baseEol, typed, got>>
    PROVE  Accounted'
<1>1. Cooked' = Cooked /\ Start' = Start
  BY DEF Cooked, Start
<1>2. Edit(Start, typed)' = Edit(Start, typed)
  BY <1>1
<1>3. CASE Cooked
  <2>1. Balanced(Edit(Start, typed), eol, got, ibuf)
    BY <1>3 DEF Accounted
  <2>2. Balanced(Edit(Start, typed)', eol', got', ibuf')
    BY <1>2, <2>1
  <2> QED BY <1>1, <1>3, <2>2 DEF Accounted
<1>4. CASE ~Cooked
  <2>1. got \o ibuf = base \o typed
    BY <1>4 DEF Accounted
  <2>2. got' \o ibuf' = base' \o typed'
    BY <2>1
  <2> QED BY <1>1, <1>4, <2>2 DEF Accounted
<1> QED BY <1>3, <1>4

\* A read yields the first characters of the buffer.
LEMMA YieldEffect ==
    ASSUME LInv, NEW count \in Nat, Yield(count)
    PROVE  \E n \in 0 .. Len(ibuf) :
               /\ Result(count) = SubSeq(ibuf, 1, n) /\ ibuf' = SubSeq(ibuf, n + 1, Len(ibuf))
               /\ SubSeq(ibuf, 1, n) \in Seq(Chars) /\ ibuf' \in Seq(Chars)
               /\ SubSeq(ibuf, 1, n) \o ibuf' = ibuf
               /\ n = IF Len(ibuf) < count THEN Len(ibuf) ELSE count
<1>1. ibuf \in Seq(Chars) /\ Len(ibuf) \in Nat
  BY DEF LInv, Typed
<1>2. PICK n \in 0 .. Len(ibuf) : n = Retct(count)
  BY <1>1 DEF Retct
<1>3. Result(count) = SubSeq(ibuf, 1, n) /\ ibuf' = SubSeq(ibuf, n + 1, Len(ibuf))
  BY <1>2 DEF Result, Yield
<1>4. SubSeq(ibuf, 1, n) \in Seq(Chars) /\ SubSeq(ibuf, n + 1, Len(ibuf)) \in Seq(Chars)
  BY <1>1, <1>2
<1>5. SubSeq(ibuf, 1, n) \o SubSeq(ibuf, n + 1, Len(ibuf)) = SubSeq(ibuf, 1, Len(ibuf))
  <2>1. 1 \in 1 .. Len(ibuf) + 1 /\ n \in 1 - 1 .. Len(ibuf) /\ Len(ibuf) \in n .. Len(ibuf)
    BY <1>1, <1>2
  <2> QED BY <1>1, <2>1, ConcatAdjacentSubSeq, Zenon
<1>6. SubSeq(ibuf, 1, Len(ibuf)) = ibuf
  BY <1>1, SubSeqFull
<1>7. n = IF Len(ibuf) < count THEN Len(ibuf) ELSE count
  BY <1>2 DEF Retct
<1> QED BY <1>2, <1>3, <1>4, <1>5, <1>6, <1>7, Zenon

LEMMA YieldAccounted ==
    ASSUME LInv, NEW count \in Nat, Yield(count)
    PROVE  Accounted' /\ got' \in Seq(Chars) /\ eol' \in BOOLEAN
<1>1. PICK r \in Seq(Chars) : r = Result(count) /\ r \o ibuf' = ibuf /\ ibuf' \in Seq(Chars)
  <2>1. PICK n \in 0 .. Len(ibuf) :
            /\ Result(count) = SubSeq(ibuf, 1, n)
            /\ SubSeq(ibuf, 1, n) \in Seq(Chars) /\ ibuf' \in Seq(Chars)
            /\ SubSeq(ibuf, 1, n) \o ibuf' = ibuf
    BY YieldEffect, Zenon
  <2>2. Result(count) \in Seq(Chars) /\ Result(count) \o ibuf' = ibuf
    BY <2>1, Zenon
  <2> QED BY <2>1, <2>2, Zenon
<1>2. /\ got \in Seq(Chars) /\ ibuf \in Seq(Chars)
      /\ got' = got \o r /\ UNCHANGED <<flags, base, baseEol, typed>>
      /\ Cooked => eol
  BY <1>1 DEF Yield, Yields, LInv, Typed
<1>3. got' \o ibuf' = got \o ibuf /\ got' \in Seq(Chars)
  <2>3. got \in Seq(Chars) /\ r \in Seq(Chars) /\ ibuf' \in Seq(Chars)
    BY <1>1, <1>2
  <2>1. (got \o r) \o ibuf' = got \o (r \o ibuf')
    BY <2>3, Assoc, ZenonT(60)
  <2>2. got' \in Seq(Chars)
    BY <1>1, <1>2
  <2> QED BY <1>1, <1>2, <2>1, <2>2
<1>4. eol' \in BOOLEAN /\ (eol' <=> eol /\ ibuf' # <<>>)
  BY DEF Yield
<1>5. (Cooked' <=> Cooked) /\ Start' = Start
  BY <1>2 DEF Cooked, Start
<1>6. ASSUME Cooked PROVE Accounted'
  <2>1. Edit(Start, typed)' = Edit(Start, typed)
    BY <1>2, <1>5
  <2>2. PICK ed : ed = Edit(Start, typed)
    OBVIOUS
  <2>3. ed \in EdType /\ ed.cur = <<>> /\ ed.out = got \o ibuf
    BY <1>2, <1>6, <2>2 DEF LInv, Accounted, Balanced
  <2>4. CASE eol'
    <3>1. Balanced(ed, eol', got', ibuf')
      BY <1>3, <2>3, <2>4 DEF Balanced
    <3> QED BY <1>5, <1>6, <2>1, <2>2, <3>1 DEF Accounted
  <2>5. CASE ~eol'
    <3>1. ibuf' = <<>>
      BY <1>2, <1>4, <1>6, <2>5
    <3>2. got' \o ibuf' = got'
      BY <1>3, <3>1, ConcatEmptySeq
    <3>3. Balanced(ed, eol', got', ibuf')
      BY <1>3, <2>3, <2>5, <3>1, <3>2 DEF Balanced
    <3> QED BY <1>5, <1>6, <2>1, <2>2, <3>3 DEF Accounted
  <2> QED BY <2>4, <2>5
<1>7. ASSUME ~Cooked PROVE Accounted'
  <2>1. got \o ibuf = base \o typed
    BY <1>7 DEF LInv, Accounted
  <2>2. got' \o ibuf' = base' \o typed'
    BY <1>2, <1>3, <2>1, Zenon
  <2> QED BY <1>5, <1>7, <2>2 DEF Accounted
<1> QED BY <1>3, <1>4, <1>6, <1>7

LEMMA FreeFacts ==
    /\ \A r : r = <<>> => NlFree(r) /\ FrontFree(r)
    /\ \A r \in Seq(Chars) : NlFree(r) => FrontFree(r)
<1>1. \A r : r = <<>> => NlFree(r) /\ FrontFree(r)
  BY DEF NlFree, FrontFree
<1>2. ASSUME NEW r \in Seq(Chars), NlFree(r) PROVE FrontFree(r)
  <2>1. Len(r) \in Nat
    OBVIOUS
  <2> QED BY <1>2, <2>1 DEF NlFree, FrontFree
<1> QED BY <1>1, <1>2

\* A step that writes at most two characters and leaves the input alone.
LEMMA TypedKept ==
    ASSUME Typed, UNCHANGED <<ibuf, eol, line>>, port' \in Seq(Chars), screen' \in Seq(Chars),
           plain' \in BOOLEAN,
           \/ UNCHANGED <<base, baseEol, typed, got>>
           \/ base' = ibuf' /\ baseEol' = eol' /\ typed' = <<>> /\ got' = <<>>
    PROVE  Typed'
BY CharFacts DEF Typed

\* What the kernel writes by itself.
LEMMA Greetings ==
    ASSUME Typed
    PROVE  /\ serial_write(port, <<"a", "nl">>) \in Seq(Chars)
           /\ serial_write(port, <<"a", "sp">>) \in Seq(Chars)
           /\ serial_write(port, <<"nl">>) \in Seq(Chars)
<1>1. /\ <<"a", "nl">> \in Seq(Chars) /\ <<"a", "sp">> \in Seq(Chars) /\ <<"nl">> \in Seq(Chars)
      /\ Len(<<"a", "nl">>) = 2 /\ Len(<<"a", "sp">>) = 2 /\ Len(<<"nl">>) = 1
  BY CharFacts
<1>2. PICK w, v, u : w = <<"a", "nl">> /\ v = <<"a", "sp">> /\ u = <<"nl">>
  OBVIOUS
<1>3. /\ w \in Seq(Chars) /\ Len(w) = 2
      /\ v \in Seq(Chars) /\ Len(v) = 2
      /\ u \in Seq(Chars) /\ Len(u) = 1
  BY <1>1, <1>2
<1>4. port \in Seq(Chars) /\ 1 <= 2 /\ 2 <= 2
  BY DEF Typed
<1>5. /\ serial_write(port, w) \in Seq(Chars) /\ serial_write(port, v) \in Seq(Chars)
      /\ serial_write(port, u) \in Seq(Chars)
  BY <1>3, <1>4, WriteType
<1> QED BY <1>2, <1>5

LEMMA InitLInv == Init => LInv
<1> SUFFICES ASSUME Init PROVE LInv
  OBVIOUS
<1>1. /\ ibuf = <<>> /\ base = <<>> /\ typed = <<>> /\ got = <<>> /\ flags = {}
      /\ pc = "boot" /\ line = <<>> /\ port = <<>> /\ screen = <<>>
      /\ eol = FALSE /\ baseEol = FALSE /\ plain = FALSE
  BY DEF Init, SerialInit, TtyInit
<1>2. Typed /\ ShellMode /\ LineByLine /\ WholeLines /\ Echoed
  BY <1>1, CharFacts DEF Typed, ShellMode, LineByLine, WholeLines, Echoed
<1>3. OneLine
  BY <1>1, FreeFacts DEF OneLine
<1>4. Accounted
  BY <1>1, ConcatEmptySeq DEF Accounted, Cooked
<1> QED BY <1>2, <1>3, <1>4 DEF LInv

LEMMA BootInv == ASSUME LInv, init_log PROVE LInv'
<1>1. /\ pc = "boot" /\ pc' = "open"
      /\ UNCHANGED <<port, ibuf, eol, flags, base, baseEol, typed, got, screen, plain, line>>
  BY DEF init_log, tvars
<1>2. Typed' /\ ShellMode' /\ LineByLine' /\ WholeLines' /\ Echoed'
  BY <1>1 DEF LInv, Typed, ShellMode, LineByLine, WholeLines, Echoed
<1>3. OneLine'
  BY <1>1 DEF LInv, OneLine, NlFree, FrontFree
<1> QED BY <1>1, <1>2, <1>3, SameAccounted DEF LInv

LEMMA OpenInv == ASSUME LInv, kshell_init_run PROVE LInv'
<1>1. /\ pc' = "prompt" /\ screen' = <<>> /\ flags' = SH_TTYFLAGS
      /\ port' = serial_write(port, <<"a", "nl">>)
      /\ base' = ibuf' /\ baseEol' = eol' /\ typed' = <<>> /\ got' = <<>>
      /\ UNCHANGED <<ibuf, eol, plain, line>>
  BY DEF kshell_init_run, tty_ioctl_set, Mark
<1>2. Typed'
  BY <1>1, Greetings, TypedKept, CharFacts DEF LInv, Typed
<1>3. ShellMode' /\ LineByLine' /\ WholeLines' /\ Echoed'
  BY <1>1 DEF ShellMode, LineByLine, WholeLines, Echoed, SH_TTYFLAGS
<1>4. OneLine'
  <2>1. ibuf' \in Seq(Chars)
    BY <1>2 DEF Typed
  <2>2. NlFree(base)' => NlFree(ibuf')
    BY <1>1 DEF NlFree
  <2> QED BY <2>1, <2>2, FreeFacts DEF OneLine, NlFree, FrontFree
<1> QED BY <1>1, <1>2, <1>3, <1>4, MarkAccounted DEF LInv

LEMMA PromptInv == ASSUME LInv, Prompt PROVE LInv'
<1>1. /\ pc = "prompt" /\ pc' = "read" /\ screen' = Shown(screen, ">")
      /\ plain' = StaysPlain(screen, ">")
      /\ port' = serial_write(port, <<"a", "sp">>)
      /\ UNCHANGED <<ibuf, eol, flags, line>>
      /\ \/ ibuf = <<>> /\ base' = ibuf' /\ baseEol' = eol' /\ typed' = <<>> /\ got' = <<>>
         \/ ibuf # <<>> /\ UNCHANGED <<base, baseEol, typed, got>>
  BY DEF Prompt, Mark
<1>2. screen \in Seq(Chars) /\ screen' \in Seq(Chars)
  <2>1. ">" \in Chars /\ screen \in Seq(Chars)
    BY CharFacts DEF LInv, Typed
  <2> QED BY <1>1, <2>1, ShownType
<1>0. plain' \in BOOLEAN /\ (plain' => screen' = Append(screen, ">"))
  <2>1. isprint(">") /\ ">" \notin Controls
    BY DEF isprint, Controls
  <2>2. plain' <=> Len(screen) + 1 < COLS
    BY <1>1, <2>1 DEF StaysPlain
  <2>3. StaysPlain(screen, ">") \in BOOLEAN
    BY DEF StaysPlain
  <2>4. Len(screen) + 1 < COLS => Shown(screen, ">") = Append(screen, ">")
    BY <2>1 DEF Shown
  <2> QED BY <1>1, <2>2, <2>3, <2>4
<1>3. Typed'
  BY <1>0, <1>1, <1>2, Greetings, TypedKept DEF LInv
<1>4. ShellMode' /\ LineByLine' /\ WholeLines'
  BY <1>1 DEF LInv, ShellMode, LineByLine, WholeLines, SH_TTYFLAGS
<1>5. OneLine'
  <2>1. CASE ibuf = <<>>
    BY <1>1, <2>1, FreeFacts DEF OneLine, NlFree, FrontFree
  <2>2. CASE ibuf # <<>>
    BY <1>1, <2>2 DEF LInv, OneLine, NlFree, FrontFree
  <2> QED BY <2>1, <2>2
<1>6. Echoed'
  <2>1. CASE ibuf = <<>> /\ plain'
    <3>1. ibuf' = <<>> /\ Len(ibuf') = 0
      BY <1>1, <2>1
    <3>2. PICK n \in Nat : n = Len(screen)
      BY <1>2
    <3>3. Len(screen') = n + 1 /\ screen'[n + 1] = ">"
      BY <1>0, <1>2, <2>1, <3>2
    <3>4. Shows(ibuf', screen')
      BY <3>1, <3>3 DEF Shows
    <3> QED BY <3>4 DEF Echoed, Shows
  <2>2. CASE ibuf # <<>>
    BY <1>1, <2>2 DEF LInv, WholeLines, Echoed
  <2>3. CASE ~plain'
    BY <2>3 DEF Echoed
  <2> QED BY <2>1, <2>2, <2>3
<1>7. Accounted'
  BY <1>1, <1>3, MarkAccounted, SameAccounted DEF LInv
<1> QED BY <1>3, <1>4, <1>5, <1>6, <1>7 DEF LInv

LEMMA ReadLineInv == ASSUME LInv, ReadLine PROVE LInv'
<1> DEFINE cnt == SH_LINEBUFSZ - 1
<1>0. cnt \in Nat
  BY TerminalAssumption
<1>1. /\ pc = "read" /\ pc' = "run" /\ line' = Result(cnt) /\ Yield(cnt)
      /\ UNCHANGED <<port, screen, plain, flags, base, baseEol, typed>>
  BY DEF ReadLine, Yield, svars
<1> HIDE DEF cnt
<1>2. PICK n \in 0 .. Len(ibuf) :
          /\ line' = SubSeq(ibuf, 1, n) /\ ibuf' = SubSeq(ibuf, n + 1, Len(ibuf))
          /\ line' \in Seq(Chars) /\ ibuf' \in Seq(Chars)
  BY <1>0, <1>1, YieldEffect
<1>3. Accounted' /\ got' \in Seq(Chars) /\ eol' \in BOOLEAN
  BY <1>0, <1>1, YieldAccounted
<1>4. Typed'
  BY <1>1, <1>2, <1>3 DEF LInv, Typed
<1>5. flags = SH_TTYFLAGS /\ Cooked /\ eol /\ (eol' <=> ibuf' # <<>>)
  BY <1>1 DEF LInv, ShellMode, Cooked, SH_TTYFLAGS, Yield, Yields
<1>6. ShellMode' /\ WholeLines' /\ Echoed'
  BY <1>1, <1>5 DEF ShellMode, WholeLines, Echoed, SH_TTYFLAGS
<1>7. ASSUME NlFree(base)
      PROVE  FrontFree(line') /\ FrontFree(ibuf') /\ (~eol' => NlFree(ibuf'))
  <2>1. PICK m \in Nat : m = Len(ibuf) /\ n <= m
    BY <1>2 DEF LInv, Typed
  <2>2. ibuf \in Seq(Chars) /\ n \in Nat /\ \A k \in 1 .. m - 1 : ibuf[k] # "nl"
    BY <1>1, <1>2, <1>7, <2>1 DEF LInv, Typed, OneLine, FrontFree
  <2>3. /\ Len(line') = n /\ \A k \in 1 .. n : line'[k] = ibuf[k]
        /\ Len(ibuf') = m - n /\ \A k \in 1 .. m - n : ibuf'[k] = ibuf[n + k]
    BY <1>2, <2>1, <2>2
  <2>4. FrontFree(line') /\ FrontFree(ibuf')
    BY <2>1, <2>2, <2>3 DEF FrontFree
  <2> QED BY <1>5, <2>4, FreeFacts
<1>8. LineByLine' /\ OneLine'
  <2>1. NlFree(base)' <=> NlFree(base)
    BY <1>1 DEF NlFree
  <2> QED BY <1>7, <2>1 DEF LineByLine, OneLine, NlFree, FrontFree
<1> QED BY <1>3, <1>4, <1>6, <1>8 DEF LInv

LEMMA ReadEofInv == ASSUME LInv, ReadEof PROVE LInv'
<1>1. /\ pc' = "open" /\ ibuf = <<>> /\ eol' = FALSE /\ Cooked
      /\ UNCHANGED <<port, screen, plain, ibuf, flags, base, baseEol, typed, got, line>>
  BY DEF ReadEof, YieldEof, AtEof, svars
<1>2. Typed' /\ ShellMode' /\ LineByLine' /\ WholeLines' /\ Echoed'
  BY <1>1 DEF LInv, Typed, ShellMode, LineByLine, WholeLines, Echoed
<1>3. OneLine'
  BY <1>1, FreeFacts DEF OneLine, NlFree, FrontFree
<1>4. Accounted'
  <2>1. (Cooked' <=> Cooked) /\ Start' = Start
    BY <1>1 DEF Cooked, Start
  <2>2. Edit(Start, typed)' = Edit(Start, typed)
    BY <1>1, <2>1
  <2>3. PICK ed : ed = Edit(Start, typed)
    OBVIOUS
  <2>4. ed \in EdType /\ ed.cur = <<>> /\ ed.out = got
    <3>1. Balanced(ed, eol, got, ibuf) /\ got \o <<>> = got
      BY <1>1, <2>3, ConcatEmptySeq DEF LInv, Accounted, Typed
    <3> QED BY <1>1, <3>1 DEF Balanced
  <2>5. Balanced(ed, eol', got', ibuf')
    BY <1>1, <2>4 DEF Balanced
  <2> QED BY <1>1, <2>1, <2>2, <2>3, <2>5 DEF Accounted
<1> QED BY <1>2, <1>3, <1>4 DEF LInv

\* Commands other than inputtest, and the line that has none.
LEMMA RunInv == ASSUME LInv, RunNothing \/ RunTooMany \/ RunOther PROVE LInv'
<1>1. /\ pc = "run" /\ pc' \in {"prompt", "open"}
      /\ UNCHANGED <<ibuf, eol, flags, base, baseEol, typed, got, plain, line>>
      /\ \/ UNCHANGED <<port, screen>>
         \/ screen' = <<>> /\ port' = serial_write(port, <<"a", "nl">>)
  BY DEF RunNothing, RunTooMany, RunOther, svars, tvars
<1>2. Typed'
  BY <1>1, Greetings, TypedKept, CharFacts DEF LInv, Typed
<1>3. ShellMode' /\ LineByLine' /\ WholeLines' /\ Echoed'
  BY <1>1 DEF LInv, ShellMode, LineByLine, WholeLines, Echoed, SH_TTYFLAGS
<1>4. OneLine'
  BY <1>1 DEF LInv, OneLine, NlFree, FrontFree
<1> QED BY <1>1, <1>2, <1>3, <1>4, SameAccounted DEF LInv

LEMMA RunInputtestInv == ASSUME LInv, RunInputtest PROVE LInv'
<1>1. /\ pc' = "raw" /\ screen' = <<>>
      /\ port' = serial_write(port, <<"a", "nl">>)
      /\ base' = ibuf' /\ baseEol' = eol' /\ typed' = <<>> /\ got' = <<>>
      /\ UNCHANGED <<ibuf, eol, plain, line>>
  BY DEF RunInputtest, tty_ioctl_set, Mark
<1>2. Typed'
  BY <1>1, Greetings, TypedKept, CharFacts DEF LInv, Typed
<1>3. ShellMode' /\ OneLine' /\ LineByLine' /\ WholeLines' /\ Echoed'
  BY <1>1 DEF ShellMode, OneLine, LineByLine, WholeLines, Echoed
<1> QED BY <1>1, <1>2, <1>3, MarkAccounted DEF LInv

LEMMA InputtestCharInv == ASSUME LInv, InputtestChar PROVE LInv'
<1>1. /\ pc' = "raw" /\ Yield(1)
      /\ UNCHANGED <<port, screen, plain, line, base, baseEol, typed>>
  BY DEF InputtestChar, Yield, svars
<1>2. Accounted' /\ got' \in Seq(Chars) /\ eol' \in BOOLEAN /\ ibuf' \in Seq(Chars)
  BY <1>1, YieldAccounted, YieldEffect
<1>3. Typed'
  BY <1>1, <1>2 DEF LInv, Typed
<1>4. ShellMode' /\ OneLine' /\ LineByLine' /\ WholeLines' /\ Echoed'
  BY <1>1 DEF ShellMode, OneLine, LineByLine, WholeLines, Echoed
<1> QED BY <1>2, <1>3, <1>4 DEF LInv

LEMMA InputtestEndsInv == ASSUME LInv, InputtestEnds PROVE LInv'
<1>1. /\ pc' = "prompt" /\ screen' = <<>> /\ flags' = SH_TTYFLAGS
      /\ port' = serial_write(port, <<"nl">>)
      /\ ibuf # <<>> /\ ibuf' = Tail(ibuf) /\ eol' = (eol /\ ibuf' # <<>>)
      /\ base' = ibuf' /\ baseEol' = eol' /\ typed' = <<>> /\ got' = <<>>
      /\ UNCHANGED <<line, plain>>
  BY DEF InputtestEnds, Yields
<1>2. ibuf' \in Seq(Chars)
  BY <1>1 DEF LInv, Typed
<1>3. Typed'
  <2>1. eol' \in BOOLEAN
    BY <1>1
  <2>2. port' \in Seq(Chars) /\ line \in Seq(Chars) /\ plain \in BOOLEAN
    BY <1>1, Greetings DEF LInv, Typed
  <2> QED BY <1>1, <1>2, <2>1, <2>2, CharFacts DEF Typed
<1>4. ShellMode' /\ LineByLine' /\ WholeLines' /\ Echoed'
  BY <1>1 DEF ShellMode, LineByLine, WholeLines, Echoed, SH_TTYFLAGS
<1>5. OneLine'
  <2>1. NlFree(base)' => NlFree(ibuf')
    BY <1>1 DEF NlFree
  <2> QED BY <1>2, <2>1, FreeFacts DEF OneLine, NlFree, FrontFree
<1> QED BY <1>1, <1>3, <1>4, <1>5, MarkAccounted DEF LInv

LEMMA TypeInv == ASSUME LInv, NEW k \in Keys, Type(k) PROVE LInv'
<1>1. /\ port' = Append(port, k)
      /\ UNCHANGED <<pc, ibuf, eol, flags, base, baseEol, typed, got, screen, plain, line>>
  BY DEF Type, Receive, tvars
<1>2. Typed'
  BY <1>1, CharFacts DEF LInv, Typed
<1>3. ShellMode' /\ LineByLine' /\ WholeLines'
  BY <1>1 DEF LInv, ShellMode, LineByLine, WholeLines, SH_TTYFLAGS
<1>4. OneLine' /\ Echoed'
  BY <1>1 DEF LInv, OneLine, NlFree, FrontFree, Echoed, Shows
<1> QED BY <1>1, <1>2, <1>3, <1>4, SameAccounted DEF LInv

\* Nothing happens.
LEMMA StutterInv == ASSUME LInv, UNCHANGED vars PROVE LInv'
<1>1. UNCHANGED <<port, pc, ibuf, eol, flags, base, baseEol, typed, got, screen, plain, line>>
  BY DEF vars, svars, tvars
<1>2. Typed' /\ ShellMode' /\ LineByLine' /\ WholeLines'
  BY <1>1 DEF LInv, Typed, ShellMode, LineByLine, WholeLines, SH_TTYFLAGS
<1>3. OneLine' /\ Echoed'
  BY <1>1 DEF LInv, OneLine, NlFree, FrontFree, Echoed, Shows
<1> QED BY <1>1, <1>2, <1>3, SameAccounted DEF LInv

LEMMA NextLInv == LInv /\ [Next]_vars => LInv'
<1> SUFFICES ASSUME LInv, [Next]_vars PROVE LInv'
  OBVIOUS
<1>1. CASE Shell
  BY <1>1, BootInv, OpenInv, PromptInv, TakeInv, ReadLineInv, ReadEofInv, RunInv,
     RunInputtestInv, InputtestCharInv, InputtestEndsInv DEF Shell
<1>2. CASE \E k \in Keys : Type(k)
  BY <1>2, TypeInv
<1>3. CASE UNCHANGED vars
  BY <1>3, StutterInv
<1> QED BY <1>1, <1>2, <1>3 DEF Next

-----------------------------------------------------------------------------
(* LInv holds in every reachable state: the types, the shell's mode, what  *)
(* may be in the line buffer and on the screen at each place of the shell  *)
(* (kshell.c, tty.c), and what the line editing owes to the history.       *)
THEOREM TerminalInductive == Spec => []LInv
BY InitLInv, NextLInv, PTL DEF Spec

(* No character that is typed is lost, doubled or out of order (tty.c      *)
(* 121-224), for every size of the buffers.                                *)
THEOREM NothingTypedIsLost == Spec => []NothingLost
<1>1. LInv => NothingLost
  <2> SUFFICES ASSUME LInv PROVE NothingLost
    OBVIOUS
  <2>1. CASE Cooked
    <3>1. PICK ed : ed = Edit(Start, typed)
      OBVIOUS
    <3>2. Balanced(ed, eol, got, ibuf) /\ Edited = ed.out \o ed.cur
      BY <2>1, <3>1 DEF LInv, Accounted, Edited
    <3>3. got \o ibuf \in Seq(Chars) /\ (got \o ibuf) \o <<>> = got \o ibuf
      <4>1. got \o ibuf \in Seq(Chars)
        BY DEF LInv, Typed
      <4> QED BY <4>1, ConcatEmptySeq
    <3>4. ed.out \o ed.cur = got \o ibuf
      BY <3>2, <3>3 DEF Balanced
    <3> QED BY <2>1, <3>2, <3>4 DEF NothingLost
  <2>2. CASE ~Cooked
    BY <2>2 DEF LInv, Accounted, NothingLost
  <2> QED BY <2>1, <2>2
<1> QED BY <1>1, TerminalInductive, PTL

(* A line that the shell runs has a newline only at its end (devices.h 38, *)
(* tty.c 190-224), but for what inputtest left in the buffer.              *)
THEOREM LinesComeWhole == Spec => []LineByLine
<1>1. LInv => LineByLine
  BY DEF LInv
<1> QED BY <1>1, TerminalInductive, PTL

(* As long as only printable characters are typed and the line fits the    *)
(* row, the terminal ends with the prompt and the line that is edited      *)
(* (tty.c 78-139), for every width of the terminal.                        *)
THEOREM ScreenShowsLine == Spec => []EchoShowsLine
<1>1. LInv => EchoShowsLine
  <2> SUFFICES ASSUME LInv, pc = "read", base = <<>>, ~eol, plain
               PROVE  IsSuffix(<<">">> \o ibuf, screen)
    BY DEF EchoShowsLine
  <2>1. Shows(ibuf, screen) /\ ibuf \in Seq(Chars) /\ screen \in Seq(Chars)
    BY DEF LInv, Echoed, Typed
  <2>2. PICK n \in Nat, m \in Nat : n = Len(ibuf) /\ m = Len(screen)
    BY <2>1
  <2>3. PICK l : l = <<">">> \o ibuf
    OBVIOUS
  <2>4. /\ l \in Seq(Chars) /\ Len(l) = n + 1 /\ l[1] = ">"
        /\ \A k \in 1 .. n : l[k + 1] = ibuf[k]
    <3>1. <<">">> \in Seq(Chars) /\ Len(<<">">>) = 1 /\ <<">">>[1] = ">"
      BY CharFacts
    <3> QED BY <2>1, <2>2, <2>3, <3>1
  <2>5. m > n /\ \A k \in 0 .. n : screen[m - n + k] = l[k + 1]
    <3>1. m > n /\ screen[m - n] = ">" /\ \A k \in 1 .. n : screen[m - n + k] = ibuf[k]
      BY <2>1, <2>2 DEF Shows
    <3>2. m - n + 0 = m - n /\ 0 + 1 = 1 /\ \A k \in 0 .. n : k = 0 \/ k \in 1 .. n
      OBVIOUS
    <3> QED BY <2>4, <3>1, <3>2
  <2>6. PICK p, q : p = Reverse(l) /\ q = Reverse(screen)
    OBVIOUS
  <2>7. /\ p \in Seq(Chars) /\ Len(p) = n + 1 /\ q \in Seq(Chars) /\ Len(q) = m
        /\ \A k \in 1 .. n + 1 : p[k] = l[(n + 1) - k + 1]
        /\ \A k \in 1 .. m : q[k] = screen[m - k + 1]
    BY <2>1, <2>2, <2>4, <2>6 DEF Reverse
  <2>8. ASSUME NEW k \in 1 .. n + 1 PROVE p[k] = q[k]
    <3>1. PICK j \in 0 .. n : j = n + 1 - k
      OBVIOUS
    <3>2. (n + 1) - k + 1 = j + 1 /\ m - k + 1 = m - n + j /\ k \in 1 .. m
      BY <2>5, <3>1
    <3> QED BY <2>5, <2>7, <3>2
  <2>9. SubSeq(p, 1, n + 1) = SubSeq(q, 1, n + 1)
    BY <2>5, <2>7, <2>8
  <2> QED BY <2>3, <2>5, <2>6, <2>7, <2>9 DEF IsSuffix, IsPrefix
<1> QED BY <1>1, TerminalInductive, PTL
=============================================================================
