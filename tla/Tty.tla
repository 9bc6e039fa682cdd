-------------------------------- MODULE Tty ---------------------------------
(***************************************************************************)
(* The terminal driver (drivers/chrdev/tty.c) over a serial port: line     *)
(* buffer, line editing in cooked mode, echo.  tty_read takes characters   *)
(* one by one while the port has any (Take), then yields what it has to    *)
(* the caller (Yield) or returns -EAGAIN, which changes nothing.           *)
(*                                                                         *)
(* base, typed and got are history: what was in the buffer when the        *)
(* current stretch of input began, what has been taken since and what has  *)
(* been yielded since.  screen is the row of the terminal that the cursor  *)
(* is on, up to the cursor; plain is history: since the prompt every       *)
(* character that was echoed took one column of the prompt's row.          *)
(***************************************************************************)
EXTENDS Serial

CONSTANTS
    IBUFSZ,
    COLS, TABSZ         \* external: the terminal's width and its tab stops

ASSUME TtyAssumption ==
    IBUFSZ \in Nat \ {0} /\ COLS \in Nat \ {0, 1} /\ TABSZ \in Nat \ {0}

VARIABLES
    ibuf, eol, eof, flags,      \* fields of struct tty
    base, baseEol, typed, got,
    screen, plain

tvars == <<ibuf, eol, eof, flags, base, baseEol, typed, got, screen, plain>>

SH_TTYFLAGS == {"ECHO", "COOKED"}
Cooked == "COOKED" \in flags
Controls == {"D", "bs", "U"}

TtyInit ==
    /\ ibuf = <<>> /\ eol = FALSE /\ eof = FALSE /\ flags = {}
    /\ base = <<>> /\ baseEol = FALSE /\ typed = <<>> /\ got = <<>>
    /\ screen = <<>> /\ plain = FALSE

isprint(ch) == ch \in {"a", "i", "sp", "^", ">"}

\* External: the row after the terminal got one character.  A row that is full
\* wraps; a tab goes to the next stop, at most to the last column; control
\* characters show nothing.
TabColumns(s) ==
    LET stop == TABSZ - (Len(s) % TABSZ)
        last == COLS - 1 - Len(s)
    IN  IF stop < last THEN stop ELSE last
Shown(s, ch) ==
    CASE ch \in {"nl", "cr"} -> <<>>
      [] ch = "tab"   -> s \o [k \in 1 .. TabColumns(s) |-> "sp"]
      [] isprint(ch) -> IF Len(s) + 1 < COLS THEN Append(s, ch) ELSE <<>>
      [] OTHER       -> s

\* The row after "\b \b": one column less, and never back to the row above.
Erased(s) == IF s = <<>> THEN s ELSE SubSeq(s, 1, Len(s) - 1)

\* What is written to echo ch as it is.
echoc(ch) ==
    IF "ECHO" \notin flags THEN <<>>
    ELSE IF "ECHOCTL" \notin flags \/ isprint(ch) \/ ch \in {"nl", "cr", "tab"} THEN <<ch>>
    ELSE <<"^", "a">>

Wrote(s, w) ==
    IF w = <<>> THEN s
    ELSE IF Len(w) = 1 THEN Shown(s, w[1]) ELSE Shown(Shown(s, w[1]), w[2])

add_to_inbuf(ch, p) ==
    /\ ibuf' = Append(ibuf, ch)
    /\ screen' = Wrote(screen, echoc(ch))
    /\ port' = serial_write(p, echoc(ch))

\* Bug: the cursor moves, the character stays in the buffer's way.
backspace_one(p) ==
    /\ ibuf' = ibuf
    /\ screen' = IF ibuf # <<>> THEN Erased(screen) ELSE screen
    /\ port' = p

\* Bug: backspace on an empty line is echoed too.
backspace_echo(p) ==
    /\ ibuf' = Erased(ibuf)
    /\ screen' = Erased(screen)
    /\ port' = p

backspace(p) ==
    /\ ibuf' = Erased(ibuf)
    /\ screen' = IF ibuf # <<>> THEN Erased(screen) ELSE screen
    /\ port' = p

\* One backspace for each character in the buffer.
clearline(p) ==
    /\ ibuf' = <<>>
    /\ screen' = SubSeq(screen, 1, IF Len(screen) < Len(ibuf) THEN 0 ELSE Len(screen) - Len(ibuf))
    /\ port' = p

on_eof(p) ==
    /\ eol' = TRUE
    /\ eof' = (ibuf = <<>>)
    /\ screen' = <<>>
    /\ port' = p
    /\ UNCHANGED ibuf

\* Bug: a newline is stored like any other character.
tty_inchar_on(ch, p) ==
    \/ /\ (Cooked => ch \notin Controls)
       /\ add_to_inbuf(ch, p)
       /\ UNCHANGED <<eol, eof>>
    \/ Cooked /\ ch = "D" /\ on_eof(p)
    \/ Cooked /\ ch = "bs" /\ backspace(p) /\ UNCHANGED <<eol, eof>>
    \/ Cooked /\ ch = "U" /\ clearline(p) /\ UNCHANGED <<eol, eof>>

\* ch has been taken off the port, which leaves p.
tty_inchar(ch, p) ==
    \/ /\ (Cooked => ch \notin Controls)
       /\ add_to_inbuf(ch, p)
       /\ eol' = (eol \/ (Cooked /\ ch = "nl"))
       /\ UNCHANGED eof
    \/ Cooked /\ ch = "D" /\ on_eof(p)
    \/ Cooked /\ ch = "bs" /\ backspace(p) /\ UNCHANGED <<eol, eof>>
    \/ Cooked /\ ch = "U" /\ clearline(p) /\ UNCHANGED <<eol, eof>>

\* The loop of tty_read goes on.
Reading == Len(ibuf) < IBUFSZ /\ ~eol /\ port # <<>>

\* ch edits the line, or its echo takes one column of row s.
StaysPlain(s, ch) == ch \in Controls \/ (isprint(ch) /\ Len(s) + 1 < COLS)

Take ==
    /\ Reading
    /\ LET ch == ifilter(Head(port))
       IN  /\ tty_inchar(ch, Tail(port))
           /\ typed' = Append(typed, ch)
           /\ plain' = (plain /\ StaysPlain(screen, ch))
    /\ UNCHANGED <<uart, crnl, flags, base, baseEol, got>>

\* The loop is over and there is something for the caller.
Yields == ~Reading /\ ibuf # <<>> /\ (Cooked => eol)
Retct(count) == IF Len(ibuf) < count THEN Len(ibuf) ELSE count
Result(count) == SubSeq(ibuf, 1, Retct(count))

Yield(count) ==
    /\ Yields
    /\ ibuf' = SubSeq(ibuf, Retct(count) + 1, Len(ibuf))
    /\ eol' = (eol /\ ibuf' # <<>>)
    /\ got' = got \o Result(count)
    /\ UNCHANGED <<eof, flags, base, baseEol, typed, plain>>

\* The caller is told that the input has ended.
AtEof == ~Reading /\ ibuf = <<>> /\ Cooked /\ eof
\* Bug: only the end of file is forgotten, not the end of line.
YieldEofHalf ==
    /\ AtEof
    /\ eof' = FALSE
    /\ UNCHANGED <<ibuf, eol, flags, base, baseEol, typed, got, plain>>

YieldEof ==
    /\ AtEof
    /\ eof' = FALSE /\ eol' = FALSE
    /\ UNCHANGED <<ibuf, flags, base, baseEol, typed, got, plain>>

\* A new stretch of input begins with what is in the buffer.
Mark ==
    /\ base' = ibuf /\ baseEol' = eol
    /\ typed' = <<>> /\ got' = <<>>

tty_ioctl_set(fl) == flags' = fl /\ Mark /\ UNCHANGED <<ibuf, eol, eof, plain>>
=============================================================================
