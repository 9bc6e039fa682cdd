------------------------------ MODULE Terminal ------------------------------
(***************************************************************************)
(* The kernel shell's dialogue with its user (kernel/kshell.c, kernel.c):  *)
(* boot opens the serial port, then the terminal; the shell prompts, polls *)
(* the terminal for a line, breaks it into words and runs a command.  The  *)
(* built-in inputtest puts the terminal in raw mode until it reads ^D.     *)
(* Other commands only print; what programs do is in module Kernel.        *)
(*                                                                         *)
(* Keys: a letter "a", "i" (the whole name of inputtest), a space "sp", a  *)
(* tab "tab", Enter "cr", ^D "D", backspace "bs", ^U "U", and "A" for the  *)
(* control characters that mean nothing to the driver, such as ^A.         *)
(***************************************************************************)
EXTENDS Tty, SequencesExt

CONSTANTS
    SH_LINEBUFSZ, SH_ARGVSZ,
    Keys, MaxKeys       \* what the user may type, bound: how many times

ASSUME TerminalAssumption ==
    SH_LINEBUFSZ \in Nat \ {0, 1} /\ SH_ARGVSZ \in Nat \ {0} /\ MaxKeys \in Nat

VARIABLES
    pc,         \* what the kernel is about to do
    line,       \* linebuf of kshell_read_exec: the result of the last read
    keys        \* keys typed so far

vars == <<svars, tvars, pc, line, keys>>

Init ==
    /\ SerialInit /\ TtyInit
    /\ pc = "boot" /\ line = <<>> /\ keys = 0

\* init_log: kernel_main goes on whatever it returns.
init_log ==
    /\ pc = "boot"
    /\ pc' = "open"
    /\ \/ serial_open_dev(TRUE) /\ serial_ioctl_set
       \/ serial_open_dev(FALSE) /\ UNCHANGED crnl
    /\ UNCHANGED <<port, tvars, line, keys>>

\* kshell_init_run: the terminal is opened, once, on the same port; the shell
\* greets and sets its flags.
kshell_init_run ==
    /\ pc = "open"
    /\ serial_reopen
    /\ pc' = "prompt"
    /\ screen' = <<>>
    /\ port' = serial_write(port, <<"a", "nl">>)
    /\ tty_ioctl_set(SH_TTYFLAGS)
    /\ UNCHANGED <<crnl, line, keys>>

Prompt ==
    /\ pc = "prompt"
    /\ pc' = "read"
    /\ screen' = Shown(screen, ">")
    /\ plain' = StaysPlain(screen, ">")
    /\ port' = serial_write(port, <<"a", "sp">>)
    /\ IF ibuf = <<>> THEN Mark ELSE UNCHANGED <<base, baseEol, typed, got>>
    /\ UNCHANGED <<uart, crnl, ibuf, eol, eof, flags, line, keys>>

TtyTakes ==
    /\ pc \in {"read", "raw"}
    /\ Take
    /\ UNCHANGED <<pc, line, keys>>

\* The line has been read and is yet to be run.
ReadLine ==
    /\ pc = "read"
    /\ Yield(SH_LINEBUFSZ - 1)
    /\ line' = Result(SH_LINEBUFSZ - 1)
    /\ pc' = "run"
    /\ UNCHANGED <<svars, screen, keys>>

\* End of file: kshell_run returns and the kernel starts a fresh shell.
ReadEof ==
    /\ pc = "read"
    /\ YieldEof
    /\ pc' = "open"
    /\ UNCHANGED <<svars, screen, line, keys>>

-----------------------------------------------------------------------------
isspace(ch) == ch \in {"sp", "nl", "cr", "tab"}
isgraph(ch) == ch \in {"a", "i", "^"}

\* First characters of the words of l: control characters neither begin a
\* word nor end one.
Starts(l) ==
    {k \in 1 .. Len(l) :
        /\ isgraph(l[k])
        /\ \A j \in 1 .. k - 1 : isgraph(l[j]) => \E h \in j .. k : isspace(l[h])}
sh_break_cmdline(l) == Cardinality(Starts(l))

\* argv[0] is the name of inputtest and nothing else.
IsInputtest(l) ==
    \E k \in Starts(l) :
        /\ \A j \in Starts(l) : k <= j
        /\ l[k] = "i"
        /\ k < Len(l) => isspace(l[k + 1])

Argc == sh_break_cmdline(line)

\* A line without words: the shell prompts again.
RunNothing ==
    /\ pc = "run" /\ Argc = 0
    /\ pc' = "prompt"
    /\ UNCHANGED <<svars, tvars, line, keys>>

\* -E2BIG ends kshell_run: a fresh shell.
RunTooMany ==
    /\ pc = "run" /\ Argc > SH_ARGVSZ - 1
    /\ pc' = "open"
    /\ UNCHANGED <<svars, tvars, line, keys>>

RunInputtest ==
    /\ pc = "run" /\ Argc \in 1 .. SH_ARGVSZ - 1
    /\ IsInputtest(line)
    /\ pc' = "raw"
    /\ tty_ioctl_set((flags \ {"COOKED"}) \cup {"ECHO", "ECHOCTL"})
    /\ screen' = <<>>
    /\ port' = serial_write(port, <<"a", "nl">>)
    /\ UNCHANGED <<uart, crnl, line, keys>>

\* Any other built-in or the message that there is no such: the shell prompts
\* again.  A program: most end in kernel_noreturn, which starts a fresh shell.
RunOther ==
    /\ pc = "run" /\ Argc \in 1 .. SH_ARGVSZ - 1
    /\ ~IsInputtest(line)
    /\ pc' \in {"prompt", "open"}
    /\ screen' = <<>>
    /\ port' = serial_write(port, <<"a", "nl">>)
    /\ UNCHANGED <<uart, crnl, ibuf, eol, eof, flags, base, baseEol, typed, got, plain, line, keys>>

\* One turn of cmd_inputtest's loop that does not end it.
InputtestChar ==
    /\ pc = "raw" /\ Yield(1)
    /\ Result(1) # <<"D">>
    /\ UNCHANGED <<svars, screen, pc, line, keys>>

\* It reads ^D, writes a newline and restores the flags.  What has been read
\* ahead stays in the line buffer.
InputtestEnds ==
    /\ pc = "raw" /\ Yields
    /\ Result(1) = <<"D">>
    /\ ibuf' = Tail(ibuf)
    /\ eol' = (eol /\ ibuf' # <<>>)
    /\ flags' = SH_TTYFLAGS
    /\ base' = ibuf' /\ baseEol' = eol' /\ typed' = <<>> /\ got' = <<>>
    /\ screen' = <<>>
    /\ port' = serial_write(port, <<"nl">>)
    /\ pc' = "prompt"
    /\ UNCHANGED <<uart, crnl, eof, plain, line, keys>>

\* External: the user.
Type(k) ==
    /\ keys < MaxKeys
    /\ Receive(k)
    /\ keys' = keys + 1
    /\ UNCHANGED <<tvars, pc, line>>

Shell ==
    \/ init_log \/ kshell_init_run \/ Prompt \/ TtyTakes \/ ReadLine \/ ReadEof
    \/ RunNothing \/ RunTooMany \/ RunInputtest \/ RunOther
    \/ InputtestChar \/ InputtestEnds

Next == Shell \/ \E k \in Keys : Type(k)

\* kshell_run polls without end.
Spec == Init /\ [][Next]_vars /\ WF_vars(Shell)

-----------------------------------------------------------------------------
\* The finished part and the unfinished line of cooked input.
EditChar(ed, ch) ==
    CASE ch = "nl" -> [out |-> ed.out \o Append(ed.cur, ch), cur |-> <<>>]
      [] ch = "D"  -> [out |-> ed.out \o ed.cur, cur |-> <<>>]
      [] ch = "bs" -> [ed EXCEPT !.cur = Erased(@)]
      [] ch = "U"  -> [ed EXCEPT !.cur = <<>>]
      [] OTHER     -> [ed EXCEPT !.cur = Append(@, ch)]
\* What the characters s make of ed, one after the other.
Edit(ed, s) ==
    LET upto[n \in 0 .. Len(s)] ==
            IF n = 0 THEN ed ELSE EditChar(upto[n - 1], s[n])
    IN  upto[Len(s)]
Start == IF baseEol THEN [out |-> base, cur |-> <<>>] ELSE [out |-> <<>>, cur |-> base]
Edited == LET ed == Edit(Start, typed) IN ed.out \o ed.cur

(* Nothing that is typed is lost, doubled or out of order: what has been   *)
(* read and what is in the line buffer are together what was there before  *)
(* followed by the input, with the line editing applied in cooked mode     *)
(* (tty.c 121-224), also when lines are read in parts or buffers are full. *)
NothingLost == got \o ibuf = IF Cooked THEN Edited ELSE base \o typed

(* "Cooked mode: read line-by-line" (devices.h 38): a line that the shell  *)
(* runs has a newline only at its end, unless there were newlines in the   *)
(* buffer when the flags were last set: inputtest may leave typed-ahead    *)
(* ones when it restores cooked mode (kshell.c 143-156).                   *)
LineByLine ==
    pc = "run" /\ (\A k \in 1 .. Len(base) : base[k] # "nl") =>
        \A k \in 1 .. Len(line) - 1 : line[k] # "nl"

(* As long as only printable characters are typed and the line fits the    *)
(* row, the terminal shows the prompt and the line while it is edited, and *)
(* erasing, one column for each character (tty.c 78-139), never reaches    *)
(* the prompt.  It does after a control character, and a tab or a line     *)
(* that wraps leaves a part that is not erased.  What inputtest left in    *)
(* the buffer was echoed before the prompt and is excepted too.            *)
EchoShowsLine ==
    pc = "read" /\ uart = "normal" /\ base = <<>> /\ ~eol /\ plain =>
        IsSuffix(<<">">> \o ibuf, screen)

\* The line buffer is full and has no end: tty_read neither reads nor yields.
Stuck == pc = "read" /\ Len(ibuf) = IBUFSZ /\ ~eol

(* What is typed is taken off the port, or the line buffer fills up without *)
(* an end of line and the shell waits for ever (tty.c 190, 212).           *)
InputTaken ==
    \A n \in 1 .. PortMax :
        uart = "normal" /\ Len(port) = n ~> (Len(port) # n \/ []Stuck)
=============================================================================
