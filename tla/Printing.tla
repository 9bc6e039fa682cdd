------------------------------ MODULE Printing ------------------------------
(***************************************************************************)
(* Formatted output: the loop of snprintf_impl and process_conversion, one *)
(* action per kind of character, and the callers that format into a buffer *)
(* of a default size and once more into one of the right size: the         *)
(* kernel's file_vprintf, the programs' vfprintf and the log's _vlogf.     *)
(* The log builds a line from several formats, one snprintf after the      *)
(* other in what is left of the buffer; the other callers have one.        *)
(***************************************************************************)
EXTENDS Sprintf, TLC

CONSTANTS
    DEFAULT_BUFSZ,
    Calls       \* a call: [parts |-> sequence of parts, file |-> BOOLEAN]; a
                \* part: sequence of items, literal text or a conversion
ASSUME PrintingAssumption == DEFAULT_BUFSZ \in Nat \ {0}

VARIABLES
    call,       \* the call in progress
    ppc,        \* "idle", "text", "spec", "done"
    part,       \* number of the part that is formatted
    fi, ai,     \* next character of its format, next argument
    spec, wp, zero_is_flag,     \* process_conversion's locals
    mem,        \* the buffer and, at its end, one byte that is not part of it
    bufsz, pos, \* its size; where this part's snprintf began
    s,          \* where the next character goes
    written,    \* what was written to the file
    res         \* what the caller returns: a length or "ENOTSUP"

printing == <<call, ppc, part, fi, ai, spec, wp, zero_is_flag, mem, bufsz, pos, s,
              written, res>>
locals == <<spec, wp, zero_is_flag>>

(***************************************************************************)
(* A literal item is [lit |-> text].  A conversion has flags, a length     *)
(* modifier len and a conversion character conv, and its argument, the     *)
(* number v or the text str; the width w and the precision p are written   *)
(* in the format when wk and pk are "num" and are arguments when "star".   *)
(* A format that ends in the middle of a conversion has its terminator     *)
(* there.                                                                  *)
(***************************************************************************)
\* Conversions of a number and of a text, with flags, width and precision or
\* with none.
Item(f, w, p, l, c, v, t) == [flags |-> f, wk |-> w[1], w |-> w[2], pk |-> p[1], p |-> p[2],
                              len |-> l, conv |-> c, v |-> v, str |-> t]
Conv(f, w, p, l, c, v) == Item(f, w, p, l, c, v, <<>>)
Text(f, w, p, c, t) == Item(f, w, p, <<>>, c, 0, t)
None == <<"none", 0>>
Plain(c, v) == Conv(<<>>, None, None, <<>>, c, v)
Str(t) == Text(<<>>, None, None, "s", t)
Lit(t) == [lit |-> t]

\* The formats of a line of the log, one snprintf each; result, valname,
\* valdecode and postfix are empty or hold one value, an error is shown by a
\* name.
log_vsnprintf(lvl, result, prefix, valname, msg, valdecode, postfix) ==
    LET colon == Lit(<<":", " ">>)
        shown == IF result = <<0>> THEN <<Lit(<<"[", "O", "K", "]", " ">>)>>
                 ELSE IF result[1] < 0 THEN <<Lit(<<"[", "-">>), Str(<<"E">>), Lit(<<"]", " ">>)>>
                 ELSE <<Lit(<<"[">>), Plain("d", result[1]), Lit(<<"]", " ">>)>>
    IN  <<<<Text(<<"-">>, <<"num", 7>>, None, "s", lvl), colon>>>>
        \o [i \in DOMAIN result |-> shown]
        \o <<<<Str(prefix), colon>>>>
        \o [i \in DOMAIN valname |-> <<Text(<<"-">>, <<"star", 5>>, None, "s", valname[i]), colon>>]
        \o <<msg>>
        \o [i \in DOMAIN valdecode |-> <<Lit(<<" ", "(">>), Str(valdecode[i]), Lit(<<")">>)>>]
        \o [i \in DOMAIN postfix |-> <<Str(postfix[i])>>]

Numeral(n) == IF n < 10 THEN <<Lower[n + 1]>>
              ELSE <<Lower[(n \div 10) + 1], Lower[(n % 10) + 1]>>
Number(kind, n) == IF kind = "num" THEN Numeral(n)
                   ELSE IF kind = "star" THEN <<"*">> ELSE <<>>
IsLit(item) == "lit" \in DOMAIN item
Chars(item) ==
    IF IsLit(item) THEN item.lit
    ELSE <<"%">> \o item.flags \o Number(item.wk, item.w)
            \o (IF item.pk = "none" THEN <<>> ELSE <<".">> \o Number(item.pk, item.p))
            \o item.len \o <<item.conv>>
Argument(item) == IF item.conv = "s" THEN item.str
                  ELSE IF item.conv = "c" THEN item.str[1] ELSE item.v
Arguments(item) ==
    IF IsLit(item) THEN <<>>
    ELSE (IF item.wk = "star" THEN <<item.w>> ELSE <<>>)
            \o (IF item.pk = "star" THEN <<item.p>> ELSE <<>>)
            \o (IF item.conv = "%" THEN <<>> ELSE <<Argument(item)>>)
fmt(n) == FlattenSeq([i \in DOMAIN call.parts[n] |-> Chars(call.parts[n][i])])
args(n) == FlattenSeq([i \in DOMAIN call.parts[n] |-> Arguments(call.parts[n][i])])

Fresh(size) == [i \in 0 .. size |-> IF i < size THEN "?" ELSE "guard"]
BUFREM == IF pos < bufsz THEN bufsz - pos ELSE 0
Buffer == [buf |-> mem, s |-> s, t |-> pos + BUFREM]

PrintingInit ==
    /\ call = [parts |-> <<>>, file |-> FALSE] /\ ppc = "idle"
    /\ part = 1 /\ fi = 1 /\ ai = 1
    /\ spec = fmtspec0 /\ wp = "w" /\ zero_is_flag = TRUE
    /\ mem = Fresh(0) /\ bufsz = 0 /\ pos = 0 /\ s = 0
    /\ written = <<>> /\ res = 0

\* A buffer of the given size; formatting starts with the first part.
try_format(size) ==
    /\ bufsz' = size /\ mem' = Fresh(size)
    /\ part' = 1 /\ fi' = 1 /\ ai' = 1 /\ pos' = 0 /\ s' = 0
    /\ ppc' = "text"

PrintCall ==
    /\ ppc = "idle"
    /\ \E c \in Calls :
        /\ call' = c
        /\ c.file /\ try_format(DEFAULT_BUFSZ)
    /\ UNCHANGED <<locals, written, res>>

\* _vlogf before log_set_file: -EBADF.
PrintNoFile ==
    /\ ppc = "idle"
    /\ \E c \in Calls : ~c.file /\ call' = c
    /\ ppc' = "done" /\ res' = "EBADF"
    /\ UNCHANGED <<part, fi, ai, locals, mem, bufsz, pos, s, written>>

Format == fmt(part)
More == ppc = "text" /\ fi <= Len(Format)

\* Output of the pieces of Sprintf.
Put(b) == mem' = b.buf /\ s' = b.s

PlainChar ==
    /\ More /\ Format[fi] # "%"
    /\ Put(outstr(Buffer, <<Format[fi]>>))
    /\ fi' = fi + 1
    /\ UNCHANGED <<call, ppc, part, ai, locals, bufsz, pos, written, res>>

StartConversion ==
    /\ More /\ Format[fi] = "%"
    /\ ppc' = "spec" /\ fi' = fi + 1
    /\ spec' = fmtspec0 /\ wp' = "w" /\ zero_is_flag' = TRUE
    /\ UNCHANGED <<call, part, ai, mem, bufsz, pos, s, written, res>>

Ch == Format[fi]
InSpec == ppc = "spec" /\ fi <= Len(Format)
Flags == "-" :> "left" @@ "+" :> "plus" @@ " " :> "space" @@ "#" :> "alt"

FlagChar ==
    /\ InSpec /\ Ch \in DOMAIN Flags
    /\ spec' = [spec EXCEPT ![Flags[Ch]] = TRUE]
    /\ fi' = fi + 1
    /\ UNCHANGED <<call, ppc, part, ai, wp, zero_is_flag, mem, bufsz, pos, s, written, res>>

DigitValue == [c \in {Lower[i] : i \in 1 .. 10} |-> (CHOOSE i \in 1 .. 10 : Lower[i] = c) - 1]

ZeroIsFlag(c) == c = "0" /\ zero_is_flag

\* The first zero may be a flag; other digits add to the width or precision.
DigitChar ==
    /\ InSpec /\ Ch \in DOMAIN DigitValue
    /\ spec' = IF ZeroIsFlag(Ch) THEN [spec EXCEPT !.zero = TRUE]
               ELSE [spec EXCEPT ![wp] = DigitValue[Ch] + IF @ = WP_NONE THEN 0 ELSE @ * 10]
    /\ zero_is_flag' = FALSE
    /\ fi' = fi + 1
    /\ UNCHANGED <<call, ppc, part, ai, wp, mem, bufsz, pos, s, written, res>>

\* A negative width asks for left justification, a negative precision for none.
StarChar ==
    /\ InSpec /\ Ch = "*"
    /\ LET v == args(part)[ai]
       IN  spec' = IF v >= 0 THEN [spec EXCEPT ![wp] = v]
                   ELSE IF wp = "w" THEN [spec EXCEPT !.left = TRUE, !.w = -v]
                   ELSE [spec EXCEPT !.p = WP_NONE]
    /\ ai' = ai + 1 /\ fi' = fi + 1
    /\ UNCHANGED <<call, ppc, part, wp, zero_is_flag, mem, bufsz, pos, s, written, res>>

DotChar ==
    /\ InSpec /\ Ch = "."
    /\ wp' = "p" /\ spec' = [spec EXCEPT !.p = 0] /\ zero_is_flag' = FALSE
    /\ fi' = fi + 1
    /\ UNCHANGED <<call, ppc, part, ai, mem, bufsz, pos, s, written, res>>

\* The modifiers' types; a doubled h or l is consumed at once.
LenMods == "h" :> ShortBits @@ "l" :> IntBits @@ "z" :> IntBits @@ "t" :> IntBits
            @@ "j" :> LLBits @@ "L" :> LLBits
LengthChar ==
    /\ InSpec /\ Ch \in DOMAIN LenMods
    /\ LET twice == Ch \in {"h", "l"} /\ fi < Len(Format) /\ Format[fi + 1] = Ch
       IN  /\ spec' = [spec EXCEPT !.bits = IF ~twice THEN LenMods[Ch]
                                            ELSE IF Ch = "h" THEN CharBits ELSE LLBits]
           /\ fi' = fi + IF twice THEN 2 ELSE 1
    /\ UNCHANGED <<call, ppc, part, ai, wp, zero_is_flag, mem, bufsz, pos, s, written, res>>

Bases == "u" :> 10 @@ "o" :> 8 @@ "x" :> 16 @@ "X" :> 16 @@ "b" :> 2 @@ "B" :> 2

\* The conversion of one argument, or of a literal percent sign.
Converted(c, arg) ==
    CASE c = "s" -> format_str(Buffer, spec, arg)
      [] c = "c" -> format_char(Buffer, spec, arg)
      [] c \in {"d", "i"} -> format_signed(Buffer, spec, 10, arg)
      [] c \in DOMAIN Bases -> format_unsigned(Buffer, spec, Bases[c], c \in {"X", "B"}, arg)
      [] c = "p" -> format_pointer(Buffer, spec, arg)
Conversions == DOMAIN Bases \cup {"s", "c", "d", "i", "p"}

Convert ==
    /\ InSpec /\ Ch \in Conversions
    /\ Put(Converted(Ch, args(part)[ai]))
    /\ ai' = ai + 1 /\ fi' = fi + 1 /\ ppc' = "text"
    /\ UNCHANGED <<call, part, locals, bufsz, pos, written, res>>

PercentSign ==
    /\ InSpec /\ Ch = "%"
    /\ Put(outstr(Buffer, <<"%">>))
    /\ fi' = fi + 1 /\ ppc' = "text"
    /\ UNCHANGED <<call, part, ai, locals, bufsz, pos, written, res>>

SpecChars == DOMAIN Flags \cup DOMAIN DigitValue \cup DOMAIN LenMods \cup {"*", ".", "%"}

\* Unknown conversion, or the terminator of the format: the callers return
\* -ENOTSUP and write nothing.
Unsupported ==
    /\ InSpec /\ Ch \notin Conversions \cup SpecChars
    /\ ppc' = "done" /\ res' = "ENOTSUP"
    /\ UNCHANGED <<call, part, fi, ai, locals, mem, bufsz, pos, s, written>>

EndOfPart == ppc = "text" /\ fi > Len(Format)

\* The log goes on with its next part where this one would have ended.
NextPart ==
    /\ EndOfPart /\ part < Len(call.parts)
    /\ mem' = terminate(Buffer, BUFREM)
    /\ part' = part + 1 /\ fi' = 1 /\ ai' = 1 /\ pos' = s
    /\ UNCHANGED <<call, ppc, s, locals, bufsz, written, res>>

\* Bug: a text as long as the buffer is taken for complete.
Complete_le(len) == len <= bufsz
Complete(len) == len < bufsz

\* The text was too long: once more, with a buffer of the right size.
Retry ==
    /\ EndOfPart /\ part = Len(call.parts)
    /\ ~Complete(s)
    /\ try_format(s + 1)
    /\ UNCHANGED <<call, locals, written, res>>

WriteOut ==
    /\ EndOfPart /\ part = Len(call.parts)
    /\ Complete(s)
    /\ LET m == terminate(Buffer, BUFREM)
       IN  /\ mem' = m
           /\ written' = [i \in 1 .. s |-> m[i - 1]]
    /\ res' = s /\ ppc' = "done"
    /\ UNCHANGED <<call, part, fi, ai, locals, bufsz, pos, s>>

PrintReturn == ppc = "done" /\ UNCHANGED printing

PrintingNext ==
    \/ PrintCall \/ PrintNoFile \/ PlainChar \/ StartConversion \/ FlagChar \/ DigitChar
    \/ StarChar \/ DotChar \/ LengthChar \/ Convert \/ PercentSign \/ Unsupported
    \/ NextPart \/ Retry \/ WriteOut \/ PrintReturn

-----------------------------------------------------------------------------
(* What the text should be, from the items and not from their characters.  *)

Spaces(n) == [i \in 1 .. n |-> " "]
Zeros(n) == [i \in 1 .. n |-> "0"]

\* The shortest numeral of v with at least min digits.
RefDigits(v, base, min) ==
    LET k == CHOOSE i \in min .. LLBits + min :
                /\ v < base^i
                /\ \A j \in min .. i - 1 : v >= base^j
    IN  [j \in 1 .. k |-> Lower[((v \div base^(k - j)) % base) + 1]]

RefWidth(item) == IF item.wk = "none" THEN 0 ELSE IF item.w < 0 THEN -item.w ELSE item.w
RefHasPrec(item) == item.pk # "none" /\ item.p >= 0
RefFlag(item, c) == \E i \in DOMAIN item.flags : item.flags[i] = c
RefLeft(item) == RefFlag(item, "-") \/ (item.wk = "star" /\ item.w < 0)
RefBits(item) == CASE item.len = <<"h", "h">> -> CharBits [] item.len = <<"h">> -> ShortBits
                   [] item.len \in {<<"l", "l">>, <<"j">>} -> LLBits [] OTHER -> IntBits

\* Sign and prefix, then digits; zeros go between them, spaces around both.
RefNumber(item, prefix, digits, zeros) ==
    LET n == RefWidth(item) - Len(prefix) - Len(digits)
        fill == IF n > 0 THEN n ELSE 0
    IN  CASE RefLeft(item) -> prefix \o digits \o Spaces(fill)
          [] ~RefLeft(item) /\ zeros -> prefix \o Zeros(fill) \o digits
          [] OTHER -> Spaces(fill) \o prefix \o digits

RefItem(item) ==
    LET min   == IF RefHasPrec(item) THEN item.p ELSE 1
        zeros == RefFlag(item, "0") /\ ~RefHasPrec(item)
        u     == va_arg_unsigned(RefBits(item), item.v)
        n     == va_arg_signed(RefBits(item), item.v)
        alt   == RefFlag(item, "#") /\ u # 0
        sign  == IF n < 0 THEN <<"-">> ELSE IF RefFlag(item, "+") THEN <<"+">>
                 ELSE IF RefFlag(item, " ") THEN <<" ">> ELSE <<>>
        octal == LET d == RefDigits(u, 8, min)
                 IN  IF RefFlag(item, "#") /\ (d = <<>> \/ d[1] # "0") THEN <<"0">> \o d ELSE d
    IN  CASE IsLit(item) -> item.lit
          [] item.conv = "%" -> <<"%">>
          [] item.conv = "s" -> RefNumber(item, <<>>, IF RefHasPrec(item) /\ item.p < Len(item.str)
                                                     THEN SubSeq(item.str, 1, item.p) ELSE item.str, FALSE)
          [] item.conv = "c" -> RefNumber(item, <<>>, item.str, FALSE)
          [] item.conv \in {"d", "i"} ->
                RefNumber(item, sign, RefDigits(IF n < 0 THEN -n ELSE n, 10, min), zeros)
          [] item.conv = "u" -> RefNumber(item, <<>>, RefDigits(u, 10, min), zeros)
          [] item.conv = "o" -> RefNumber(item, <<>>, octal, zeros)
          [] item.conv = "x" -> RefNumber(item, IF alt THEN <<"0", "x">> ELSE <<>>,
                                          RefDigits(u, 16, min), zeros)
          [] item.conv = "X" -> RefNumber(item, IF alt THEN <<"0", "X">> ELSE <<>>,
                                          [i \in DOMAIN RefDigits(u, 16, min) |->
                                            toupper(RefDigits(u, 16, min)[i])], zeros)
          [] item.conv = "b" -> RefNumber(item, IF alt THEN <<"0", "b">> ELSE <<>>,
                                          RefDigits(u, 2, min), zeros)
          [] item.conv = "p" -> RefNumber([item EXCEPT !.flags = <<>>, !.w = RefWidth(item)],
                                          IF u = 0 THEN <<>> ELSE <<"0", "x">>,
                                          RefDigits(u, 16, min), FALSE)

Items(c) == FlattenSeq(c.parts)
RefText(c) == FlattenSeq([i \in DOMAIN Items(c) |-> RefItem(Items(c)[i])])
Supported(c) == \A i \in DOMAIN Items(c) :
                    IsLit(Items(c)[i]) \/ Items(c)[i].conv \in Conversions \cup {"%"}

\* What a call writes is the whole text its items stand for, whatever its
\* length (sprintf.c:339-458, vfs_file.c:140, log.c:31-126): nothing is cut off
\* at the end of the default buffer or where one part of a log line ends, no
\* terminator is written into the file, and nothing is written at all when a
\* conversion is not supported.  No byte past the end of a buffer changes.
PrintedExact ==
    /\ mem[bufsz] = "guard"
    /\ ppc = "done" =>
        IF ~call.file THEN written = <<>> /\ res = "EBADF"
        ELSE IF Supported(call) THEN written = RefText(call)
        ELSE written = <<>> /\ res = "ENOTSUP"
=============================================================================
