------------------------------ MODULE Sprintf -------------------------------
(***************************************************************************)
(* The pieces of core/sprintf.c: output into a bounded buffer, padding,    *)
(* and the conversions.  A string is a sequence of characters.  A buffer   *)
(* position is [buf, s, t]: the memory, the position s, which goes on      *)
(* past the end, and the end t; memory is a function of addresses.         *)
(***************************************************************************)
EXTENDS Integers, Sequences, SequencesExt

CONSTANTS CharBits, ShortBits, IntBits, LLBits   \* char, short, int and long, long long
ASSUME SprintfAssumption ==
    CharBits \in Nat \ {0} /\ ShortBits > CharBits /\ IntBits > ShortBits /\ LLBits > IntBits

WP_NONE == -1
NUL == "\\0"

\* struct fmtspec, as process_conversion starts with it.
fmtspec0 == [left |-> FALSE, plus |-> FALSE, space |-> FALSE, alt |-> FALSE,
             zero |-> FALSE, w |-> WP_NONE, p |-> WP_NONE, bits |-> IntBits]

\* outchar for every character of str: those in bounds are written, the
\* position moves either way.
outstr(b, str) ==
    [b EXCEPT !.buf = [i \in DOMAIN @ |-> IF b.s <= i /\ i < b.s + Len(str) /\ i < b.t
                                          THEN str[i - b.s + 1] ELSE @[i]],
              !.s = @ + Len(str)]

outpad(b, c, len) == outstr(b, [i \in 1 .. len |-> c])

outpadded(b, spec, prefix, valstr) ==
    LET need   == Len(prefix) + Len(valstr)
        w      == IF spec.w # WP_NONE THEN spec.w ELSE 0
        padlen == IF w > need THEN w - need ELSE 0
        b1 == IF ~spec.left /\ ~spec.zero THEN outpad(b, " ", padlen) ELSE b
        b2 == outstr(b1, prefix)
        b3 == IF ~spec.left /\ spec.zero THEN outpad(b2, "0", padlen) ELSE b2
        b4 == outstr(b3, valstr)
    IN  IF spec.left THEN outpad(b4, " ", padlen) ELSE b4

sign_prefix(spec, isneg) ==
    IF isneg THEN <<"-">> ELSE IF spec.plus THEN <<"+">>
    ELSE IF spec.space THEN <<" ">> ELSE <<>>

Lower == <<"0", "1", "2", "3", "4", "5", "6", "7", "8", "9", "a", "b", "c", "d", "e", "f">>
Upper == <<"0", "1", "2", "3", "4", "5", "6", "7", "8", "9", "A", "B", "C", "D", "E", "F">>
hexdigit(d) == Lower[d + 1]
toupper(c) == LET hits == {i \in DOMAIN Lower : Lower[i] = c}
              IN  IF c = "x" THEN "X"
                  ELSE IF hits = {} THEN c ELSE Upper[CHOOSE i \in hits : TRUE]
strtoupper(s) == [i \in DOMAIN s |-> toupper(s[i])]

\* Digits least significant first, leading zeros up to the precision, a zero
\* for octal unless one leads already; then reversed.
itoa(uval, base, precision, octalprefix) ==
    LET q[i \in 0 .. LLBits] == IF i = 0 THEN uval ELSE q[i - 1] \div base
        dig  == SelectSeq([i \in 1 .. LLBits + 1 |-> q[i - 1]], LAMBDA v : v > 0)
        rev  == [i \in DOMAIN dig |-> hexdigit(dig[i] % base)]
        pad  == IF precision > Len(rev) THEN precision - Len(rev) ELSE 0
        full == rev \o [i \in 1 .. pad |-> "0"]
        oct  == octalprefix /\ (full = <<>> \/ full[Len(full)] # "0")
    IN  Reverse(IF oct THEN Append(full, "0") ELSE full)

\* The low bits of an int, as a signed and as an unsigned number.
va_arg_unsigned(bits, v) == v % 2^bits
va_arg_signed(bits, v) ==
    LET u == v % 2^bits IN IF u >= 2^(bits - 1) THEN u - 2^bits ELSE u

format_str(b, spec, str) ==
    outpadded(b, spec, <<>>,
              IF spec.p # WP_NONE /\ spec.p < Len(str) THEN SubSeq(str, 1, spec.p) ELSE str)

format_char(b, spec, c) == outpadded(b, spec, <<>>, <<c>>)

\* A given precision switches the zero flag off; none counts as 1.
precise(spec) == IF spec.p = WP_NONE THEN [spec EXCEPT !.p = 1]
                 ELSE [spec EXCEPT !.zero = FALSE]

format_signed(b, spec, base, arg) ==
    LET val == va_arg_signed(spec.bits, arg)
        sp  == precise(spec)
    IN  outpadded(b, sp, sign_prefix(spec, val < 0),
                  itoa(IF val < 0 THEN -val ELSE val, base, sp.p, FALSE))

format_unsigned(b, spec, base, up, arg) ==
    LET val    == va_arg_unsigned(spec.bits, arg)
        sp     == precise(spec)
        prefix == IF ~spec.alt \/ val = 0 THEN <<>>
                  ELSE IF base = 2 THEN <<"0", "b">>
                  ELSE IF base = 16 THEN <<"0", "x">> ELSE <<>>
        digits == itoa(val, base, sp.p, spec.alt /\ base = 8)
    IN  IF up THEN outpadded(b, sp, strtoupper(prefix), strtoupper(digits))
        ELSE outpadded(b, sp, prefix, digits)

\* Width and precision are kept, the other flags are not.
format_pointer(b, spec, arg) ==
    format_unsigned(b, [fmtspec0 EXCEPT !.alt = TRUE, !.p = spec.p, !.w = spec.w],
                    16, FALSE, arg)

\* The end of snprintf_impl: the terminator goes to the end of the string or
\* of the buffer of n characters.
terminate(b, n) ==
    IF n = 0 THEN b.buf
    ELSE [b.buf EXCEPT ![IF b.s < b.t THEN b.s ELSE b.t - 1] = NUL]

\* One character per bit, highest bit first: src1's where it is set, else
\* src0's or a dash.
flagstr(flags, count, src1, src0) ==
    [pos \in 1 .. count |-> IF (flags \div 2^(count - pos)) % 2 = 1 THEN src1[pos]
                            ELSE IF src0 = <<>> THEN "-" ELSE src0[pos]]
=============================================================================
