------------------------------ MODULE Strings -------------------------------
(***************************************************************************)
(* Memory and string helpers (core/string.c, stdlib.c).  m is the memory,  *)
(* a function from addresses to bytes; a string is the address of its      *)
(* first byte and ends before the first 0.  Every loop is a function of    *)
(* the number of its rounds, so that areas that overlap are copied in the  *)
(* order of the code.                                                      *)
(***************************************************************************)
EXTENDS Integers, Sequences

\* Rounds first to last of a loop that writes m[dst(k)] := src(k, memory).
Rounds(m, n, dst(_), src(_, _)) ==
    LET loop[k \in 0 .. n] ==
            IF k = 0 THEN m ELSE [loop[k - 1] EXCEPT ![dst(k)] = src(k, loop[k - 1])]
    IN  loop[n]

memcpy(m, dest, src, count) ==
    Rounds(m, count, LAMBDA k : dest + k - 1, LAMBDA k, a : a[src + k - 1])

\* Upwards when the source is higher, else downwards.
memmove(m, dest, src, n) ==
    IF n = 0 \/ src = dest THEN m
    ELSE IF src > dest THEN memcpy(m, dest, src, n)
    ELSE Rounds(m, n, LAMBDA k : dest + n - k, LAMBDA k, a : a[src + n - k])

memset(m, s, c, n) == Rounds(m, n, LAMBDA k : s + k - 1, LAMBDA k, a : c % 256)

LeastOf(S) == CHOOSE k \in S : \A j \in S : k <= j
Sign(x, y) == IF x < y THEN -1 ELSE IF x = y THEN 0 ELSE 1

\* The first difference decides.
memcmp(m, s1, s2, n) ==
    LET diff == {k \in 0 .. n - 1 : m[s1 + k] # m[s2 + k]}
    IN  IF diff = {} THEN 0 ELSE Sign(m[s1 + LeastOf(diff)], m[s2 + LeastOf(diff)])

strlen(m, s) == LeastOf({n \in 0 .. Len(m) : s + n \in DOMAIN m /\ m[s + n] = 0})

\* The terminator is copied too.
strcpy(m, dest, src) == memcpy(m, dest, src, strlen(m, src) + 1)

Fewer(x, y) == IF x < y THEN x ELSE y

\* At most n bytes of the string, then zeros up to n; no terminator when the
\* string is longer.
strncpy(m, dest, src, n) ==
    LET k == Fewer(n, strlen(m, src))
    IN  memset(memcpy(m, dest, src, k), dest + k, 0, n - k)

strncat(m, dest, src, n) ==
    LET end == dest + strlen(m, dest)
        k   == Fewer(n, strlen(m, src))
    IN  [memcpy(m, end, src, k) EXCEPT ![end + k] = 0]

strcat(m, dest, src) == strncat(m, dest, src, strlen(m, src))

\* char is signed.
SignedChar(b) == IF b >= 128 THEN b - 256 ELSE b

\* At most n bytes; a byte that differs or ends the strings decides.
strncmp(m, s, t, n) ==
    LET stops == {k \in 0 .. n - 1 : /\ s + k \in DOMAIN m /\ t + k \in DOMAIN m
                                     /\ m[s + k] # m[t + k] \/ m[s + k] = 0}
    IN  IF stops = {} THEN 0
        ELSE Sign(SignedChar(m[s + LeastOf(stops)]), SignedChar(m[t + LeastOf(stops)]))

strcmp(m, s, t) == strncmp(m, s, t, strlen(m, s) + 1)

\* The address, 0 for NULL.  The terminator can be searched for.
strchr(m, str, ch) ==
    LET hits == {k \in str .. str + strlen(m, str) : m[k] = ch}
    IN  IF hits = {} THEN 0 ELSE LeastOf(hits)

\* The search ends at the terminator: in an empty string nothing is found, not
\* even the empty string.
strstr(m, str, substr) ==
    LET hits == {k \in str .. str + strlen(m, str) - 1 :
                   strncmp(m, k, substr, strlen(m, substr)) = 0}
    IN  IF hits = {} THEN 0 ELSE LeastOf(hits)

-----------------------------------------------------------------------------
(* Numbers.  Here a string is a sequence of characters.                     *)

XDigit == [c \in {"0", "1", "2", "3", "4", "5", "6", "7", "8", "9", "a", "b", "c", "d", "e", "f",
                  "A", "B", "C", "D", "E", "F"} |->
             CASE c \in {"a", "A"} -> 10 [] c \in {"b", "B"} -> 11 [] c \in {"c", "C"} -> 12
               [] c \in {"d", "D"} -> 13 [] c \in {"e", "E"} -> 14 [] c \in {"f", "F"} -> 15
               [] OTHER -> CHOOSE n \in 0 .. 9 :
                    <<"0", "1", "2", "3", "4", "5", "6", "7", "8", "9">>[n + 1] = c]
isxdigit(c) == c \in DOMAIN XDigit

\* Hexadecimal digits are accepted in either base.
atoi(a) ==
    LET skip == LeastOf({k \in 0 .. Len(a) : k = Len(a) \/ (k < Len(a) => a[k + 1] # " ")})
        b    == SubSeq(a, skip + 1, Len(a))
        hex  == Len(b) > 1 /\ (Len(b) > 1 => b[1] = "0" /\ b[2] \in {"x", "X"})
        base == IF hex THEN 16 ELSE 10
        d    == IF hex THEN SubSeq(b, 3, Len(b)) ELSE b
        n    == LeastOf({k \in 0 .. Len(d) : k = Len(d) \/ (k < Len(d) => ~isxdigit(d[k + 1]))})
        value[k \in 0 .. n] == IF k = 0 THEN 0 ELSE value[k - 1] * base + XDigit[d[k]]
    IN  value[n]
=============================================================================
