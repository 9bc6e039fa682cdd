----------------------------- MODULE MCSupport ------------------------------
(***************************************************************************)
(* The parts below the kernel proper, checked in one run.  They share no   *)
(* state, so a behaviour is about one of them: Init chooses the area and   *)
(* the other areas' variables keep their first values.                     *)
(***************************************************************************)
EXTENDS KernelLists, Printing, Interrupts, BootInfo, Plane

VARIABLE area

Init ==
    /\ area \in {"lists", "printing", "interrupts"}
    /\ ListsInit /\ PrintingInit /\ InterruptsInit

Next ==
    /\ UNCHANGED area
    /\ \/ area = "lists" /\ ListsNext /\ UNCHANGED <<printing, interrupts>>
       \/ area = "printing" /\ PrintingNext /\ UNCHANGED <<lists, interrupts>>
       \/ area = "interrupts" /\ InterruptsNext /\ UNCHANGED <<lists, printing>>

Spec == Init /\ [][Next]_<<area, lists, printing, interrupts>>

-----------------------------------------------------------------------------
(* The calls of the run: single conversions, and lines of the log. *)

One(item) == [parts |-> <<<<item>>>>, file |-> TRUE]

FlagSets == {<<>>, <<"-">>, <<"0">>, <<"+">>, <<"#">>, <<"#", "0">>, <<" ", "0", "-">>}
Widths == {None, <<"num", 5>>, <<"star", -4>>}
Precisions == {None, <<"num", 0>>, <<"num", 3>>, <<"star", -1>>}
Values == {<<<<>>, 0>>, <<<<>>, 10>>, <<<<>>, -3>>, <<<<"h", "h">>, 9>>, <<<<"l", "l">>, 300>>}
Numbers == {Conv(f, w, p, lv[1], c, lv[2]) :
              f \in FlagSets, w \in Widths, p \in Precisions, lv \in Values,
              c \in {"d", "u", "o", "x", "X", "b"}}
Short == <<"m", "s", "g">>
Strings == {Text(f, w, p, "s", v) :
              f \in {<<>>, <<"-">>}, w \in Widths \cup {<<"num", 10>>},
              p \in {None, <<"num", 2>>, <<"star", 4>>}, v \in {<<>>, Short, Short \o Short}}
Others == {Plain("%", 0), Plain("g", 0), Plain("p", 10), Plain("p", 0), Plain(NUL, 0),
           Conv(<<>>, None, None, <<"j">>, "d", 300), Conv(<<>>, None, None, <<"t">>, "d", -9),
           Conv(<<"-">>, <<"num", 10>>, None, <<"z">>, "p", 255),
           Text(<<>>, None, None, "c", <<"k">>), Text(<<"-">>, <<"num", 3>>, None, "c", <<"k">>),
           Conv(<<>>, None, None, <<"h">>, "i", 40)}

Results == {<<>>, <<0>>, <<12>>, <<-2>>}
Names == {<<>>, <<<<"c", "r">>>>}
Decodes == {<<>>, <<flagstr(5, 3, <<"C", "R", "A">>, <<>>)>>}
Postfixes == {<<>>, <<<<"n", "l">>>>}
Messages == {<<Lit(<<>>)>>, <<Lit(Short), Plain("d", -3), Lit(Short)>>, <<Plain("g", 1)>>}
Logs == {[parts |-> log_vsnprintf(<<"i", "n", "f", "o">>, r, Short, n, m, d, x), file |-> TRUE] :
           r \in Results, n \in Names, m \in Messages, d \in Decodes, x \in Postfixes}

MCCalls == {One(i) : i \in Numbers \cup Strings \cup Others} \cup Logs
             \cup {[parts |-> <<<<Lit(Short)>>>>, file |-> FALSE]}

-----------------------------------------------------------------------------
\* Every sequence of up to three tags, of sizes that need padding and that do
\* not (boot_mb2.c:54).
Tags == [type : {"LOAD_BASE_ADDR", "MODULE", "EGA_TEXT", "END"}, size : {8, 11}, value : {1, 2}]
ASSUME BootInfoChecked ==
    \A n \in 0 .. 3 : \A seq \in [1 .. n -> Tags] : BootInfoExact(seq)

-----------------------------------------------------------------------------
(* The string helpers against their results, for every memory of six bytes. *)

Memories == [1 .. 6 -> {0, 1, 2}]
Area(m, a, n) == [k \in 1 .. n |-> m[a + k - 1]]
Changed(m, a, new) == [i \in DOMAIN m |-> IF i - a + 1 \in DOMAIN new THEN new[i - a + 1] ELSE m[i]]
Terminated(m, p) == \E k \in p .. 6 : m[k] = 0
String(m, p) == Area(m, p, strlen(m, p))

\* Areas are moved whole however they overlap (string.c:20); strncpy fills up
\* with zeros (string.c:72) and strncat terminates (string.c:106), with the
\* strings in separate areas.
ASSUME CopiesChecked ==
    \A m \in Memories :
        /\ \A d, p \in 1 .. 4, n \in 0 .. 3 : memmove(m, d, p, n) = Changed(m, d, Area(m, p, n))
        /\ Terminated(m, 4) /\ strlen(m, 4) < 3 =>
            \A n \in 0 .. 3 :
                LET k == Fewer(n, strlen(m, 4))
                IN  /\ strncpy(m, 1, 4, n) = Changed(m, 1, Area(m, 4, k) \o [i \in 1 .. n - k |-> 0])
                    /\ String(strcpy(m, 1, 4), 1) = String(m, 4)
        /\ m[2] = 0 /\ Terminated(m, 5) =>
            /\ String(strcat(m, 1, 5), 1) = String(m, 1) \o String(m, 5)
            /\ \A n \in 0 .. 2 :
                LET r == strncat(m, 1, 5, n)
                IN  String(r, 1) = String(m, 1) \o Area(m, 5, Fewer(n, strlen(m, 5)))

\* a comes before b in the order of a dictionary.
Before(a, b) == \E k \in 0 .. Fewer(Len(a), Len(b)) :
                    /\ SubSeq(a, 1, k) = SubSeq(b, 1, k)
                    /\ k < Len(b) /\ (k < Len(a) => a[k + 1] < b[k + 1])

\* Comparison is the order of a dictionary (string.c:50, 115), strchr finds the
\* first such byte (string.c:153), and strstr the first place where the second
\* string is, in a string that is not empty (string.c:160).
ASSUME SearchesChecked ==
    \A m \in Memories : \A p, t \in 1 .. 6 :
        Terminated(m, p) /\ Terminated(m, t) =>
            LET a == String(m, p)
                b == String(m, t)
                at == strstr(m, p, t) - p
            IN  /\ strcmp(m, p, t) = IF a = b THEN 0 ELSE IF Before(a, b) THEN -1 ELSE 1
                /\ Len(a) = Len(b) => memcmp(m, p, t, Len(a)) = strcmp(m, p, t)
                /\ \A ch \in {1, 2} :
                    LET k == strchr(m, p, ch)
                    IN  IF k = 0 THEN ch \notin In(a)
                        ELSE m[k] = ch /\ ch \notin In(Area(m, p, k - p)) /\ k < p + Len(a)
                /\ a # <<>> =>
                    IF strstr(m, p, t) = 0 THEN \A k \in 0 .. Len(a) : ~IsPrefix(b, SubSeq(a, k + 1, Len(a)))
                    ELSE /\ IsPrefix(b, SubSeq(a, at + 1, Len(a)))
                         /\ \A k \in 0 .. at - 1 : ~IsPrefix(b, SubSeq(a, k + 1, Len(a)))

\* atoi reads numerals of either base up to the first other character
\* (stdlib.c:5), parse_mn the two of an area (eraser.c:86).
ASSUME NumbersChecked ==
    \A v, w \in {0, 7, 10, 255, 4096} :
        /\ atoi(<<" ">> \o RefDigits(v, 10, 1)) = v
        /\ parse_mn(<<"0", "x">> \o RefDigits(v, 16, 1) \o <<":">> \o RefDigits(w, 10, 1)) = <<v, w>>
        /\ parse_mn(RefDigits(v, 10, 1)) = <<v, 0>>

\* Art whose rows end in a blank flies over the screen and leaves nothing
\* behind, whatever the lengths of its rows and its altitude (plane.c:102).
Rows == {<<"#", " ">>, <<"#", "#", " ">>, <<" ", "#", "#", " ">>}
ASSUME PlaneChecked ==
    \A art \in Rows \X Rows, altitude \in 0 .. 4 :
        fly(Blank(3, 4), art, 3, 4, altitude) = Blank(3, 4)
=============================================================================
