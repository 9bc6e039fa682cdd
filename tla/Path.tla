-------------------------------- MODULE Path --------------------------------
(***************************************************************************)
(* Path helpers (core/path.c).  A string is a sequence of characters, NULL *)
(* a sequence no string equals.  The results are what is put in a buffer   *)
(* of dstsz characters, the last one taken by the terminator.              *)
(***************************************************************************)
EXTENDS Naturals, Sequences, SequencesExt

NULL == <<"NULL">>

\* snprintf(dst, dstsz, "%s", s)
Fit(s, dstsz) == SubSeq(s, 1, IF Len(s) < dstsz THEN Len(s) ELSE dstsz - 1)

IsAbs(p) == p # NULL /\ p # <<>> /\ p[1] = "/"

path_join(dstsz, a, b) ==
    LET head == IF IsAbs(b) \/ a = NULL THEN <<>> ELSE a
        sep  == IF b # NULL /\ head # <<>> /\ Last(head) # "/" THEN <<"/">> ELSE <<>>
        tail == IF b = NULL THEN <<>> ELSE b
    IN  Fit(head \o sep \o tail, dstsz)

path_strip_prefix(path, prefix) ==
    IF path = NULL \/ prefix = NULL THEN path
    ELSE IF ~IsPrefix(prefix, path) THEN NULL
    ELSE LET rest == SubSeq(path, Len(prefix) + 1, Len(path))
         IN  IF rest # <<>> /\ rest[1] = "/" THEN Tail(rest) ELSE rest

\* Positions after the last slash and after the one before it.
SlashEnds(path) == {k + 1 : k \in {j \in 1 .. Len(path) : path[j] = "/"}}
LastOf(S) == IF S = {} THEN 1 ELSE CHOOSE k \in S : \A j \in S : j <= k

path_basename(path) ==
    LET ends      == SlashEnds(path)
        lastslash == LastOf(ends)
        prevslash == LastOf(ends \ {lastslash})
    IN  IF path = <<"/">> THEN path
        ELSE IF path = <<>> THEN path
        ELSE IF lastslash = Len(path) + 1 THEN SubSeq(path, prevslash, Len(path) - 1)
        ELSE SubSeq(path, lastslash, Len(path))
=============================================================================
