------------------------------- MODULE MCFiles -------------------------------
(* Instance of Files for TLC: archives with directories, a name that only   *)
(* begins like a directory's, programs that are sound and ones that are cut *)
(* short or point outside, and archives that are themselves damaged.        *)
EXTENDS Files

NoElf == [ident |-> "none", phoff |-> 0, ph |-> <<>>]
Dir(p) == [path |-> p, type |-> "DIR", size |-> 0, elf |-> NoElf]
Reg(p, n) == [path |-> p, type |-> "REG", size |-> n, elf |-> NoElf]
Exe(p, n, phoff, ph) ==
    [path |-> p, type |-> "REG", size |-> n,
     elf |-> [ident |-> "exec32", phoff |-> phoff, ph |-> ph]]
Seg(off, n) == [load |-> TRUE, off |-> off, filesz |-> n]
Note(off, n) == [load |-> FALSE, off |-> off, filesz |-> n]
End == Reg(TRAILER, 0)

Tools == <<
    Dir(ROOT), Dir(<<"b">>),
    Exe(<<"b", "/", "p">>, 150, 52, <<Seg(116, 34), Note(900, 1)>>),
    Exe(<<"b", "/", "t">>, 150, 52, <<Seg(116, 34), Seg(120, 31)>>),
    Exe(<<"b", "/", "o">>, 90, 52, <<Seg(84, 6), Seg(0, 4)>>),
    Reg(<<"b", "x">>, 45), Dir(<<"s">>), Reg(<<"s", "/", "q">>, 10),
    Dir(<<"s", "/", "p">>), Reg(<<"z">>, 170), Reg(<<"b", "/", "n">>, 60), End >>
Far == <<
    Dir(ROOT), Exe(<<"b", "/", "p">>, 100, 101, <<Seg(52, 4)>>),
    Exe(<<"b", "/", "t">>, 150, 52, <<Seg(151, 2)>>),
    Exe(<<"b", "/", "o">>, 60, 900, <<Seg(0, 4)>>),
    Reg(<<"z">>, 64), End >>
NoRoot == <<Dir(<<"b">>), Reg(<<"z">>, 3), End>>
Cut == <<Dir(ROOT), Dir(<<"b">>), Reg(<<"z">>, 16)>>
LongName == <<Dir(ROOT), Reg(<<"z">>, 1), Reg([k \in 1 .. 8 |-> "a"], 4), Reg(<<"q">>, 2), End>>

MCArchives == [tools |-> Tools, far |-> Far, noroot |-> NoRoot, cut |-> Cut, long |-> LongName]
MCHeaderOff == [
    tools  |-> <<0, 112, 224, 492, 760, 968, 1132, 1244, 1372, 1488, 1772, 1948, 2060>>,
    far    |-> <<0, 112, 328, 596, 772, 948, 1060>>,
    noroot |-> <<0, 112, 228, 340>>,
    cut    |-> <<0, 112, 224, 352>>,
    long   |-> <<0, 112, 228, 352, 468, 580>>]
MCNames == {NULL, <<"b">>, <<"p">>, <<"t">>, <<"o">>, <<"q">>, <<"n">>, <<"z">>, <<"b", "x">>}

-----------------------------------------------------------------------------
(* The pure helpers against what they are meant to be, over short paths.    *)

Words == UNION {[1 .. n -> {"/", "a", "b"}] : n \in 1 .. 4}
Paths == {w \in Words : \A k \in 1 .. Len(w) - 1 : ~(w[k] = "/" /\ w[k + 1] = "/")}
Slash == <<"/">>
Component(c) == c # <<>> /\ \A k \in DOMAIN c : c[k] # "/"

\* path_basename returns the last component, with or without a slash behind it
\* (path.c:34).
ASSUME BasenameChecked ==
    /\ path_basename(Slash) = Slash
    /\ \A w \in Paths \ {Slash} :
        LET c == path_basename(w)
        IN  /\ Component(c)
            /\ IsSuffix(c, w) \/ IsSuffix(c \o Slash, w)
            /\ \A d \in Paths : Component(d) /\ (IsSuffix(d, w) \/ IsSuffix(d \o Slash, w))
                    => Len(d) <= Len(c)

\* When a mount is made after those above it, the mount found for a path is
\* the deepest one whose path it begins with (vfs_fs.c:95, 137).
Mounts == {<<"/">>, <<"/", "a">>, <<"/", "a", "/", "b">>, <<"/", "b">>}
Orders == {o \in [1 .. 3 -> Mounts] :
             \A i, j \in 1 .. 3 : i < j => o[i] # o[j] /\ ~IsPrefix(o[j], o[i])}
ASSUME MountsFound ==
    \A o \in Orders : \A w \in {p \in Paths : p[1] = "/"} :
        LET sbs  == [i \in 1 .. 3 |-> [mpath |-> o[i]]]
            m    == find_mount_for_path(sbs, <<1, 2, 3>>, w)
            hits == {i \in 1 .. 3 : IsPrefix(o[i], w)}
        IN  IF m = 0 THEN hits = {}
            ELSE m \in hits /\ \A i \in hits : Len(o[i]) <= Len(o[m])
=============================================================================
