------------------------------ MODULE MCPageMap ------------------------------
(* Instance of PageMap for TLC: tables of eight entries, so that the kernel  *)
(* fills the first table and a program's stack and segments lie in the       *)
(* second, as in the real address space; one program reaches into a third.   *)
EXTENDS PageMap

Seg(vp, n, w) == [vp |-> vp, n |-> n, w |-> w]
MCPrograms == {
    <<Seg(12, 1, FALSE), Seg(13, 2, TRUE)>>,
    <<Seg(12, 3, TRUE), Seg(14, 1, FALSE)>>,
    <<Seg(12, 1, FALSE), Seg(15, 2, TRUE)>>,
    <<Seg(12, 1, TRUE)>> }
=============================================================================
