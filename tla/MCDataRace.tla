----------------------------- MODULE MCDataRace -----------------------------
(* Two threads with up to four rounds each, the last of which make the      *)
(* expected result wrap.                                                   *)
EXTENDS DataRace
=============================================================================
