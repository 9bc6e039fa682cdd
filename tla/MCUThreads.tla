----------------------------- MODULE MCUThreads -----------------------------
(* Instance of ThreadsProgram for TLC. *)
EXTENDS ThreadsProgram
MCStatus == {-1, 0}
=============================================================================
