----------------------------- MODULE MCTerminal -----------------------------
(* Instance of Terminal for TLC. *)
EXTENDS Terminal
MCKeys == {"a", "i", "tab", "A", "cr", "D", "bs", "U"}
=============================================================================
