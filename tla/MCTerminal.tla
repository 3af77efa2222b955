------------------------------ MODULE MCTerminal ------------------------------
(* Small instances of Terminal. *)
EXTENDS Terminal
=============================================================================
