----------------------------- MODULE MCToolMarket -----------------------------
(* A small instance of ToolMarket: two installs of two chunks each. *)
EXTENDS ToolMarket
===============================================================================
