-------------------------- MODULE MCProcessService --------------------------
(* Small instances of ProcessService. *)
EXTENDS ProcessService

CONSTANT NoTimeout
mcTimeouts == {0, 1, NoTimeout}

=============================================================================
