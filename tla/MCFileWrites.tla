---------------------------- MODULE MCFileWrites ----------------------------
(* A small instance of FileWrites: one write next to the apps of the       *)
(* device.                                                                 *)
EXTENDS FileWrites
=============================================================================
