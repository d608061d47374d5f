--------------------------- MODULE MCWorldThreads ---------------------------
(* Small instances of WorldThreads for TLC. *)
EXTENDS WorldThreads
=============================================================================
