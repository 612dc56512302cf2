--------------------------- MODULE MCCompatBuffer ---------------------------
(***************************************************************************)
(* TLC instances of CompatBuffer; the constants are in the .cfg files.     *)
(***************************************************************************)
EXTENDS CompatBuffer
=============================================================================
