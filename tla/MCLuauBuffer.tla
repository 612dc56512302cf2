---------------------------- MODULE MCLuauBuffer ----------------------------
(***************************************************************************)
(* TLC instances of LuauBuffer; the constants are in the .cfg files.       *)
(***************************************************************************)
EXTENDS LuauBuffer
=============================================================================
