--------------------------- MODULE MCLuauRequire ----------------------------
(***************************************************************************)
(* Instances of LuauRequire for TLC.                                       *)
(***************************************************************************)
EXTENDS LuauRequire
=============================================================================
