----------------------------- MODULE MCLuaClose -----------------------------
(* Instances of LuaClose for TLC. *)
EXTENDS LuaClose
=============================================================================
