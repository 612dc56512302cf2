----------------------------- MODULE MCLuaTable -----------------------------
(* Instances of LuaTable for TLC. *)
EXTENDS LuaTable
MCKeys   == {1, 2, 3, -1, -2}
MCHashes == [{-1, -2} -> {0, 1}]
=============================================================================
