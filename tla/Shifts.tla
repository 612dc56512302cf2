------------------------------- MODULE Shifts -------------------------------
(***************************************************************************)
(* Powers of two, which the code of Lua 5.5 writes as shifts, from the     *)
(* sizes of hash parts (twoto of lobject.h) to those of words.             *)
(***************************************************************************)
EXTENDS Naturals

twoto[l \in Nat] == IF l = 0 THEN 1 ELSE 2 * twoto[l - 1]
=============================================================================
