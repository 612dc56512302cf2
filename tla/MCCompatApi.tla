---------------------------- MODULE MCCompatApi -----------------------------
(***************************************************************************)
(* Instances of CompatApi for TLC.                                         *)
(***************************************************************************)
EXTENDS CompatApi

CONSTANTS reg, gbl, x

MCTables == {reg, gbl}
MCKeys == {x}
MCKeyOrder == << x >>

RegistryOnly == {LUA51_REGISTRYINDEX}
RegistryAndGlobals == {LUA51_REGISTRYINDEX, LUA51_GLOBALSINDEX}
=============================================================================
