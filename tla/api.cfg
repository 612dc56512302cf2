SPECIFICATION Spec
CONSTANTS
  reg = reg
  gbl = gbl
  x = x
  Nil = nil
  Tables <- MCTables
  Keys <- MCKeys
  KeyOrder <- MCKeyOrder
  Registry = reg
  GlobalsKey = ridx_globals
  Threads = {m}
  MainGlobals = gbl
  Upvalue = x
  Environment = gbl
  Pseudo <- RegistryAndGlobals
  RawPseudo <- RegistryOnly
  MaxTop = 3
PROPERTIES ActsAsIn51
