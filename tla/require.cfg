SPECIFICATION Spec
CONSTANTS
  Names = {p, f}
  Files = {f}
  Package = package
  Loaded = loaded
  Preload = preload
  Globals = globals
  Nil = nil
  True = true
  Loader = loader
  MaxPending = 2
  MaxMade = 2
INVARIANT LoadedOnce
