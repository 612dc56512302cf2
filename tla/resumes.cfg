SPECIFICATION Spec
CONSTANTS
  Main = m
  Coroutines = {u, v}
  MaxCcalls = 3
  ErrCcalls = 4
  CompatResumes = FALSE
  Closable = {v}
  Hooked = {u}
  Handlers = {TRUE, FALSE}
  MaxFrames = 2
INVARIANTS CountsAreRight CStackBounded HookSwitch HandlerInForce
