SPECIFICATION FairSpec
CONSTANTS
  Main = m
  Coroutines = {u}
  MaxCcalls = 3
  ErrCcalls = 4
  CompatResumes = TRUE
  Closable = {}
  Hooked = {u}
  Handlers = {TRUE, FALSE}
  MaxFrames = 3
INVARIANTS TypeOK JumpsLand CanBeContinued
PROPERTIES KeepsPromise ErrorsAreDelivered
