CONSTANTS
  Plugins <- MC_Plugins
  Names = {"n1", "n2", "n3"}
  Defs <- MC_Defs
  Writes = {w1}
  MaxCount = 2
  MaxCycles = 1
  NoName = NoName
  Quit = Quit
SPECIFICATION Spec
CHECK_DEADLOCK FALSE
INVARIANT TypeOK
INVARIANT HandleTableSound
INVARIANT QueuedExactlyOnce
PROPERTY WriteServiceRefined
