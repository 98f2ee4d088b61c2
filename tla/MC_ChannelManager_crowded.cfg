CONSTANTS
  Plugins <- MC_ManyPlugins
  Names = {"n1", "n2", "n3"}
  Defs <- MC_CrowdedDefs
  Writes = {w1, w2}
  MaxCount = 2
  MaxCycles = 0
  NoName = NoName
  Quit = Quit
SPECIFICATION Spec
CHECK_DEADLOCK FALSE
INVARIANT TypeOK
INVARIANT HandleTableSound
INVARIANT QueuedExactlyOnce
PROPERTY WriteServiceRefined
