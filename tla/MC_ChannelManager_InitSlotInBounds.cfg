CONSTANTS
  Plugins <- MC_ManyPlugins
  Names = {"n1", "n2", "n3"}
  Defs <- MC_Defs
  Writes = {w1}
  MaxCount = 2
  MaxCycles = 0
  NoName = NoName
  Quit = Quit
SPECIFICATION Spec
CHECK_DEADLOCK FALSE
INVARIANT InitSlotInBounds
