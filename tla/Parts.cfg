SPECIFICATION MCSpec
CONSTANTS
  Capacity = 2
  PoolOwners = {0, 1}
  NShards = 2
  Refill = 2
  RecycleCap = 1
  LastGen = 1
  CacheModes = {TRUE, FALSE}
  Engines = {1, 2}
  Rows <- MCRows
  MaxEdges = 2
  MaxTag = 5
  NoEdge = 0
  Keys = {1, 2, 3, 4, 5}
  Mix <- MCMix
  MinCapacity = 4
  MaxCount = 2
  Empty = 98
  Tombstone = 99
  Cslots = {1, 2, 3}
  MaxOuts = 3
  NoComp = 0
  MaxCells = 2
  MaxMemory = 4
  SlotCap = 2
  MaxSlots = 2
  MaxReuse = 2
  CellValues = {7, 8}
  Zero = 0
  Programs <- MCPrograms
  NoPath = NoPath
  MaxWalk = 24
  Units <- MCUnits
  MaxTypeLen = 3
  ClassUnits <- MCClassUnits
  NoName = ""
  Calls <- MCCalls
  NoValue = NoValue
  Bodies <- MCFunctions
  NoEnv = NoEnv
CHECK_DEADLOCK FALSE
INVARIANTS PoolIsSound ArenaIsSound BagIsSound ComponentsAreSound ObjectsAreApart
  ImportsAreSound OutputIsPure InstancesAreSound LayoutIsSound BindingIsSound NamesAreSound
