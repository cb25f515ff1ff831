SPECIFICATION Spec
CONSTANTS
  AppLists <- SmallAppLists
  CountLists <- SmallCountLists
  OffsetLists <- SmallOffsetLists
  Threads <- Two
  Noises <- Two
  CoreCount = 2
  CpuCount = 6
  None = None
  PlotLists <- SmallPlotLists
INVARIANTS
  EveryFrameDrawn
