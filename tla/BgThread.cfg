SPECIFICATION Spec
CONSTANTS
  N = 3
  main = main
  bg = bg
  MaxStarts = 2
  MaxCommands = 4
  MaxPostFails = 1
  WaitMayFail = TRUE
INVARIANTS
  TypeOK
  RunsOnLiveResources
  NoLostWakeUp
  StopsAfterCommands
PROPERTIES
  StopReturns
  EveryCommandHandled
CHECK_DEADLOCK FALSE
