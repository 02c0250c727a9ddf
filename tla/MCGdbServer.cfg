SPECIFICATION Spec
CONSTANTS
  t1 = t1
  t2 = t2
  t3 = t3
  g1 = g1
  g2 = g2
  NoTask = NoTask
  NoGroup = NoGroup
  NoCheckpoint = NoCheckpoint
  Tasks <- MCTasks
  Groups <- MCGroups
  TG <- MCTG
  Trace <- MCTrace
  NoCheckpointFrames <- MCNoCheckpointFrames
  BreakFrames <- MCBreakFrames
  FirstRunEvent <- MCFirstRunEvent
  InitialTargets <- MCInitialTargets
  RestartEvents <- MCRestartEventsAll
  MaxFrameTime <- MCMaxFrameTime
  CheckpointIds <- MCCheckpointIds
  MaxRequests <- MCMaxRequests
  KeepListening = TRUE
  ReverseExecution = TRUE
INVARIANT TypeOK
INVARIANT CheckpointsPinned
PROPERTY RestartCompletes
