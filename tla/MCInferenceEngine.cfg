SPECIFICATION EngineSpec
CONSTANTS
  boot = boot
  t1 = t1
  t2 = t2
  base = base
  vision = vision
  Threads <- MCThreads
  InitThread = boot
  NoThread = NoThread
  Cores <- MCCores
  NoCore = NoCore
  QwenNamed <- MCQwen
  VisionNamed <- MCVisionNamed
  VisionCore = vision
  NCtx = 1
  PromptLens <- MCPromptLens
INVARIANTS EngineTypeOK ModelPinned GeneratingFlag
PROPERTIES CallsCountDown SlotPromise
