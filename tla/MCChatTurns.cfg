SPECIFICATION Spec
CONSTANTS
  boot = boot
  work = work
  draft = draft
  pick = pick
  base = base
  coder = coder
  vision = vision
  Threads <- MCThreads
  InitThread = boot
  NoThread = NoThread
  Cores <- MCCores
  NoCore = NoCore
  QwenNamed <- MCQwen
  VisionNamed <- MCVisionNamed
  VisionCore = vision
  NCtx = 2
  PromptLens <- MCPromptLens
  Worker = work
  Drafter = draft
  Pickers <- MCPickers
  Specialist <- MCSpecialist
INVARIANTS TypeOK NoCallDropped StopIsForeign NameTruthful
PROPERTIES TurnEnds DraftEnds PickLands
