SPECIFICATION ClaimSpec
CONSTANTS
  boot = boot
  work = work
  draft = draft
  base = base
  coder = coder
  vision = vision
  heavy = heavy
  Threads <- MCThreads
  InitThread = boot
  NoThread = NoThread
  Cores <- MCCores
  NoCore = NoCore
  QwenNamed <- MCQwen
  VisionNamed <- MCVisionNamed
  VisionCore = vision
  NCtx = 2
  PromptLens <- MCPromptLens
  Worker = work
  Drafter = draft
  Pickers <- MCPickers
  Specialist <- MCSpecialist
INVARIANTS EyesOfLoadedModel
