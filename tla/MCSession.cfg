SPECIFICATION Spec
CONSTANTS
  Leash = 3
  Period = 1
  MaxRuns = 2
  MaxClock = 3
  MayFail = TRUE
  MaxRequests = 2
  MaxIntimacy = 1
  SaveMayFail = TRUE
INVARIANTS NoCrashForgotten LoopLeashed NoFalseAlarm NoSetback AnswerOnItsWay OwnAnswer
PROPERTIES Comeback WaitEnds
\* A closed application stays closed once MaxRuns is used up.
CHECK_DEADLOCK FALSE
