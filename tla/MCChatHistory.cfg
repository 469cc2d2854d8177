SPECIFICATION HistorySpec
CONSTANTS
  Keep = 2
  Slack = 0
  MaxSaid = 5
  MaxTokens = 4
  MaxInput = 1
INVARIANTS HistoryTypeOK OnlyMeasuredGo ReplyShownOnce AnswerKept PromptUndisturbed CursorAtRest
PROPERTIES TurnDone
