SPECIFICATION HistorySpec
CONSTANTS
  Keep = 2
  Slack = 1
  MaxSaid = 3
  MaxTokens = 3
  MaxInput = 1
INVARIANTS ThoughtsHidden
