SPECIFICATION SavingSpec
CONSTANTS
  Keep = 2
  Slack = 1
  MaxSaid = 3
  MaxTokens = 1
  MaxInput = 1
PROPERTIES SaveEnds
