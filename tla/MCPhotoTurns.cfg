SPECIFICATION Spec
CONSTANTS
  Keep = 2
  Slack = 0
  MaxSaid = 3
  MaxTokens = 1
  MaxInput = 1
INVARIANTS SentPhotoTaken
