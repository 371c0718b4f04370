CONSTANTS
  MaxTokens = 6
  MaxInBody = 5
  MaxInSignature = 4
  MaxEdit = 1
  MaxParams = 2
  Files <- MCFiles
SPECIFICATION Spec
CHECK_DEADLOCK FALSE
INVARIANTS
  AcceptedIsSentence
  SentenceIsAccepted
  NoLeftRecursion
PROPERTIES
  EndsOrSpins
