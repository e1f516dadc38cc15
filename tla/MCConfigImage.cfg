CONSTANTS
  Cap = 262
  Scratch = 150
  MaxChanges = 2
  SecretLen = 8
  MaxTokens = 4
  Changes <- MCChanges
  OldSettings <- MCOld
SPECIFICATION Spec
PROPERTIES RestartRestores FrontSurvives RevokedStaysOut
