SPECIFICATION Spec
CONSTANTS
  Actions = {"respond", "price"}
  Emitted <- MCEmitted
  Synthesized = {"price"}
  Models = {"qwen"}
  Examples <- MCExamples
  Answers <- MCAnswers
  Rates <- MCRates
  None = None
  MaxCommands = 4
  Suffix = "md"
INVARIANT SlmTierIsBacked
INVARIANT FilesAgree
PROPERTY Implements
CHECK_DEADLOCK FALSE
