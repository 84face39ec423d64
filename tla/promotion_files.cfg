SPECIFICATION Spec
CONSTANTS
  Actions = {"respond", "price"}
  Emitted <- MCEmitted
  Synthesized = {"price"}
  Models = {"qwen"}
  Examples <- MCExamples
  Answers <- MCAnswers
  Rates <- MCRates
  None = None
  MaxCommands = 1
  Suffix = "json"
PROPERTY PromotedFilesAreRegenerated
CHECK_DEADLOCK FALSE
