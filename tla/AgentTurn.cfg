SPECIFICATION TurnSpec
CONSTANTS
  Questions <- MCQuestions
  Class <- MCClass
  Pictures <- MCPictures
  Key <- MCKey
  NoKey = "none"
  Backends = {1, 2}
  Loaded <- MCLoaded
  Presets <- MCPresets
  Calls <- MCCalls
  LocalTools <- MCLocalTools
  MaxRounds = 2
  MaxRepeats = 1
  Slots = 1
  Pauses <- MCPauses
  Configured = "auto"
  Boot = 1000
  MaxTurns = 4
  MaxTicks = 3
CHECK_DEADLOCK FALSE
INVARIANTS TurnTypeOK AnswerKept CacheTruthful
PROPERTIES FailedOnesRest
