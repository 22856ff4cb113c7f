SPECIFICATION FairSpec
CONSTANTS
  MaxCalls = 4
  MaxEdits = 2
INVARIANTS
  AnswersOwnChoice
  ViewGoesOn
PROPERTIES
  RetainedSurvive
  EveryCallAnswered
