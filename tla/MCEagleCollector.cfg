SPECIFICATION FairSpec
CONSTANTS
  Nil = Nil
  NegInf = NegInf
  MaxNewTokens = 2
  Vocab <- MCVocab
  Eos <- MCEos
  Prompts <- MCPrompts
  Argmax <- MCArgmax
  Drafts <- MCDrafts
  Thresholds <- MCThresholds
INVARIANTS
  TypeOK
  StepsTileText
  TraceTilesOutput
  AcceptsSpellOutput
  RecordedIffVerifiable
  PendingIsCurrent
  WrappedOnce
  BoundedSteps
  TraceComplete
PROPERTIES
  RefinesGreedy
  Termination
