SPECIFICATION Spec
CONSTANTS
  Nil = Nil
  MaxSteps = 3
  Vocab <- MCVocab
  Eos <- MCEos
  PadToken <- MCPadToken
  Prompts <- MCPrompts
  Argmax <- MCArgmax
  Tree <- MCTree
  Knobs <- HeadlineKnobs
  HeadTables <- MCHeadTables
INVARIANT
  NeverPrunesUnobserved
