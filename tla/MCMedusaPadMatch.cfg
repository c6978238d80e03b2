SPECIFICATION Spec
CONSTANTS
  Nil = Nil
  MaxSteps = 3
  Vocab <- UnkVocab
  Eos <- MCEos
  PadToken <- MCPadToken
  Prompts <- MCPrompts
  Argmax <- UnkArgmax
  Tree <- MCTree
  Knobs <- HeadlineKnobs
  HeadTables <- MCHeadTables
INVARIANT
  PadMatchIsGreedy
