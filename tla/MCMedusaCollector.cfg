SPECIFICATION FairSpec
CONSTANTS
  Nil = Nil
  MaxSteps = 3
  Vocab <- MCVocab
  Eos <- MCEos
  PadToken <- MCPadToken
  Prompts <- MCPrompts
  Argmax <- MCArgmax
  Tree <- MCTree
  Knobs <- MCKnobs
  HeadTables <- MCHeadTables
INVARIANTS
  HistIsRecount
  CausalSelection
  SelectionIsClosed
  BufferIsGate
  NothingLeftBehind
  StepsTileOutput
PROPERTIES
  RefinesGreedy
