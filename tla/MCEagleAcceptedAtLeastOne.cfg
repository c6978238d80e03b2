SPECIFICATION Spec
CONSTANTS
  Nil = Nil
  NegInf = NegInf
  MaxNewTokens = 2
  Vocab <- MCVocab
  Eos <- MCEos
  Prompts <- MCPrompts
  Argmax <- MCArgmax
  Drafts <- MCDrafts
  Thresholds <- MCThresholds
INVARIANT AcceptedAtLeastOne
