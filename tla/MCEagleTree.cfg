SPECIFICATION Spec
CONSTANTS
  K = 2
  D = 3
  Vocab <- MCVocab
  Totals <- MCTotals
  HeadRows <- MCHeadRows
INVARIANTS
  ReturnsWellFormedDraft
  PathsAreLineages
  OneRowPerLeaf
