SPECIFICATION ScanSpec
CONSTANTS
  RowSets <- MCRowSets
  KeepSets <- MCKeepSets
INVARIANTS
  ScanComputesGating
  RaisesIffMalformed
  KeptSubtree
