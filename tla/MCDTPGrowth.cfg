SPECIFICATION GrowthSpec
CONSTANTS
  Trees <- MCTrees
  Rates <- MCRates
  Selections <- MCSelections
INVARIANT
  SortIsGrowth
