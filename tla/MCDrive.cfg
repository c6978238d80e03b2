SPECIFICATION AnalysisSpec
CONSTANTS
  NegInf = NegInf
  Inputs <- MCInputs
  SigmaThs <- MCSigmaThs
  DraftDevices <- MCDraftDevices
  MuThs <- MCMuThs
  LSpecs <- MCLSpecs
  SweepSigmas <- MCSweepSigmas
  CausalSigmas <- MCCausalSigmas
  SigmaOp <- MCSigmaOp
  MaxDepths = {0, 1}
INVARIANTS
  DraftsAreFresh
  GatesCompose
  ArTilesTheText
  NestedInL
  ReplayPassesThrough
  SweepIsReplay
  StatisticsCountTheChain
  MatchedBudgets
