SPECIFICATION AnalysisSpec
CONSTANTS
  NegInf = NegInf
  Inputs <- OneStepInputs
  SigmaThs <- MCSigmaThs
  DraftDevices <- MCDraftDevices
  MuThs <- MCMuThs
  LSpecs <- MCLSpecs
  SweepSigmas <- MCSweepSigmas
  CausalSigmas <- MCCausalSigmas
  SigmaOp <- MCSigmaOp
  MaxDepths = {0, 1}
INVARIANT
  DraftWidthsCountBoundary
