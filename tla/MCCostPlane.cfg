SPECIFICATION ReportSpec
CONSTANTS
  NegInf = NegInf
  Jobs <- MCJobs
  Calls <- MCCalls
  Seconds <- MCSeconds
  Joules <- MCJoules
INVARIANTS
  ChargesTheUnrolledNetwork
  LedgersAreViews
  DispatchIsLegal
  KvStaysInBank
  OnePicture
  BusyTag
  SplitBeatsBothDevices
