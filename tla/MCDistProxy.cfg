SPECIFICATION FairSpec
CONSTANTS
  Data = {m1, m2}
  NoData = NoData
  N = 4
  kPollMax = 2
  kCleanupMax = 1
  kPollReportThreshold = 2
  kCleanReportThreshold = 2
  Word = 16
PROPERTIES ImplementsChannel EntriesArrive
