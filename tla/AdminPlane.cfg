SPECIFICATION FairSpec
CONSTANTS
  s1 = s1
  k1 = k1
  NoKey = NoKey
  Source <- MCSource
  Key <- MCKey
  MaxPages = 1
  MaxCrawls = 1
  MaxDocs = 1
  MaxBuilds = 1
INVARIANTS
  QueriesSeeTheIndex
  NothingRunsAfterShutdown
PROPERTIES
  OneWriterAtATime
  ShutdownEnds
