SPECIFICATION FairSpec
CONSTANTS
  s1 = s1
  s2 = s2
  Source <- MCSource
  MaxPages = 2
  MaxCrawls = 3
INVARIANTS
  CrawlTypeOK
  WriterHeldByWorker
  FinishedCrawlIsHonest
  CancelIsHonoured
  NoStaleCancel
PROPERTIES
  FinishedCrawlIsFrozen
  WriterComesBack
