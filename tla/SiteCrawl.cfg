SPECIFICATION FairSpec
CONSTANTS
  a = a
  b = b
  c = c
  outside = outside
  x = x
  y = y
  Nothing = Nothing
  Url <- MCUrl
  Content <- MCContent
  Site <- MCSite
  Scope <- MCScope
  MaxPages = 3
  MaxDepth = 1
  MaxCrawls = 2
INVARIANTS
  CleanResultIsComplete
  DuplicatesNameTheirFirst
  CapturesAreOnDisk
PROPERTIES
  CrawlEnds
  ChangesAreReported
\* crawl() returns: after the last one nothing is left to do.
CHECK_DEADLOCK FALSE
