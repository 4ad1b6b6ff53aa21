SPECIFICATION HttpSpec
CONSTANTS
  h1 = h1
  h2 = h2
  foreign = foreign
  p1 = p1
  p2 = p2
  out = out
  None = None
  Hosts = {h1, h2, foreign}
  Paths = {p1, p2, out}
  AllowedHosts = {h1, h2}
  AllowedPaths = {p1, p2}
  MaxRetries = 2
  RequestDelay = 1
  MaxRetryAfter = 4
  MaxRedirects = 2
  RetryAfters = {2, 9}
  MaxVisits = 2
INVARIANTS
  RequestsAreAllowed
  RetriesAreDue
\* The crawl ends.
CHECK_DEADLOCK FALSE
