SPECIFICATION LifecycleSpec
CONSTANTS
  d1 = d1
  d2 = d2
  v1 = v1
  v2 = v2
  m1 = m1
  m2 = m2
  m3 = m3
  s1 = s1
  s2 = s2
  s3 = s3
  s4 = s4
  web = web
  None = None
  op1 = op1
  op2 = op2
  blue = blue
  red = red
  green = green
  Operators = {op1, op2}
  Physical = {blue, red, green}
  Initial = green
  Candidate = green
  Before <- MCBefore
  Manifests <- MCManifests
  Builders = {web}
  Versions <- MCVersions
  Shape <- MCShape
  Settings = {s1, s2, s3, s4}
  Config <- MCConfig
  Dimension <- MCDimension
  Captures <- MCCaptures
  Rank <- MCRank
  BatchSize = 2
  PageSize = 2
  MaxEvents = 2
  MaxBuilds = 2
INVARIANTS
  ReportIsTrue
  SnapshotIsExact
PROPERTIES
  AliasesNeverVanish
  CommandsAreExact
  WholeStaysWhole
CHECK_DEADLOCK FALSE
