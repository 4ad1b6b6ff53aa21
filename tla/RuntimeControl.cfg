SPECIFICATION RuntimeSpec
CONSTANTS
  Service <- MCService
  Profile <- MCService
  Gpu <- MCGpu
  Docker <- MCDocker
  Connections <- MCConnections
  Initial <- MCInitial
  Tab = {t1, t2}
  MaxRevision = 3
  None = None
  e1 = e1
  e2 = e2
  c1 = c1
  c2 = c2
SYMMETRY MCSymmetry
INVARIANTS
  TypeOK
  ServicesMatchSettings
  OneManagedGpuModel
  OnlyOvertakenIsStale
PROPERTIES
  ReplacedIsKept
