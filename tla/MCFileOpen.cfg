SPECIFICATION Spec
CONSTANTS
  Objects = {"root", "dir", "page", "home", "pipe"}
  Root = "root"
  PathObjects = {"dir", "page", "pipe"}
  IndexObjects = {"home", "pipe"}
  KindOf <- MCKindOf
  SizeOf <- MCSizeOf
  RequestPaths <- MCRequestPaths
  LookupErrors = {"ENOENT", "ELOOP"}
INVARIANTS
  OneRegularDescriptor
  ServedWhatWasNamed
  ErrnoTellsTheCause
PROPERTY
  ReturnsUnlessFifo
CHECK_DEADLOCK FALSE
