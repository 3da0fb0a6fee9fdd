CONSTANTS
  Daemons = {terminal, icon}
  Trays = {icon}
  Commands = {status}
  WebOn = TRUE
  NoOne = NoOne
SPECIFICATION Spec
INVARIANTS TypeOK OneClient LockCoversLink
PROPERTY StopEnds
