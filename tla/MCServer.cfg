\* Three connections, two of them at a time, each with any request.
SPECIFICATION Spec
CONSTANTS
  NumConns = 3
  MaxConn = 2
  MaxFiles = 1
  MaxPanics = 1
CHECK_DEADLOCK FALSE
INVARIANTS Accounted SettingsNotOlder UploadsKept
PROPERTIES EveryoneAnswered
