\* Two children: two sessions, a session and a command, or two commands.
SPECIFICATION Spec
CONSTANTS
  NumSessions = 2
  MaxSessions = 1
  NumRuns = 2
  MaxChildren = 2
  PipeSize = 1
  Programs <- MCPrograms
  MaxPanics = 1
PROPERTIES SessionsGo ShellsEnd ExitTold RunReturns
CHECK_DEADLOCK FALSE
