SPECIFICATION Spec
CONSTANTS
  a = a
  b = b
  flow1 = flow1
  Dags = {a, b}
  Flows = {flow1}
  Deploys = {d1}
  NoFlow = NoFlow
  NoDeploy = NoDeploy
  NoEntry = NoEntry
  NoFile = NoFile
  HandWritten = HandWritten
  Earlier = Earlier
  UserDags = {b}
  Requests <- MCRename
  InitFile <- MCFileA
  InitRows <- MCRowsKept
  MaxAttempts = 1
  MinPolls = 1
  Budget = 0
  Grace = 1
  MaxTime = 2
  MaxFaults = 0
  MaxInterventions = 0
PROPERTY BrokenNewSparesOld
CHECK_DEADLOCK FALSE
