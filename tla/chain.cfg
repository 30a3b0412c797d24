SPECIFICATION Spec
CONSTANTS
  a = a
  b = b
  flow1 = flow1
  Dags = {a, b}
  Flows = {flow1}
  Deploys = {d1, d2}
  NoFlow = NoFlow
  NoDeploy = NoDeploy
  NoEntry = NoEntry
  NoFile = NoFile
  HandWritten = HandWritten
  Earlier = Earlier
  UserDags = {b}
  Requests <- MCBack
  InitFile <- MCFileA
  InitRows <- MCRowsA
  MaxAttempts = 0
  MinPolls = 1
  Budget = 0
  Grace = 1
  MaxTime = 1
  MaxFaults = 0
  MaxInterventions = 0
SYMMETRY Symmetry
INVARIANT FlowKeepsADag
PROPERTIES RequestsSurvive QuiescedBeforeLive
CHECK_DEADLOCK FALSE
