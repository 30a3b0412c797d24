SPECIFICATION FairSpec
CONSTANTS
  a = a
  b = b
  flow1 = flow1
  Dags = {a, b}
  Flows = {flow1}
  Deploys = {d1}
  NoFlow = NoFlow
  NoDeploy = NoDeploy
  NoEntry = NoEntry
  NoFile = NoFile
  HandWritten = HandWritten
  Earlier = Earlier
  UserDags = {a, b}
  Requests <- MCRename
  InitFile <- MCFileA
  InitRows <- MCRowsA
  MaxAttempts = 1
  MinPolls = 1
  Budget = 0
  Grace = 0
  MaxTime = 2
  MaxFaults = 1
  MaxInterventions = 2
INVARIANTS IndInv CommitLast CompletedIsEarned
PROPERTIES RequestsSurvive DecisionsAreFinal QuiescedBeforeLive EventuallyClosed
CHECK_DEADLOCK FALSE
