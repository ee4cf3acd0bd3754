CONSTANTS
  Configs <- MCConfigs
  Events <- MCEvents
  Hosts <- MCHosts
  Named <- MCNamed
  Daemons <- MCDaemons
  Requests <- MCRequests
  Globs <- MCGlobs
  HistorySize = 2
  MaxSeenTargets = 2
  MaxUnmatched = 1
  SequenceWindow = 2
  MaxEvents = 3
  MaxFaults = 1
  MaxTime = 3
SPECIFICATION Spec
INVARIANTS TypeOK BudgetsHold DenialsHold ScoredOnThePast LintIsSound
INVARIANTS LoadIsMaximal AdmissionIsHonest 
PROPERTIES KeepsTheLedger SpentStaysSpent
CHECK_DEADLOCK FALSE
