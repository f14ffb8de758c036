CONSTANTS
  Workflow = "waits"
  Tasks <- MCTasks
  NumLinks <- MCNumLinks
  Prod <- MCProd
  Con <- MCCon
  Group <- MCGroup
  Policy <- MCPolicy
  File <- MCFile
  In <- MCIn
  Out <- MCOut
  Hidden <- MCHidden
  NamesIn <- MCNamesIn
  start_proc <- MCstart_proc
  nprocs <- MCnprocs
  Launches <- MCLaunches
SPECIFICATION LSpec
PROPERTY Launched
CHECK_DEADLOCK FALSE
