CONSTANTS
  Workflow = "ensembles"
  Ensembles = TRUE
  SleepSuffices = TRUE
  Tasks <- MCTasks
  Links <- MCLinks
  NoLink = 0
  Prod <- MCProd
  Con <- MCCon
  Index <- MCIndex
  wlk_consumer <- MCWlkConsumer
  serve_indices <- MCServeIndices
  Policy <- MCPolicy
  Script <- MCScript
SPECIFICATION Spec
INVARIANT TypeOK
INVARIANT NoException
INVARIANT EachFileOnce
INVARIANT PolicyHonoured
PROPERTY Termination
CHECK_DEADLOCK FALSE
