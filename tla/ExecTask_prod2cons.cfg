CONSTANTS
  Workflow = "prod2cons"
  Ensembles = FALSE
  SleepSuffices = FALSE
  Tasks <- MCTasks
  Links <- MCLinks
  NoLink = 0
  Prod <- MCProd
  Con <- MCCon
  Index <- MCIndex
  wlk_consumer <- MCWlkConsumer
  serve_indices <- MCServeIndices
  Policy <- MCPolicy
  Script <- MCScript
SPECIFICATION Spec
INVARIANT EachFileOnce
CHECK_DEADLOCK FALSE
