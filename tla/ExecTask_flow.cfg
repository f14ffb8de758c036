CONSTANTS
  Workflow = "flow"
  Ensembles = TRUE
  SleepSuffices = TRUE
  Tasks <- MCTasks
  Links <- MCLinks
  NoLink = 0
  Prod <- MCProd
  Con <- MCCon
  Index <- MCIndex
  wlk_consumer <- MCWlkConsumer
  serve_indices <- MCServeIndices
  Policy <- MCPolicy
  Script <- MCScript
  nprocs <- MCnprocs
  flow_policies <- MCFlowPolicies
SPECIFICATION FCSpec
INVARIANT FrequencyHonoured
INVARIANT EachFileOnce
INVARIANT RanksAgree
PROPERTY LatestServedOnlyWhenAsked
PROPERTY CallbackIsOneStep
CHECK_DEADLOCK FALSE
