CONSTANTS
  Workflow = "fileNamedAfterTask"
  Tasks <- MCTasks
  NumLinks <- MCNumLinks
  Prod <- MCProd
  Con <- MCCon
  Group <- MCGroup
  Policy <- MCPolicy
  File <- MCFile
  In <- MCIn
  Out <- MCOut
  Hidden <- MCHidden
  NamesIn <- MCNamesIn
SPECIFICATION Spec
PROPERTY AllReady
CHECK_DEADLOCK FALSE
