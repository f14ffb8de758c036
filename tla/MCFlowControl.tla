--------------------------- MODULE MCFlowControl ---------------------------
(***************************************************************************)
(* The workflows of MCExecTask with two ranks per task.                    *)
(***************************************************************************)
EXTENDS FlowControl, MCExecTask

MCnprocs == [t \in MCTasks |-> 2]

MCFlowPolicies ==
  [t \in MCTasks |-> SetToSortSeq({l \in MCLinks : W.prod[l] = t /\ W.freq[l] # 1}, <)]
=============================================================================
