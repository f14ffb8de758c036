----------------------------- MODULE FlowControl -----------------------------
(***************************************************************************)
(* FlowControl.callback (wilkins-master.py) rank by rank.  In ExecTask a   *)
(* task closes a file in one step; here every rank of a task with a flow   *)
(* policy walks the list of policies by itself, looks for requests of the  *)
(* consumers, which may arrive meanwhile, and meets the other ranks in the *)
(* barrier and in every allreduce.                                         *)
(***************************************************************************)
EXTENDS ExecTask

CONSTANTS
  nprocs,          \* [Tasks -> Nat], the ranks of a task that do I/O
  flow_policies    \* [Tasks -> Seq(Links)], the links whose policy is not "all"

ASSUME RankAssumption == nprocs \in [Tasks -> Nat \ {0}]

ASSUME PolicyAssumption ==
  /\ flow_policies \in [Tasks -> Seq(Links)]
  /\ \A t \in Tasks :
       /\ ToSet(flow_policies[t]) = Limited(t)
       /\ \A i, j \in DOMAIN flow_policies[t] : i < j =>
            Index[t][flow_policies[t][i]] < Index[t][flow_policies[t][j]]

VARIABLE callback  \* the ranks of a task in its callback; <<>>: not in it

fcVars == <<vars, callback>>

Ranks(t) == 1 .. nprocs[t]

(* Where a rank is: its place in flow_policies, whether it has probed for  *)
(* that policy, and its variables indices and serve.                       *)
Frame == [at : Nat \ {0}, probed : BOOLEAN, indices : SUBSET Links,
          serve : BOOLEAN]

FCInit == Init /\ callback = [t \in Tasks |-> <<>>]

Inside(t) == callback[t] # <<>>

(* Rank r of t is at a policy of the given kind, for link l.               *)
AtPolicy(t, r, l, latest) ==
  /\ Inside(t) /\ callback[t][r].at \in DOMAIN flow_policies[t]
  /\ l = flow_policies[t][callback[t][r].at]
  /\ latest = (Policy[l] = -1)

(* comm.barrier(), and what every rank does before its first policy.  The  *)
(* mutant forgets to count.                                                *)
CountedNever(t) == serve_counter[t]

Counted(t) == serve_counter[t] + 1

Barrier(t) ==
  /\ AtOp(t, "write") /\ FlowControlled(t) /\ ~Inside(t)
  /\ serve_counter' = [serve_counter EXCEPT ![t] = Counted(t)]
  /\ callback' = [callback EXCEPT ![t] = [r \in Ranks(t) |->
       [at |-> 1, probed |-> FALSE, indices |-> Indexed(t), serve |-> FALSE]]]
  /\ UNCHANGED <<pc, pos, first, wlk, cur, idx, at, prod_done, serving, acked,
                 sent, got>>

(* iprobe: a request under way may have reached this rank.  The mutant     *)
(* takes any message for one.                                              *)
FoundAnyTag(l) == BOOLEAN

Found(l) == {FALSE, Asking(l)}

Probe(t, r) ==
  /\ \E l \in Links : /\ AtPolicy(t, r, l, TRUE)
                      /\ \E found \in Found(l) :
                           callback' = [callback EXCEPT ![t][r].probed = TRUE,
                                                        ![t][r].serve = @ \/ found]
  /\ ~callback[t][r].probed
  /\ UNCHANGED vars

(* indices.remove(idx) on the ranks rs, and on to the next policy.         *)
Leave(f, l, remove) ==
  [f EXCEPT !.at = @ + 1, !.probed = FALSE,
            !.indices = IF remove THEN @ \ {l} ELSE @]

(* indices.remove raises ValueError: the task is stopped.                  *)
Raise(t) ==
  /\ pc' = [pc EXCEPT ![t] = "error"]
  /\ callback' = [callback EXCEPT ![t] = <<>>]
  /\ UNCHANGED <<pos, first, wlk, cur, idx, at, prod_done, serve_counter,
                 serving, acked, sent, got>>

(* What allreduce(serve, MAX) returns to rank r.  The mutant is serve.     *)
AnyServeMine(t, r) == callback[t][r].serve

AnyServe(t, r) == \E s \in Ranks(t) : callback[t][s].serve

Allreduce(t) ==
  \E l \in Links :
    /\ \A r \in Ranks(t) : AtPolicy(t, r, l, TRUE) /\ callback[t][r].probed
    /\ IF \E r \in Ranks(t) : ~AnyServe(t, r) /\ l \notin callback[t][r].indices
       THEN Raise(t)
       ELSE /\ callback' = [callback EXCEPT ![t] = [r \in Ranks(t) |->
                 Leave(callback[t][r], l, ~AnyServe(t, r))]]
            /\ UNCHANGED vars

(* A policy with an interval; no rank waits for another one.  The mutant   *)
(* counts from 0.                                                          *)
DueFromZero(t, l) == (serve_counter[t] - 1) % Policy[l] = 0

Due(t, l) == serve_counter[t] % Policy[l] = 0

Count(t, r) ==
  \E l \in Links :
    /\ AtPolicy(t, r, l, FALSE)
    /\ IF ~Due(t, l) /\ l \notin callback[t][r].indices
       THEN Raise(t)
       ELSE /\ callback' = [callback EXCEPT ![t][r] = Leave(@, l, ~Due(t, l))]
            /\ UNCHANGED vars

(* All ranks have returned: the serve is over the indices (external: it is *)
(* collective; ranks that disagreed would serve the list of one of them).  *)
Return(t) ==
  /\ Inside(t)
  /\ \A r \in Ranks(t) : callback[t][r].at > Len(flow_policies[t])
  /\ UNCHANGED serve_counter
  /\ \E r \in Ranks(t) : StartServe(t, callback[t][r].indices)
  /\ callback' = [callback EXCEPT ![t] = <<>>]
  /\ UNCHANGED <<pos, at, first, wlk, cur, idx, prod_done, acked, got>>

(* Everything else is as in ExecTask.                                      *)
Elsewhere(t) ==
  /\ ~(AtOp(t, "write") /\ FlowControlled(t))
  /\ Step(t)
  /\ UNCHANGED callback

FCStep(t) ==
  \/ Elsewhere(t) \/ Barrier(t) \/ Allreduce(t) \/ Return(t)
  \/ \E r \in Ranks(t) : Probe(t, r) \/ Count(t, r)

(* Ranks are processes: no task stands still while one of its ranks can go *)
(* on, and a task takes finitely many steps in its callback.               *)
FCSpec == FCInit /\ [][\E t \in Tasks : FCStep(t)]_fcVars
                 /\ \A t \in Tasks : WF_fcVars(FCStep(t))

-----------------------------------------------------------------------------
(* Properties.                                                             *)

(* The ranks of a task that have handled the same policies hold the same   *)
(* indices: serve_all is collective over them (wilkins-master.py:79).      *)
RanksAgree ==
  \A t \in Tasks : \A r, s \in DOMAIN callback[t] :
    callback[t][r].at = callback[t][s].at =>
      callback[t][r].indices = callback[t][s].indices

(* The callback, seen from outside, is one step: the file counts as closed *)
(* when the callback returns, and it decides as if all its probes had been *)
(* made then.  FlowControl implements ExecTask, its fairness included.     *)
Closed == [t \in Tasks |-> IF Inside(t) THEN serve_counter[t] - 1
                                        ELSE serve_counter[t]]

Task == INSTANCE ExecTask WITH serve_counter <- Closed

CallbackIsOneStep == Task!Spec

(* The io_freq of a link is honoured (PolicyHonoured of ExecTask) at every  *)
(* moment, if a file counts as closed when the callback has returned.      *)
FrequencyHonoured == Task!PolicyHonoured
=============================================================================
