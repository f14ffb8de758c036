------------------------- MODULE FlowControl_proofs -------------------------
(***************************************************************************)
(* The ranks of a task agree in their flow control, for every workflow and *)
(* every number of ranks: those that have handled the same policies hold   *)
(* the same indices, whenever the requests of the consumers arrive.        *)
(***************************************************************************)
EXTENDS FlowControl, ExecTask_proofs

-----------------------------------------------------------------------------
(* The inductive invariant.                                                *)

(* A task in its callback is closing a file, and has a frame per rank.     *)
FramesOK ==
  /\ callback = [t \in Tasks |-> callback[t]]
  /\ \A t \in Tasks : Inside(t) =>
       /\ AtOp(t, "write") /\ FlowControlled(t)
       /\ callback[t] \in [Ranks(t) -> Frame]

(* The links removed between place a and place b of the policies.          *)
Missed(t, a, b) ==
  LET policies == flow_policies[t]
  IN  {policies[k] : k \in {i \in a .. b - 1 : ~Due(t, policies[i])}}

(* A rank that is ahead has only passed policies with an interval, at which *)
(* no rank waits, and has removed what they remove.                        *)
Ahead(t, f, g) ==
  f.at <= g.at =>
    /\ \A k \in f.at .. g.at - 1 : Policy[flow_policies[t][k]] # -1
    /\ g.indices = f.indices \ Missed(t, f.at, g.at)

Together ==
  \A t \in Tasks : Inside(t) =>
    \A r, s \in Ranks(t) : Ahead(t, callback[t][r], callback[t][s])

(* The inductive invariant.                                                *)
RInv == TypeOK /\ AtHand /\ FramesOK /\ Together

-----------------------------------------------------------------------------
(* A step of a task leaves the puppet and the counter of others alone.     *)
LEMMA PuppetFrame ==
  ASSUME TypeOK, NEW t \in Tasks, Step(t), NEW u \in Tasks, u # t
  PROVE  /\ pos'[u] = pos[u] /\ first'[u] = first[u]
         /\ serve_counter'[u] = serve_counter[u]
<1> USE DEF TypeOK
<1>1. CASE OpenFile(t) \/ scf_cb(t) \/ OpenNamedFile(t)
  BY <1>1 DEF OpenFile, scf_cb, OpenNamedFile
<1>2. CASE CloseReadFile(t) \/ CloseWrittenFile(t) \/ EndServe(t)
  BY <1>2 DEF CloseReadFile, CloseWrittenFile, EndServe
<1>3. CASE EndFirstRun(t) \/ EndLaterRun(t) \/ EndProducerDone(t)
  BY <1>3 DEF EndFirstRun, EndLaterRun, EndProducerDone
<1>4. CASE NextFile(t) \/ NoMoreFiles(t) \/ RestartFor(t) \/ LeaveLoop(t)
  BY <1>4 DEF NextFile, NoMoreFiles, RestartFor, LeaveLoop
<1> QED BY <1>1, <1>2, <1>3, <1>4 DEF Step

(* A step outside the callback is a step of a task that is not in it.      *)
LEMMA ElsewhereStep ==
  ASSUME RInv, NEW t \in Tasks, Elsewhere(t)
  PROVE  RInv'
<1> USE DEF RInv
<1>1. TypeOK' /\ AtHand'
  BY TypeStep, AtHandStep DEF Elsewhere
<1>2. ~Inside(t) /\ callback' = callback
  BY DEF Elsewhere, FramesOK
<1>3. ASSUME NEW u \in Tasks, Inside(u)
      PROVE  /\ u # t
             /\ pc'[u] = pc[u] /\ pos'[u] = pos[u] /\ first'[u] = first[u]
             /\ serve_counter'[u] = serve_counter[u]
  BY <1>2, <1>3, StepFrame, PuppetFrame DEF Elsewhere
<1>4. FramesOK'
  BY <1>2, <1>3 DEF FramesOK, Inside, AtOp, RangeOver, NextOp,
     FlowControlled, Limited, Out, Ranks
<1>5. Together'
  BY <1>2, <1>3 DEF Together, Inside, Ahead, Missed, Due
<1> QED BY <1>1, <1>4, <1>5

-----------------------------------------------------------------------------
(* The callback.                                                           *)

(* A step in the callback concerns one task: it leaves the callback, or    *)
(* its ranks have frames that agree.                                       *)
LEMMA InsideStep ==
  ASSUME RInv, NEW t \in Tasks, TypeOK', AtHand',
         callback' = [callback EXCEPT ![t] = callback'[t]],
         \A u \in Tasks \ {t} :
           /\ pc'[u] = pc[u] /\ pos'[u] = pos[u] /\ first'[u] = first[u]
           /\ serve_counter'[u] = serve_counter[u],
         \/ callback'[t] = <<>>
         \/ /\ (AtOp(t, "write") /\ FlowControlled(t))'
            /\ callback'[t] \in [Ranks(t) -> Frame]
            /\ \A r, s \in Ranks(t) : Ahead(t, callback[t][r], callback[t][s])'
  PROVE  RInv'
<1> USE DEF RInv
<1>1. callback' = [u \in Tasks |-> callback'[u]]
  BY DEF FramesOK
<1>2. \A u \in Tasks \ {t} : callback'[u] = callback[u]
  BY DEF FramesOK
<1>3. FramesOK'
  BY <1>1, <1>2 DEF FramesOK, Inside, AtOp, RangeOver, NextOp, FlowControlled,
     Limited, Out
<1>4. ASSUME NEW u \in Tasks, u # t, Inside(u)',
             NEW r \in Ranks(u), NEW s \in Ranks(u)
      PROVE  Ahead(u, callback[u][r], callback[u][s])'
  BY <1>2, <1>4 DEF Together, Inside, Ahead, Missed, Due
<1>5. Together'
  BY <1>4 DEF Together, Inside
<1> QED BY <1>3, <1>5

(* What is removed between two places is removed before or after a third.  *)
LEMMA MissedSplit ==
  ASSUME NEW t \in Tasks, NEW a \in Nat, NEW b \in Nat, NEW c \in Nat,
         a <= b, b <= c
  PROVE  Missed(t, a, c) = Missed(t, a, b) \cup Missed(t, b, c)
<1>1. a .. c - 1 = (a .. b - 1) \cup (b .. c - 1)
  OBVIOUS
<1> QED BY <1>1 DEF Missed

LEMMA MissedNone ==
  ASSUME NEW t \in Tasks, NEW a \in Nat
  PROVE  a .. a - 1 = {} /\ Missed(t, a, a) = {}
<1>1. a .. a - 1 = {}
  OBVIOUS
<1> QED BY <1>1 DEF Missed

LEMMA MissedHere ==
  ASSUME NEW t \in Tasks, NEW a \in Nat
  PROVE  Missed(t, a, a + 1) = IF Due(t, flow_policies[t][a]) THEN {}
                               ELSE {flow_policies[t][a]}
<1>1. a .. (a + 1) - 1 = {a}
  OBVIOUS
<1> QED BY <1>1 DEF Missed

LEMMA BarrierStep ==
  ASSUME RInv, NEW t \in Tasks, Barrier(t)
  PROVE  RInv'
<1>1. TypeOK' /\ AtHand'
  BY DEF RInv, Barrier, TypeOK, AtHand, Counted
<1>2. Indexed(t) \subseteq Links
  BY DEF Indexed, In, Out
<1> DEFINE start == [at |-> 1, probed |-> FALSE, indices |-> Indexed(t),
                     serve |-> FALSE]
<1>3. start \in Frame /\ start.at = 1
  BY <1>2 DEF Frame
<1>4. callback' = [callback EXCEPT ![t] = [r \in Ranks(t) |-> start]]
  BY DEF Barrier
<1> HIDE DEF start
<1>5. callback'[t] = [r \in Ranks(t) |-> start]
  BY <1>4 DEF RInv, FramesOK
<1>6. callback' = [callback EXCEPT ![t] = callback'[t]]
  BY <1>4, <1>5
<1>7. callback'[t] \in [Ranks(t) -> Frame]
  BY <1>3, <1>5
<1>8. \A r, s \in Ranks(t) : Ahead(t, callback[t][r], callback[t][s])'
  <2> SUFFICES ASSUME NEW r \in Ranks(t), NEW s \in Ranks(t)
               PROVE  Ahead(t, callback[t][r], callback[t][s])'
    OBVIOUS
  <2>1. callback'[t][r] = start /\ callback'[t][s] = start
    BY <1>5
  <2>2. 1 .. 1 - 1 = {}
    OBVIOUS
  <2>3. Missed(t, 1, 1)' = {}
    BY <2>2 DEF Missed
  <2> QED BY <1>3, <2>1, <2>2, <2>3 DEF Ahead
<1>9. (AtOp(t, "write") /\ FlowControlled(t))'
  BY DEF Barrier, AtOp, RangeOver, NextOp, FlowControlled, Limited, Out
<1>10. \A u \in Tasks \ {t} :
         /\ pc'[u] = pc[u] /\ pos'[u] = pos[u] /\ first'[u] = first[u]
         /\ serve_counter'[u] = serve_counter[u]
  BY DEF RInv, Barrier, TypeOK
<1> QED BY <1>1, <1>6, <1>7, <1>8, <1>9, <1>10, InsideStep

(* A step of the ranks of a task alone.                                    *)
LEMMA RanksStep ==
  ASSUME RInv, NEW t \in Tasks, Inside(t), UNCHANGED vars,
         callback' = [callback EXCEPT ![t] = callback'[t]],
         callback'[t] \in [Ranks(t) -> Frame],
         \A r, s \in Ranks(t) : Ahead(t, callback'[t][r], callback'[t][s])
  PROVE  RInv'
<1>1. TypeOK' /\ AtHand'
  BY DEF RInv, vars, TypeOK, AtHand
<1>2. (AtOp(t, "write") /\ FlowControlled(t))'
  BY DEF RInv, FramesOK, vars, AtOp, RangeOver, NextOp, FlowControlled,
     Limited, Out
<1>3. \A r, s \in Ranks(t) : Ahead(t, callback[t][r], callback[t][s])'
  BY DEF vars, Ahead, Missed, Due
<1>4. \A u \in Tasks \ {t} :
         /\ pc'[u] = pc[u] /\ pos'[u] = pos[u] /\ first'[u] = first[u]
         /\ serve_counter'[u] = serve_counter[u]
  BY DEF vars
<1> QED BY <1>1, <1>2, <1>3, <1>4, InsideStep

LEMMA FoundType == \A l \in Links : Found(l) \subseteq BOOLEAN
BY DEF Found, Asking

LEMMA ProbeStep ==
  ASSUME RInv, NEW t \in Tasks, NEW r \in Ranks(t), Probe(t, r)
  PROVE  RInv'
<1>1. PICK l \in Links, found \in BOOLEAN :
        /\ AtPolicy(t, r, l, TRUE)
        /\ callback' = [callback EXCEPT ![t][r].probed = TRUE,
                                        ![t][r].serve = @ \/ found]
  BY FoundType DEF Probe
<1>2. Inside(t) /\ callback[t] \in [Ranks(t) -> Frame]
  BY <1>1 DEF AtPolicy, RInv, FramesOK
<1> DEFINE f == callback[t][r]
           n == [f EXCEPT !.probed = TRUE, !.serve = @ \/ found]
<1>3. f \in Frame /\ (f.serve \/ found) \in BOOLEAN
  BY <1>2
<1>4. n \in Frame /\ n.at = f.at /\ n.indices = f.indices
  BY <1>3 DEF Frame
<1>5. callback' = [callback EXCEPT ![t] = [callback[t] EXCEPT ![r] = n]]
  BY <1>1
<1> HIDE DEF n
<1>6. /\ callback'[t] = [callback[t] EXCEPT ![r] = n]
      /\ callback' = [callback EXCEPT ![t] = callback'[t]]
      /\ callback'[t] \in [Ranks(t) -> Frame]
  BY <1>2, <1>4, <1>5 DEF RInv, FramesOK
<1>7. \A s \in Ranks(t) : /\ callback'[t][s].at = callback[t][s].at
                          /\ callback'[t][s].indices = callback[t][s].indices
  BY <1>2, <1>4, <1>6
<1>8. \A p, s \in Ranks(t) : Ahead(t, callback'[t][p], callback'[t][s])
  BY <1>2, <1>7 DEF RInv, Together, Ahead
<1>9. UNCHANGED vars
  BY DEF Probe
<1> QED BY <1>2, <1>6, <1>8, <1>9, RanksStep

(* A rank that passes a policy with an interval stays in line with the     *)
(* others, those behind it and those ahead of it.                          *)
LEMMA PassInLine ==
  ASSUME NEW t \in Tasks, NEW f \in Frame, NEW n \in Frame, NEW g \in Frame,
         Policy[flow_policies[t][f.at]] # -1,
         n.at = f.at + 1,
         n.indices = f.indices \ Missed(t, f.at, f.at + 1),
         Ahead(t, f, g), Ahead(t, g, f)
  PROVE  Ahead(t, n, g) /\ Ahead(t, g, n)
<1>1. f.at \in Nat /\ g.at \in Nat
  BY DEF Frame
<1>2. Ahead(t, n, g)
  <2> SUFFICES ASSUME n.at <= g.at
               PROVE  /\ \A k \in n.at .. g.at - 1 :
                           Policy[flow_policies[t][k]] # -1
                      /\ g.indices = n.indices \ Missed(t, n.at, g.at)
    BY DEF Ahead
  <2>1. /\ \A k \in f.at .. g.at - 1 : Policy[flow_policies[t][k]] # -1
        /\ g.indices = f.indices \ Missed(t, f.at, g.at)
    BY <1>1 DEF Ahead
  <2>2. Missed(t, f.at, g.at) = Missed(t, f.at, f.at + 1)
                                  \cup Missed(t, f.at + 1, g.at)
    BY <1>1, MissedSplit
  <2>3. n.at .. g.at - 1 \subseteq f.at .. g.at - 1
    BY <1>1
  <2> QED BY <2>1, <2>2, <2>3
<1>3. Ahead(t, g, n)
  <2> SUFFICES ASSUME g.at <= n.at
               PROVE  /\ \A k \in g.at .. n.at - 1 :
                           Policy[flow_policies[t][k]] # -1
                      /\ n.indices = g.indices \ Missed(t, g.at, n.at)
    BY DEF Ahead
  <2>1. CASE g.at <= f.at
    <3>1. /\ \A k \in g.at .. f.at - 1 : Policy[flow_policies[t][k]] # -1
          /\ f.indices = g.indices \ Missed(t, g.at, f.at)
      BY <2>1 DEF Ahead
    <3>2. Missed(t, g.at, n.at) = Missed(t, g.at, f.at)
                                    \cup Missed(t, f.at, f.at + 1)
      BY <1>1, <2>1, MissedSplit
    <3>3. \A k \in g.at .. n.at - 1 : k \in g.at .. f.at - 1 \/ k = f.at
      BY <1>1
    <3> QED BY <3>1, <3>2, <3>3
  <2>2. CASE g.at = n.at
    <3>1. g.indices = n.indices
      BY <1>1, <2>2 DEF Ahead
    <3>2. g.at .. g.at - 1 = {} /\ Missed(t, g.at, g.at) = {}
      BY <1>1, MissedNone
    <3> QED BY <2>2, <3>1, <3>2
  <2> QED BY <1>1, <2>1, <2>2
<1> QED BY <1>2, <1>3

LEMMA FrameMoves ==
  ASSUME NEW f \in Frame, NEW rest \in SUBSET Links
  PROVE  LET n == [f EXCEPT !.at = @ + 1, !.probed = FALSE, !.indices = rest]
         IN  n \in Frame /\ n.at = f.at + 1 /\ n.indices = rest
<1> DEFINE n == [f EXCEPT !.at = @ + 1, !.probed = FALSE, !.indices = rest]
<1>1. f.at + 1 \in Nat \ {0}
  BY DEF Frame
<1>2. n \in Frame /\ n.at = f.at + 1 /\ n.indices = rest
  BY <1>1 DEF Frame
<1> QED BY <1>2

(* A frame is in line with one at the same place that has the same links.  *)
LEMMA AheadSame ==
  ASSUME NEW t \in Tasks, NEW f \in Frame, NEW g \in Frame,
         f.at = g.at
  PROVE  Ahead(t, f, g) <=> f.indices = g.indices
<1>0. f.at \in Nat
  BY DEF Frame
<1>1. f.at .. f.at - 1 = {} /\ Missed(t, f.at, f.at) = {}
  BY <1>0, MissedNone
<1>2. f.indices \ {} = f.indices
  OBVIOUS
<1>3. f.at <= g.at /\ f.at .. g.at - 1 = {} /\ Missed(t, f.at, g.at) = {}
  BY <1>0, <1>1
<1> QED BY <1>2, <1>3 DEF Ahead

(* The task leaves its callback.                                           *)
LEMMA RaiseStep ==
  ASSUME RInv, NEW t \in Tasks, Inside(t), Raise(t)
  PROVE  RInv'
<1>1. pc[t] = "run"
  BY DEF RInv, FramesOK, AtOp
<1>2. TypeOK' /\ AtHand'
  BY <1>1 DEF RInv, Raise, TypeOK, AtHand, PcValues
<1>3. callback'[t] = <<>> /\ callback' = [callback EXCEPT ![t] = callback'[t]]
  BY DEF RInv, FramesOK, Raise
<1>4. \A u \in Tasks \ {t} :
         /\ pc'[u] = pc[u] /\ pos'[u] = pos[u] /\ first'[u] = first[u]
         /\ serve_counter'[u] = serve_counter[u]
  BY DEF RInv, TypeOK, Raise
<1> QED BY <1>2, <1>3, <1>4, InsideStep

LEMMA ReturnStep ==
  ASSUME RInv, NEW t \in Tasks, Return(t)
  PROVE  RInv'
<1>1. pc[t] = "run" /\ callback[t] \in [Ranks(t) -> Frame]
  BY DEF RInv, FramesOK, AtOp, Return
<1>2. PICK ls \in SUBSET Links : StartServe(t, ls)
  BY <1>1 DEF Return, Frame
<1>3. sent' \in [Links -> Seq(Nat)]
  BY <1>2 DEF RInv, TypeOK, Return, StartServe
<1>4. TypeOK'
  BY <1>2, <1>3 DEF RInv, TypeOK, Return, StartServe, PcValues
<1>5. AtHand'
  BY <1>1, <1>2 DEF RInv, TypeOK, AtHand, Return, StartServe
<1>6. callback'[t] = <<>> /\ callback' = [callback EXCEPT ![t] = callback'[t]]
  BY DEF RInv, FramesOK, Return
<1>7. \A u \in Tasks \ {t} :
         /\ pc'[u] = pc[u] /\ pos'[u] = pos[u] /\ first'[u] = first[u]
         /\ serve_counter'[u] = serve_counter[u]
  BY <1>2 DEF RInv, TypeOK, Return, StartServe
<1> QED BY <1>4, <1>5, <1>6, <1>7, InsideStep

LEMMA CountStep ==
  ASSUME RInv, NEW t \in Tasks, NEW r \in Ranks(t), Count(t, r)
  PROVE  RInv'
<1>1. PICK l \in Links :
        /\ AtPolicy(t, r, l, FALSE)
        /\ \/ Raise(t)
           \/ /\ callback' = [callback EXCEPT ![t][r] =
                                 Leave(@, l, ~Due(t, l))]
              /\ UNCHANGED vars
  BY DEF Count
<1>2. Inside(t) /\ callback[t] \in [Ranks(t) -> Frame]
  BY <1>1 DEF AtPolicy, RInv, FramesOK
<1>3. CASE Raise(t)
  BY <1>2, <1>3, RaiseStep
<1>4. CASE ~Raise(t)
  <2> DEFINE f == callback[t][r]
             rest == IF ~Due(t, l) THEN f.indices \ {l} ELSE f.indices
             n == [f EXCEPT !.at = @ + 1, !.probed = FALSE, !.indices = rest]
  <2>1. f \in Frame /\ l = flow_policies[t][f.at] /\ Policy[l] # -1
    BY <1>1, <1>2 DEF AtPolicy
  <2>2. n \in Frame /\ n.at = f.at + 1 /\ n.indices = rest
    <3>1. rest \in SUBSET Links
      BY <2>1 DEF Frame
    <3> HIDE DEF rest, f
    <3> QED BY <2>1, <3>1, FrameMoves
  <2>3. n.indices = f.indices \ Missed(t, f.at, f.at + 1)
    <3>1. Missed(t, f.at, f.at + 1) = IF Due(t, l) THEN {} ELSE {l}
      BY <2>1, MissedHere DEF Frame
    <3> HIDE DEF n
    <3> QED BY <2>2, <3>1
  <2>4. callback' = [callback EXCEPT ![t] = [callback[t] EXCEPT ![r] = n]]
    <3>1. Leave(f, l, ~Due(t, l)) = n
      BY Zenon DEF Leave
    <3>2. callback' = [callback EXCEPT ![t] =
                         [callback[t] EXCEPT ![r] = Leave(f, l, ~Due(t, l))]]
      BY <1>1, <1>4
    <3> HIDE DEF n, f
    <3> QED BY <3>1, <3>2
  <2> HIDE DEF n
  <2>5. /\ callback'[t] = [callback[t] EXCEPT ![r] = n]
        /\ callback' = [callback EXCEPT ![t] = callback'[t]]
        /\ callback'[t] \in [Ranks(t) -> Frame]
    BY <1>2, <2>2, <2>4 DEF RInv, FramesOK
  <2>6. \A s \in Ranks(t) :
          callback'[t][s] = IF s = r THEN n ELSE callback[t][s]
    BY <1>2, <2>5
  <2>7. \A s \in Ranks(t) : /\ Ahead(t, n, callback[t][s])
                            /\ Ahead(t, callback[t][s], n)
    <3> SUFFICES ASSUME NEW s \in Ranks(t)
                 PROVE  /\ Ahead(t, n, callback[t][s])
                        /\ Ahead(t, callback[t][s], n)
      OBVIOUS
    <3>1. Ahead(t, f, callback[t][s]) /\ Ahead(t, callback[t][s], f)
      BY <1>2 DEF RInv, Together
    <3>2. callback[t][s] \in Frame
      BY <1>2
    <3> HIDE DEF f
    <3> QED BY <2>1, <2>2, <2>3, <3>1, <3>2, PassInLine
  <2>8. Ahead(t, n, n)
    BY <2>2, AheadSame
  <2>9. \A p, s \in Ranks(t) : Ahead(t, callback'[t][p], callback'[t][s])
    BY <1>2, <2>6, <2>7, <2>8 DEF RInv, Together
  <2> QED BY <1>1, <1>2, <1>4, <2>5, <2>9, RanksStep
<1> QED BY <1>3, <1>4

(* All ranks meet in an allreduce: a rank ahead of another one would have  *)
(* gone past it.  They are at one place, hold the same indices and hear    *)
(* the same result.                                                        *)
LEMMA AllreduceStep ==
  ASSUME RInv, NEW t \in Tasks, Allreduce(t)
  PROVE  RInv'
<1>1. PICK l \in Links :
        /\ \A r \in Ranks(t) : AtPolicy(t, r, l, TRUE)
        /\ \/ Raise(t)
           \/ /\ callback' = [callback EXCEPT ![t] = [r \in Ranks(t) |->
                   Leave(callback[t][r], l, ~AnyServe(t, r))]]
              /\ UNCHANGED vars
  BY DEF Allreduce
<1>2. 1 \in Ranks(t)
  BY RankAssumption DEF Ranks
<1>3. Inside(t) /\ callback[t] \in [Ranks(t) -> Frame]
  BY <1>1, <1>2 DEF AtPolicy, RInv, FramesOK
<1>4. CASE Raise(t)
  BY <1>3, <1>4, RaiseStep
<1>5. CASE ~Raise(t)
  <2>1. ASSUME NEW r \in Ranks(t), NEW s \in Ranks(t)
        PROVE  ~(callback[t][r].at < callback[t][s].at)
    <3> SUFFICES ASSUME callback[t][r].at < callback[t][s].at PROVE FALSE
      OBVIOUS
    <3>1. callback[t][r].at \in Nat /\ callback[t][s].at \in Nat
      BY <1>3 DEF Frame
    <3>2. callback[t][r].at \in callback[t][r].at .. callback[t][s].at - 1
      BY <3>1
    <3>3. Policy[flow_policies[t][callback[t][r].at]] # -1
      BY <1>3, <3>1, <3>2 DEF RInv, Together, Ahead
    <3> QED BY <1>1, <3>3 DEF AtPolicy
  <2>2. ASSUME NEW r \in Ranks(t), NEW s \in Ranks(t)
        PROVE  /\ callback[t][r].at = callback[t][s].at
               /\ callback[t][r].indices = callback[t][s].indices
    <3>1. callback[t][r] \in Frame /\ callback[t][s] \in Frame
      BY <1>3
    <3>2. callback[t][r].at = callback[t][s].at
      BY <2>1, <3>1 DEF Frame
    <3> QED BY <1>3, <3>1, <3>2, AheadSame DEF RInv, Together
  <2> DEFINE rest(r) == IF ~AnyServe(t, r) THEN callback[t][r].indices \ {l}
                        ELSE callback[t][r].indices
             move(r) == [callback[t][r] EXCEPT !.at = @ + 1, !.probed = FALSE,
                                               !.indices = rest(r)]
             n == [r \in Ranks(t) |-> move(r)]
  <2>3. callback' = [callback EXCEPT ![t] = n]
    <3>1. \A r \in Ranks(t) :
            Leave(callback[t][r], l, ~AnyServe(t, r)) = move(r)
      BY Zenon DEF Leave
    <3>2. [r \in Ranks(t) |-> Leave(callback[t][r], l, ~AnyServe(t, r))] = n
      <4> HIDE DEF move
      <4> QED BY <3>1, Zenon
    <3> HIDE DEF n
    <3> QED BY <1>1, <1>5, <3>2
  <2>4. \A r \in Ranks(t) : /\ move(r) \in Frame
                            /\ move(r).at = callback[t][r].at + 1
                            /\ move(r).indices = rest(r)
    <3> SUFFICES ASSUME NEW r \in Ranks(t)
                 PROVE  /\ move(r) \in Frame
                        /\ move(r).at = callback[t][r].at + 1
                        /\ move(r).indices = rest(r)
      BY Zenon
    <3>1. callback[t][r] \in Frame /\ rest(r) \in SUBSET Links
      BY <1>3 DEF Frame
    <3> HIDE DEF rest
    <3> QED BY <3>1, FrameMoves
  <2>5. \A r, s \in Ranks(t) : rest(r) = rest(s)
    BY <2>2 DEF AnyServe
  <2> HIDE DEF rest, move
  <2>6. n \in [Ranks(t) -> Frame]
    BY <2>4
  <2>7. \A r, s \in Ranks(t) : n[r].at = n[s].at /\ n[r].indices = n[s].indices
    BY <2>2, <2>4, <2>5
  <2> HIDE DEF n
  <2>8. callback'[t] = n /\ callback' = [callback EXCEPT ![t] = callback'[t]]
    BY <2>3 DEF RInv, FramesOK
  <2>9. \A r, s \in Ranks(t) : Ahead(t, callback'[t][r], callback'[t][s])
    BY <2>6, <2>7, <2>8, AheadSame
  <2> QED BY <1>1, <1>3, <1>5, <2>6, <2>8, <2>9, RanksStep
<1> QED BY <1>4, <1>5

-----------------------------------------------------------------------------
(* All ranks of a task that have handled the same policies hold the same   *)
(* indices, however many ranks and policies there are and whenever the     *)
(* requests arrive.                                                        *)
THEOREM RanksAgreeCorrect == FCSpec => []RanksAgree
<1>1. FCInit => RInv
  <2> SUFFICES ASSUME FCInit PROVE RInv
    OBVIOUS
  <2>1. TypeOK /\ AtHand
    BY TypeInit DEF FCInit, Init, AtHand
  <2>2. \A t \in Tasks : ~Inside(t)
    BY DEF FCInit, Inside
  <2> QED BY <2>1, <2>2 DEF RInv, FCInit, FramesOK, Together
<1>2. RInv /\ [\E t \in Tasks : FCStep(t)]_fcVars => RInv'
  <2> SUFFICES ASSUME RInv, [\E t \in Tasks : FCStep(t)]_fcVars PROVE RInv'
    OBVIOUS
  <2>1. ASSUME NEW t \in Tasks, FCStep(t) PROVE RInv'
    BY <2>1, ElsewhereStep, BarrierStep, AllreduceStep, ReturnStep, ProbeStep,
       CountStep DEF FCStep
  <2>2. CASE UNCHANGED fcVars
    BY <2>2 DEF fcVars, vars, RInv, TypeOK, AtHand, FramesOK, Together, Inside,
       AtOp, RangeOver, NextOp, FlowControlled, Limited, Out, Ahead, Missed,
       Due
  <2> QED BY <2>1, <2>2
<1>3. RInv => RanksAgree
  <2> SUFFICES ASSUME RInv, NEW t \in Tasks, NEW r \in DOMAIN callback[t],
                      NEW s \in DOMAIN callback[t],
                      callback[t][r].at = callback[t][s].at
               PROVE  callback[t][r].indices = callback[t][s].indices
    BY DEF RanksAgree
  <2>1. CASE ~Inside(t)
    BY <2>1 DEF Inside
  <2>2. CASE Inside(t)
    <3>1. r \in Ranks(t) /\ s \in Ranks(t)
      BY <2>2 DEF RInv, FramesOK
    <3>2. callback[t][r] \in Frame /\ callback[t][s] \in Frame
      BY <2>2, <3>1 DEF RInv, FramesOK
    <3> QED BY <2>2, <3>1, <3>2, AheadSame DEF RInv, Together
  <2> QED BY <2>1, <2>2
<1> QED BY <1>1, <1>2, <1>3, PTL DEF FCSpec
=============================================================================
