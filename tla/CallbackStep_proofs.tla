------------------------- MODULE CallbackStep_proofs -------------------------
(***************************************************************************)
(* FlowControl implements ExecTask: the callback of a task, walked through *)
(* by every rank while the consumers go on, is one step of the task, which *)
(* finds the requests of some set of consumers.  From there, the theorems  *)
(* about flow control hold on the ranks, too.                              *)
(***************************************************************************)
EXTENDS FlowControl_proofs, ExecTaskFlow_proofs

(* A place in the policies of a task.                                      *)
LEMMA PolicyPlaces ==
  ASSUME NEW t \in Tasks
  PROVE  /\ DOMAIN flow_policies[t] = 1 .. Len(flow_policies[t])
         /\ Len(flow_policies[t]) \in Nat
         /\ \A i \in DOMAIN flow_policies[t] :
              flow_policies[t][i] \in Limited(t) /\ flow_policies[t][i] \in Links
         /\ \A l \in Limited(t) :
              \E i \in DOMAIN flow_policies[t] : flow_policies[t][i] = l
<1>1. flow_policies[t] \in Seq(Links)
  BY PolicyAssumption
<1>2. \A i \in DOMAIN flow_policies[t] :
        flow_policies[t][i] \in ToSet(flow_policies[t])
  BY DEF ToSet
<1>3. ToSet(flow_policies[t]) = Limited(t)
  BY PolicyAssumption
<1>4. \A i \in DOMAIN flow_policies[t] : flow_policies[t][i] \in Limited(t)
  BY <1>2, <1>3
<1>5. \A l \in Limited(t) :
        \E i \in DOMAIN flow_policies[t] : flow_policies[t][i] = l
  BY <1>3 DEF ToSet
<1>6. Limited(t) \subseteq Links
  BY DEF Limited, Out
<1> QED BY <1>1, <1>4, <1>5, <1>6

(* Policies are in the order of the positions of their links.              *)
LEMMA PolicyOrder ==
  ASSUME NEW t \in Tasks, NEW i \in DOMAIN flow_policies[t],
         NEW j \in DOMAIN flow_policies[t]
  PROVE  /\ Index[t][flow_policies[t][i]] <= Index[t][flow_policies[t][j]]
              <=> i <= j
         /\ flow_policies[t][i] = flow_policies[t][j] <=> i = j
<1> DEFINE k == flow_policies[t][i]
           l == flow_policies[t][j]
<1>1. i \in Nat /\ j \in Nat
  BY PolicyPlaces
<1>2. k \in Links /\ l \in Links
  BY PolicyPlaces
<1>3. Index[t][k] \in Nat /\ Index[t][l] \in Nat
  BY <1>2, IndexAssumption
<1>4. /\ i < j => Index[t][k] < Index[t][l]
      /\ j < i => Index[t][l] < Index[t][k]
  BY PolicyAssumption
<1> HIDE DEF k, l
<1>5. i < j \/ i = j \/ j < i
  BY <1>1
<1>6. i = j => k = l
  BY DEF k, l
<1>7. (Index[t][k] <= Index[t][l] <=> i <= j) /\ (k = l <=> i = j)
  BY <1>1, <1>3, <1>4, <1>5, <1>6
<1> QED BY <1>7 DEF k, l

-----------------------------------------------------------------------------
(* A consumer that has asked stays where it is while the producer is in    *)
(* its callback.                                                           *)
LEMMA AskingFrame ==
  ASSUME NEW k \in Links,
         pc'[Con[k]] = pc[Con[k]], pos'[Con[k]] = pos[Con[k]],
         at'[Con[k]] = at[Con[k]], wlk'[Con[k]] = wlk[Con[k]],
         idx'[Con[k]] = idx[Con[k]], cur'[Con[k]] = cur[Con[k]]
  PROVE  Asking(k)' = Asking(k)
BY DEF Asking, AtOp, RangeOver, NextOp

(* A step of a task leaves the positions of others in their lists alone.   *)
LEMMA PlaceFrame ==
  ASSUME TypeOK, NEW t \in Tasks, Step(t), NEW u \in Tasks, u # t
  PROVE  idx'[u] = idx[u] /\ cur'[u] = cur[u]
<1> USE DEF TypeOK
<1>1. CASE OpenFile(t) \/ OpenNamedFile(t) \/ CloseReadFile(t)
  BY <1>1 DEF OpenFile, OpenNamedFile, CloseReadFile
<1>2. CASE scf_cb(t)
  BY <1>2 DEF scf_cb, FetchName, FetchNameRaises
<1>3. CASE CloseWrittenFile(t) \/ EndServe(t)
  BY <1>3 DEF CloseWrittenFile, EndServe
<1>4. CASE EndFirstRun(t) \/ EndLaterRun(t) \/ EndProducerDone(t)
  BY <1>4 DEF EndFirstRun, EndLaterRun, EndProducerDone
<1>5. CASE NextFile(t) \/ NoMoreFiles(t)
  BY <1>5 DEF NextFile, NoMoreFiles
<1>6. CASE RestartFor(t) \/ LeaveLoop(t)
  BY <1>6 DEF RestartFor, LeaveLoop
<1> QED BY <1>1, <1>2, <1>3, <1>4, <1>5, <1>6 DEF Step

(* A consumer that has asked a task that does not serve takes no step.     *)
LEMMA AskingStuck ==
  ASSUME TypeOK, NEW k \in Links, Asking(k), pc[Prod[k]] = "run"
  PROVE  ~Step(Con[k])
<1> DEFINE t == Con[k]
<1>1. ~FileOn(k) /\ ~EofOn(k)
  BY DEF FileOn, EofOn
<1>2. /\ pc[t] = "run" => ~RangeOver(t) /\ NextOp(t).op \in {"read", "readNext"}
      /\ AtOp(t, "read") => NextOp(t).link = k
      /\ AtOp(t, "readNext") => idx[t] \in DOMAIN wlk[t] /\ wlk[t][idx[t]] = k
      /\ pc[t] = "named" => at[t] = k
      /\ pc[t] = "loop" => cur[t] \in DOMAIN wlk[t] /\ wlk[t][cur[t]] = k
      /\ pc[t] \in {"run", "named", "loop"}
  BY DEF Asking, AtOp
<1>3. pc[t] = "loop" => wlk[t] # <<>> /\ ~(cur[t] > Len(wlk[t]))
  <2>1. t \in Tasks
    BY LinkAssumption
  <2>2. wlk[t] \in Seq(Links)
    BY <2>1 DEF TypeOK
  <2>3. DOMAIN wlk[t] = 1 .. Len(wlk[t]) /\ Len(wlk[t]) \in Nat
    BY <2>2
  <2> QED BY <1>2, <2>3
<1> HIDE DEF t
<1>4. ~OpenFile(t) /\ ~scf_cb(t) /\ ~OpenNamedFile(t)
  BY <1>1, <1>2 DEF OpenFile, scf_cb, FetchName, FetchNameRaises,
     OpenNamedFile, AtOp
<1>5. ~CloseReadFile(t) /\ ~CloseWrittenFile(t) /\ ~EndServe(t)
  BY <1>2 DEF CloseReadFile, CloseWrittenFile, EndServe, AtOp
<1>6. ~EndFirstRun(t) /\ ~EndLaterRun(t) /\ ~EndProducerDone(t)
  BY <1>2 DEF EndFirstRun, EndLaterRun, EndProducerDone
<1>7. ~NextFile(t) /\ ~NoMoreFiles(t) /\ ~RestartFor(t) /\ ~LeaveLoop(t)
  BY <1>1, <1>2, <1>3 DEF NextFile, NoMoreFiles, RestartFor, LeaveLoop
<1> QED BY <1>4, <1>5, <1>6, <1>7 DEF Step, t

(* So a request that has been found is still there when the task leaves    *)
(* its callback, whatever happens meanwhile.                               *)
LEMMA AskingStays ==
  ASSUME RInv, NEW k \in Links, Asking(k), Inside(Prod[k]),
         NEW u \in Tasks, FCStep(u)
  PROVE  Asking(k)'
<1> USE DEF RInv
<1>1. Prod[k] \in Tasks /\ Con[k] \in Tasks /\ pc[Prod[k]] = "run"
  BY LinkAssumption DEF FramesOK, AtOp
<1>2. CASE Elsewhere(u)
  <2>1. Step(u) /\ u # Con[k]
    BY <1>1, <1>2, AskingStuck DEF Elsewhere
  <2> QED BY <1>1, <2>1, AskingFrame, StepFrame, LoopFrame, PlaceFrame
<1>3. CASE ~Elsewhere(u)
  <2>1. AtOp(u, "write")
    <3>1. 1 \in Ranks(u)
      BY RankAssumption DEF Ranks
    <3>2. Allreduce(u) => Inside(u)
      BY <3>1 DEF Allreduce, AtPolicy
    <3>3. Inside(u) \/ Barrier(u)
      BY <1>3, <3>2 DEF FCStep, Return, Probe, Count, AtPolicy
    <3> QED BY <3>3 DEF FramesOK, Barrier
  <2>2. u # Con[k]
    BY <2>1 DEF Asking, AtOp
  <2>3. \A v \in Tasks \ {u} : pc'[v] = pc[v]
    BY <1>3 DEF FCStep, Allreduce, Return, Probe, Count, Barrier, Raise,
       StartServe, vars, TypeOK
  <2>4. UNCHANGED <<pos, at, wlk, idx, cur>>
    BY <1>3 DEF FCStep, Allreduce, Return, Probe, Count, Barrier, Raise, vars
  <2> QED BY <1>1, <2>2, <2>3, <2>4, AskingFrame
<1> QED BY <1>2, <1>3


-----------------------------------------------------------------------------
(* The links of the policies before place a that the callback drops at the *)
(* end of file n if it finds the requests on the links ready.              *)
Dropped(t, n, ready, a) ==
  {flow_policies[t][i] : i \in {j \in 1 .. a - 1 :
     flow_policies[t][j] \in Skipped(t, n, ready)}}

(* A rank has dropped these, and could.                                    *)
RankDecides(t, n, ready, f) ==
  /\ f.at <= Len(flow_policies[t]) + 1
  /\ Dropped(t, n, ready, f.at) \subseteq Indexed(t)
  /\ f.indices = Indexed(t) \ Dropped(t, n, ready, f.at)

(* So have all; some rank has found the requests that are ready, if any.   *)
Decides(t, n, ready, frames) ==
  /\ ready # {} <=> \E r \in Ranks(t) : frames[r].serve
  /\ \A k \in ready :
       /\ Policy[k] = -1
       /\ \E i \in DOMAIN flow_policies[t], r \in Ranks(t) :
            flow_policies[t][i] = k /\ i <= frames[r].at
  /\ \A r \in Ranks(t) : RankDecides(t, n, ready, frames[r])

(* What the ranks of a task do is explained by some requests, of consumers *)
(* that are still waiting.                                                 *)
Explained(t) ==
  Inside(t) =>
    \E ready \in SUBSET {l \in Limited(t) : Asking(l)} :
      Decides(t, serve_counter[t], ready, callback[t])

(* The inductive invariant.                                                *)
DInv == RInv /\ \A t \in Tasks : Explained(t)

(* When the callback drops a link with an interval.                        *)
LEMMA SkippedCounted ==
  ASSUME NEW t \in Tasks, NEW l \in Limited(t), NEW ready, Policy[l] # -1
  PROVE  l \in Skipped(t, serve_counter[t], ready) <=> ~Due(t, l)
BY DEF Skipped, Due

(* When it drops a link with the policy "latest".                          *)
LEMMA SkippedLatest ==
  ASSUME NEW t \in Tasks, NEW n, NEW ready, NEW i \in DOMAIN flow_policies[t],
         Policy[flow_policies[t][i]] = -1
  PROVE  flow_policies[t][i] \in Skipped(t, n, ready) <=>
           \A j \in DOMAIN flow_policies[t] :
             Policy[flow_policies[t][j]] = -1 /\ j <= i
               => flow_policies[t][j] \notin ready
<1> DEFINE l == flow_policies[t][i]
<1>1. l \in Limited(t)
  BY PolicyPlaces
<1>2. l \in Skipped(t, n, ready) <=>
        \A k \in Limited(t) :
          Policy[k] = -1 /\ Index[t][k] <= Index[t][l] => k \notin ready
  BY <1>1 DEF Skipped
<1>3. ASSUME l \in Skipped(t, n, ready), NEW j \in DOMAIN flow_policies[t],
             Policy[flow_policies[t][j]] = -1, j <= i
      PROVE  flow_policies[t][j] \notin ready
  BY <1>2, <1>3, PolicyPlaces, PolicyOrder
<1>4. ASSUME \A j \in DOMAIN flow_policies[t] :
               Policy[flow_policies[t][j]] = -1 /\ j <= i
                 => flow_policies[t][j] \notin ready,
             NEW k \in Limited(t), Policy[k] = -1, Index[t][k] <= Index[t][l]
      PROVE  k \notin ready
  <2>1. PICK j \in DOMAIN flow_policies[t] : flow_policies[t][j] = k
    BY PolicyPlaces
  <2>2. j <= i
    BY <1>4, <2>1, PolicyOrder
  <2> QED BY <1>4, <2>1, <2>2
<1> QED BY <1>2, <1>3, <1>4

(* What is dropped up to the next place.                                   *)
LEMMA DroppedNext ==
  ASSUME NEW t \in Tasks, NEW n, NEW ready, NEW a \in DOMAIN flow_policies[t]
  PROVE  LET l == flow_policies[t][a] IN
         /\ l \notin Dropped(t, n, ready, a)
         /\ Dropped(t, n, ready, a + 1) =
              Dropped(t, n, ready, a) \cup
                (IF l \in Skipped(t, n, ready) THEN {l} ELSE {})
<1>1. a \in Nat /\ 1 <= a /\ a <= Len(flow_policies[t])
      /\ Len(flow_policies[t]) \in Nat
      /\ \A j \in 1 .. a - 1 : j \in DOMAIN flow_policies[t] /\ j # a
  BY PolicyPlaces
<1>2. 1 .. (a + 1) - 1 = (1 .. a - 1) \cup {a}
  BY <1>1
<1>3. flow_policies[t][a] \notin Dropped(t, n, ready, a)
  BY <1>1, PolicyOrder DEF Dropped
<1> QED BY <1>2, <1>3 DEF Dropped

(* A rank passes a policy.                                                 *)
LEMMA LeaveFrame ==
  ASSUME NEW f \in Frame, NEW l \in Links, NEW remove \in BOOLEAN
  PROVE  LET m == Leave(f, l, remove) IN
         /\ m \in Frame /\ m.at = f.at + 1 /\ m.serve = f.serve
         /\ m.indices = IF remove THEN f.indices \ {l} ELSE f.indices
<1> DEFINE rest == IF remove THEN f.indices \ {l} ELSE f.indices
           m == [f EXCEPT !.at = @ + 1, !.probed = FALSE, !.indices = rest]
<1>1. Leave(f, l, remove) = m
  BY Zenon DEF Leave
<1>2. f.at + 1 \in Nat \ {0} /\ rest \in SUBSET Links
  BY DEF Frame
<1> HIDE DEF rest
<1>3. m \in Frame /\ m.at = f.at + 1 /\ m.serve = f.serve /\ m.indices = rest
  BY <1>2 DEF Frame
<1> HIDE DEF m
<1> QED BY <1>1, <1>3 DEF rest

(* It drops the link of the policy exactly if the requests say so.         *)
LEMMA RankMoves ==
  ASSUME NEW t \in Tasks, NEW n, NEW ready, NEW f \in Frame,
         f.at \in DOMAIN flow_policies[t], RankDecides(t, n, ready, f),
         NEW l \in Links, l = flow_policies[t][f.at], NEW remove \in BOOLEAN,
         remove <=> l \in Skipped(t, n, ready),
         remove => l \in f.indices
  PROVE  RankDecides(t, n, ready, Leave(f, l, remove))
<1> DEFINE m == Leave(f, l, remove)
           fp == flow_policies[t]
<1>1. /\ m.at = f.at + 1
      /\ m.indices = IF remove THEN f.indices \ {l} ELSE f.indices
  BY LeaveFrame
<1>2. f.at \in Nat /\ f.at <= Len(fp) /\ Len(fp) \in Nat
  BY PolicyPlaces
<1>3. Dropped(t, n, ready, m.at) =
        Dropped(t, n, ready, f.at) \cup (IF remove THEN {l} ELSE {})
  BY <1>1, DroppedNext
<1> HIDE DEF m
<1>4. m.at <= Len(fp) + 1
  BY <1>1, <1>2
<1>5. remove => l \in Indexed(t)
  BY DEF RankDecides
<1>6. Dropped(t, n, ready, m.at) \subseteq Indexed(t)
  BY <1>3, <1>5 DEF RankDecides
<1>7. m.indices = Indexed(t) \ Dropped(t, n, ready, m.at)
  BY <1>1, <1>3 DEF RankDecides
<1> QED BY <1>4, <1>6, <1>7 DEF RankDecides, m

(* A step that concerns the callback of one task.                          *)
LEMMA ExplainedFrame ==
  ASSUME DInv, NEW t \in Tasks, FCStep(t),
         \A u \in Tasks \ {t} : /\ callback'[u] = callback[u]
                                /\ serve_counter'[u] = serve_counter[u],
         Explained(t)'
  PROVE  \A u \in Tasks : Explained(u)'
<1> SUFFICES ASSUME NEW u \in Tasks, u # t, Inside(u) PROVE Explained(u)'
  BY DEF Explained, Inside
<1>1. PICK ready \in SUBSET {l \in Limited(u) : Asking(l)} :
        Decides(u, serve_counter[u], ready, callback[u])
  BY DEF DInv, Explained
<1>2. \A l \in ready : Asking(l)'
  <2> SUFFICES ASSUME NEW l \in ready PROVE Asking(l)'
    OBVIOUS
  <2>1. l \in Links /\ Prod[l] = u /\ Asking(l)
    BY DEF Limited, Out
  <2> QED BY <2>1, AskingStays DEF DInv
<1>3. ready \in SUBSET {l \in Limited(u) : Asking(l)'}
  BY <1>2
<1>4. Decides(u, serve_counter'[u], ready, callback'[u])
  BY <1>1
<1> QED BY <1>3, <1>4 DEF Explained, Limited, Out

(* A rank probes: the first request found is the one that counts, as no    *)
(* other rank has passed this policy.                                      *)
LEMMA ProbeExplained ==
  ASSUME DInv, NEW t \in Tasks, NEW r \in Ranks(t), Probe(t, r)
  PROVE  Explained(t)'
<1> DEFINE fp == flow_policies[t]
           f == callback[t]
           n == serve_counter[t]
<1>1. PICK l \in Links, found \in BOOLEAN :
        /\ found \in Found(l)
        /\ AtPolicy(t, r, l, TRUE)
        /\ callback' = [callback EXCEPT ![t][r].probed = TRUE,
                                        ![t][r].serve = @ \/ found]
  BY FoundType DEF Probe
<1>2. found => Asking(l)
  BY <1>1 DEF Found
<1>3. Inside(t) /\ f \in [Ranks(t) -> Frame] /\ callback = [u \in Tasks |-> callback[u]]
  BY <1>1 DEF AtPolicy, DInv, RInv, FramesOK
<1>4. UNCHANGED vars
  BY DEF Probe
<1>5. PICK ready \in SUBSET {k \in Limited(t) : Asking(k)} : Decides(t, n, ready, f)
  BY <1>3 DEF DInv, Explained
<1> DEFINE m == [f[r] EXCEPT !.probed = TRUE, !.serve = @ \/ found]
<1>6. callback'[t] = [f EXCEPT ![r] = m]
  BY <1>1, <1>3
<1>7. m.at = f[r].at /\ m.indices = f[r].indices /\ m.serve = (f[r].serve \/ found)
  <2>1. f[r] \in Frame
    BY <1>3
  <2> QED BY <2>1 DEF Frame
<1> DEFINE g == callback'[t]
<1> HIDE DEF m
<1>8. \A s \in Ranks(t) :
        /\ g[s].at = f[s].at /\ g[s].indices = f[s].indices
        /\ g[s].serve = (f[s].serve \/ (s = r /\ found))
  BY <1>3, <1>6, <1>7, <1>2 DEF Frame
<1> HIDE DEF g
<1>9. \A k \in Links : Asking(k)' = Asking(k)
  BY <1>4, AskingFrame DEF vars
<1>10. ASSUME NEW good \in SUBSET {k \in Limited(t) : Asking(k)},
              Decides(t, n, good, g)
       PROVE  Explained(t)'
  <2>1. good \in SUBSET {k \in Limited(t) : Asking(k)'}
    BY <1>9 DEF Limited, Out
  <2>2. serve_counter'[t] = n
    BY <1>4 DEF vars
  <2> QED BY <1>10, <2>1, <2>2 DEF Explained, Limited, Out, g
<1>11. CASE ~found \/ ready # {}
  <2>1. ready # {} <=> \E s \in Ranks(t) : g[s].serve
    BY <1>2, <1>5, <1>8, <1>11 DEF Decides
  <2>2. Decides(t, n, ready, g)
    BY <1>5, <1>8, <2>1 DEF Decides, RankDecides
  <2> QED BY <1>10, <2>2
<1>12. CASE found /\ ready = {}
  <2>1. l \in Limited(t) /\ Policy[l] = -1 /\ f[r].at \in DOMAIN fp /\ fp[f[r].at] = l
    BY <1>1, PolicyPlaces DEF AtPolicy
  <2>2. ASSUME NEW s \in Ranks(t), NEW i \in 1 .. f[s].at - 1
        PROVE  fp[i] \in Skipped(t, n, {}) <=> fp[i] \in Skipped(t, n, {l})
    <3>1. f[s].at \in Nat /\ f[r].at \in Nat /\ f[s].at <= Len(fp) + 1
      BY <1>3, <1>5 DEF Decides, RankDecides, Frame
    <3>2. i \in DOMAIN fp /\ i \in Nat
      BY <3>1, PolicyPlaces
    <3>3. CASE Policy[fp[i]] # -1
      BY <3>3 DEF Skipped
    <3>4. CASE Policy[fp[i]] = -1
      <4>1. ~(f[r].at <= i)
        <5> SUFFICES ASSUME f[r].at <= i PROVE FALSE
          OBVIOUS
        <5>1. f[r].at <= f[s].at /\ f[r].at \in f[r].at .. f[s].at - 1
          BY <3>1, <3>2
        <5>2. Ahead(t, f[r], f[s])
          BY <1>3 DEF DInv, RInv, Together
        <5> QED BY <2>1, <5>1, <5>2 DEF Ahead
      <4>2. \A j \in DOMAIN fp : j <= i => fp[j] # l
        BY <2>1, <3>1, <3>2, <4>1, PolicyOrder
      <4> QED BY <3>2, <3>4, <4>2, SkippedLatest
    <3> QED BY <3>3, <3>4
  <2>3. ASSUME NEW s \in Ranks(t)
        PROVE  Dropped(t, n, {l}, f[s].at) = Dropped(t, n, {}, f[s].at)
    BY <2>2 DEF Dropped
  <2>4. \A s \in Ranks(t) : RankDecides(t, n, {l}, g[s])
    <3> SUFFICES ASSUME NEW s \in Ranks(t) PROVE RankDecides(t, n, {l}, g[s])
      OBVIOUS
    <3>1. RankDecides(t, n, {}, f[s])
      BY <1>5, <1>12 DEF Decides
    <3>2. g[s].at = f[s].at /\ g[s].indices = f[s].indices
      BY <1>8
    <3> HIDE DEF f, n
    <3> QED BY <2>3, <3>1, <3>2 DEF RankDecides
  <2>5. g[r].serve /\ f[r].at <= g[r].at
    <3>1. f[r].at \in Nat
      BY <1>3 DEF Frame
    <3>2. g[r].at = f[r].at /\ g[r].serve
      BY <1>8, <1>12
    <3> HIDE DEF f
    <3> QED BY <3>1, <3>2
  <2>6. Decides(t, n, {l}, g)
    BY <2>1, <2>4, <2>5 DEF Decides
  <2> QED BY <1>2, <1>10, <1>12, <2>1, <2>6
<1> QED BY <1>11, <1>12, <1>2

(* All ranks are before the first policy.                                  *)
LEMMA BarrierExplained ==
  ASSUME DInv, NEW t \in Tasks, Barrier(t)
  PROVE  Explained(t)'
<1> DEFINE start == [at |-> 1, probed |-> FALSE, indices |-> Indexed(t),
                     serve |-> FALSE]
           n == serve_counter'[t]
<1>1. callback'[t] = [r \in Ranks(t) |-> start]
  BY DEF DInv, RInv, FramesOK, Barrier
<1>2. start.at = 1 /\ start.indices = Indexed(t) /\ ~start.serve
  OBVIOUS
<1> HIDE DEF start
<1>3. 1 .. 1 - 1 = {} /\ 1 <= Len(flow_policies[t]) + 1
  BY PolicyPlaces
<1>4. Dropped(t, n, {}, 1) = {}
  BY <1>3 DEF Dropped
<1>5. RankDecides(t, n, {}, start)
  BY <1>2, <1>3, <1>4 DEF RankDecides
<1> HIDE DEF n
<1>6. Decides(t, n, {}, callback'[t])
  BY <1>1, <1>2, <1>5 DEF Decides
<1>7. {} \in SUBSET {l \in Limited(t) : Asking(l)'}
  OBVIOUS
<1> QED BY <1>6, <1>7 DEF Explained, n, Limited, Out

(* Ranks that pass a policy as the requests say.                           *)
LEMMA MovesExplained ==
  ASSUME DInv, NEW t \in Tasks, Inside(t), UNCHANGED vars,
         NEW ready \in SUBSET {k \in Limited(t) : Asking(k)},
         Decides(t, serve_counter[t], ready, callback[t]),
         \A r \in Ranks(t) :
           /\ RankDecides(t, serve_counter[t], ready, callback'[t][r])
           /\ callback'[t][r].serve = callback[t][r].serve
           /\ callback'[t][r].at \in Nat
           /\ callback'[t][r].at >= callback[t][r].at
  PROVE  Explained(t)'
<1> DEFINE n == serve_counter[t]
           f == callback[t]
           g == callback'[t]
<1>1. \A k \in Links : Asking(k)' = Asking(k)
  BY AskingFrame DEF vars
<1>2. ready \in SUBSET {k \in Limited(t) : Asking(k)'}
  BY <1>1 DEF Limited, Out
<1>3. \A r \in Ranks(t) : /\ f[r].at \in Nat /\ g[r].at \in Nat
                           /\ g[r].at >= f[r].at
  BY DEF DInv, RInv, FramesOK, Frame
<1>4. DOMAIN flow_policies[t] \subseteq Nat
  BY PolicyPlaces
<1>5. \A r \in Ranks(t) : g[r].at <= Len(flow_policies[t]) + 1
  BY DEF RankDecides
<1> HIDE DEF g, f
<1>6. ASSUME NEW r \in Ranks(t), NEW i \in DOMAIN flow_policies[t],
             i <= f[r].at
      PROVE  i <= g[r].at
  BY <1>3, <1>4, <1>6
<1>7. Decides(t, n, ready, g)
  BY <1>6 DEF Decides, f, g
<1>8. serve_counter'[t] = n
  BY DEF vars
<1> QED BY <1>2, <1>7, <1>8 DEF Explained, Limited, Out, g

(* A rank passes a policy with an interval.                                *)
LEMMA CountExplained ==
  ASSUME DInv, NEW t \in Tasks, NEW r \in Ranks(t), Count(t, r)
  PROVE  Explained(t)'
<1> DEFINE n == serve_counter[t]
           f == callback[t]
<1>1. PICK l \in Links :
        /\ AtPolicy(t, r, l, FALSE)
        /\ \/ Raise(t)
           \/ /\ ~Due(t, l) => l \in f[r].indices
              /\ callback' = [callback EXCEPT ![t][r] =
                                 Leave(@, l, ~Due(t, l))]
              /\ UNCHANGED vars
  BY DEF Count
<1>2. /\ Inside(t) /\ f \in [Ranks(t) -> Frame]
      /\ callback = [u \in Tasks |-> callback[u]]
  BY <1>1 DEF AtPolicy, DInv, RInv, FramesOK
<1>3. CASE Raise(t)
  BY <1>2, <1>3 DEF Raise, Explained, Inside
<1>4. CASE ~Raise(t)
  <2>1. PICK ready \in SUBSET {k \in Limited(t) : Asking(k)} :
          Decides(t, n, ready, f)
    BY <1>2 DEF DInv, Explained
  <2>2. /\ f[r].at \in DOMAIN flow_policies[t]
        /\ l = flow_policies[t][f[r].at]
        /\ l \in Limited(t) /\ Policy[l] # -1
    BY <1>1, PolicyPlaces DEF AtPolicy
  <2> DEFINE m == Leave(f[r], l, ~Due(t, l))
  <2>3. callback' = [callback EXCEPT ![t] = [f EXCEPT ![r] = m]]
    BY <1>1, <1>4
  <2>4. /\ f[r] \in Frame /\ RankDecides(t, n, ready, f[r])
        /\ (~Due(t, l)) \in BOOLEAN
    BY <1>2, <2>1 DEF Decides
  <2>5. m \in Frame /\ m.at = f[r].at + 1 /\ m.serve = f[r].serve
    BY <2>4, LeaveFrame
  <2>6. RankDecides(t, n, ready, m)
    BY <1>1, <1>4, <2>2, <2>4, SkippedCounted, RankMoves
  <2> HIDE DEF m
  <2>7. callback'[t] = [f EXCEPT ![r] = m]
    BY <1>2, <2>3
  <2> HIDE DEF f
  <2>8. ASSUME NEW s \in Ranks(t)
        PROVE  /\ RankDecides(t, n, ready, callback'[t][s])
               /\ callback'[t][s].serve = f[s].serve
               /\ callback'[t][s].at \in Nat
               /\ callback'[t][s].at >= f[s].at
    <3>1. f[s] \in Frame /\ f[s].at \in Nat /\ RankDecides(t, n, ready, f[s])
      BY <1>2, <2>1 DEF Decides, Frame
    <3>2. callback'[t][s] = IF s = r THEN m ELSE f[s]
      BY <1>2, <2>7
    <3> QED BY <2>5, <2>6, <3>1, <3>2
  <2> QED BY <1>1, <1>2, <1>4, <2>1, <2>8, MovesExplained DEF f
<1> QED BY <1>3, <1>4

(* All ranks pass a policy "latest": its link stays if and only if some    *)
(* rank has found a request, for this policy or for one before it.         *)
LEMMA AllreduceExplained ==
  ASSUME DInv, NEW t \in Tasks, Allreduce(t)
  PROVE  Explained(t)'
<1> DEFINE n == serve_counter[t]
           f == callback[t]
<1>1. PICK l \in Links :
        /\ \A r \in Ranks(t) : AtPolicy(t, r, l, TRUE)
        /\ \/ Raise(t)
           \/ /\ \A r \in Ranks(t) : AnyServe(t, r) \/ l \in f[r].indices
              /\ callback' = [callback EXCEPT ![t] = [r \in Ranks(t) |->
                   Leave(f[r], l, ~AnyServe(t, r))]]
              /\ UNCHANGED vars
  BY DEF Allreduce
<1>2. 1 \in Ranks(t)
  BY RankAssumption DEF Ranks
<1>3. /\ Inside(t) /\ f \in [Ranks(t) -> Frame]
      /\ callback = [u \in Tasks |-> callback[u]]
  BY <1>1, <1>2 DEF AtPolicy, DInv, RInv, FramesOK
<1>4. CASE Raise(t)
  BY <1>3, <1>4 DEF Raise, Explained, Inside
<1>5. CASE ~Raise(t)
  <2>1. PICK ready \in SUBSET {k \in Limited(t) : Asking(k)} :
          Decides(t, n, ready, f)
    BY <1>3 DEF DInv, Explained
  <2>2. \A r \in Ranks(t) : AnyServe(t, r) <=> ready # {}
    BY <2>1 DEF AnyServe, Decides
  <2>3. ASSUME NEW r \in Ranks(t)
        PROVE  /\ f[r].at \in DOMAIN flow_policies[t]
               /\ l = flow_policies[t][f[r].at] /\ Policy[l] = -1
    BY <1>1 DEF AtPolicy
  <2>4. ASSUME NEW r \in Ranks(t)
        PROVE  ready = {} <=> l \in Skipped(t, n, ready)
    <3>1. CASE ready = {}
      BY <2>3, <3>1, SkippedLatest
    <3>2. CASE ready # {}
      <4>1. PICK k \in ready, i \in DOMAIN flow_policies[t], s \in Ranks(t) :
              /\ Policy[k] = -1
              /\ flow_policies[t][i] = k /\ i <= f[s].at
        BY <2>1, <3>2 DEF Decides
      <4>2. l \notin Skipped(t, n, ready)
        BY <2>3, <4>1, SkippedLatest
      <4> QED BY <3>2, <4>2
    <3> QED BY <3>1, <3>2
  <2>5. ASSUME NEW r \in Ranks(t)
        PROVE  LET m == Leave(f[r], l, ~AnyServe(t, r)) IN
               /\ RankDecides(t, n, ready, m)
               /\ m.serve = f[r].serve
               /\ m.at \in Nat
               /\ m.at >= f[r].at
    <3>1. /\ f[r] \in Frame /\ f[r].at \in Nat
          /\ RankDecides(t, n, ready, f[r])
      BY <1>3, <2>1 DEF Decides, Frame
    <3> DEFINE m == Leave(f[r], l, ~AnyServe(t, r))
    <3>2. (~AnyServe(t, r)) \in BOOLEAN
      OBVIOUS
    <3>3. m.at = f[r].at + 1 /\ m.serve = f[r].serve
      BY <3>1, <3>2, LeaveFrame
    <3>4. ~AnyServe(t, r) <=> l \in Skipped(t, n, ready)
      BY <2>2, <2>4
    <3>5. RankDecides(t, n, ready, m)
      BY <1>1, <1>5, <2>3, <3>1, <3>2, <3>4, RankMoves
    <3> HIDE DEF m, f
    <3>6. m.at \in Nat /\ m.at >= f[r].at
      BY <3>1, <3>3
    <3> QED BY <3>3, <3>5, <3>6 DEF m
  <2>6. callback'[t] = [r \in Ranks(t) |-> Leave(f[r], l, ~AnyServe(t, r))]
    BY <1>1, <1>3, <1>5
  <2>7. ASSUME NEW r \in Ranks(t)
        PROVE  /\ RankDecides(t, n, ready, callback'[t][r])
               /\ callback'[t][r].serve = f[r].serve
               /\ callback'[t][r].at \in Nat
               /\ callback'[t][r].at >= f[r].at
    BY <2>5, <2>6, Zenon
  <2> QED BY <1>1, <1>3, <1>5, <2>1, <2>7, MovesExplained
<1> QED BY <1>4, <1>5

(* What a step of a task leaves alone in the callbacks of others.          *)
LEMMA CallbackFrame ==
  ASSUME RInv, NEW t \in Tasks, FCStep(t), NEW u \in Tasks, u # t
  PROVE  callback'[u] = callback[u] /\ serve_counter'[u] = serve_counter[u]
<1> USE DEF RInv, FramesOK, TypeOK
<1>1. CASE Elsewhere(t)
  BY <1>1, LoopFrame DEF Elsewhere
<1>2. CASE Barrier(t)
  BY <1>2 DEF Barrier
<1>3. CASE Allreduce(t)
  BY <1>3 DEF Allreduce, Raise, vars
<1>4. CASE Return(t)
  BY <1>4 DEF Return
<1>5. CASE \E r \in Ranks(t) : Probe(t, r)
  BY <1>5 DEF Probe, vars
<1>6. CASE \E r \in Ranks(t) : Count(t, r)
  BY <1>6 DEF Count, Raise, vars
<1> QED BY <1>1, <1>2, <1>3, <1>4, <1>5, <1>6 DEF FCStep

(* Every step keeps RInv (RanksAgreeCorrect) and is explained.             *)
LEMMA DInvStep ==
  ASSUME DInv, NEW t \in Tasks, FCStep(t)
  PROVE  DInv'
<1>1. RInv'
  BY ElsewhereStep, BarrierStep, AllreduceStep, ReturnStep, ProbeStep,
     CountStep DEF FCStep, DInv
<1>2. Explained(t)'
  <2>1. CASE Elsewhere(t)
    <3>1. ~Inside(t) /\ callback' = callback
      BY <2>1 DEF Elsewhere, DInv, RInv, FramesOK
    <3> QED BY <3>1 DEF Explained, Inside
  <2>2. CASE Return(t)
    BY <2>2 DEF Return, DInv, RInv, FramesOK, Explained, Inside
  <2> QED
    BY <2>1, <2>2, BarrierExplained, ProbeExplained, CountExplained,
       AllreduceExplained DEF FCStep
<1> QED BY <1>1, <1>2, CallbackFrame, ExplainedFrame DEF DInv


-----------------------------------------------------------------------------
(* The actions of ExecTask, seen with the files closed in place of the     *)
(* counter.  What they are built from does not depend on the counter.      *)
LEMMA TaskOps ==
  ASSUME NEW t, NEW op
  PROVE  /\ Task!RangeOver(t) = RangeOver(t) /\ Task!NextOp(t) = NextOp(t)
         /\ Task!AtOp(t, op) = AtOp(t, op)
         /\ Task!Out(t) = Out(t) /\ Task!In(t) = In(t)
         /\ Task!Limited(t) = Limited(t)
         /\ Task!FlowControlled(t) = FlowControlled(t)
         /\ Task!Producer(t) = Producer(t) /\ Task!ProdFirst(t) = ProdFirst(t)
         /\ Task!NextIdx(t) = NextIdx(t)
         /\ Task!StartProducerDone(t) = StartProducerDone(t)
<1>1. /\ Task!RangeOver(t) = RangeOver(t) /\ Task!NextOp(t) = NextOp(t)
      /\ Task!Out(t) = Out(t) /\ Task!In(t) = In(t)
  BY DEF Task!RangeOver, RangeOver, Task!NextOp, NextOp, Task!Out, Out,
     Task!In, In
<1>2. Task!AtOp(t, op) = AtOp(t, op)
  BY <1>1 DEF Task!AtOp, AtOp
<1>3. Task!Limited(t) = Limited(t)
  BY <1>1 DEF Task!Limited, Limited
<1>4. Task!FlowControlled(t) = FlowControlled(t)
  BY <1>3 DEF Task!FlowControlled, FlowControlled
<1>5. Task!Producer(t) = Producer(t) /\ Task!ProdFirst(t) = ProdFirst(t)
  BY <1>1 DEF Task!Producer, Producer, Task!ProdFirst, ProdFirst
<1>6. Task!NextIdx(t) = NextIdx(t)
  BY DEF Task!NextIdx, NextIdx
<1>7. Task!StartProducerDone(t) = StartProducerDone(t)
  BY <1>1 DEF Task!StartProducerDone, StartProducerDone
<1> QED BY <1>1, <1>2, <1>3, <1>4, <1>5, <1>6, <1>7

LEMMA TaskLinks ==
  ASSUME NEW l
  PROVE  /\ Task!FileOn(l) = FileOn(l) /\ Task!EofOn(l) = EofOn(l)
         /\ Task!Slept(l) = Slept(l) /\ Task!Asking(l) = Asking(l)
<1>1. Task!Answering(l) = Answering(l)
  BY DEF Task!Answering, Answering
<1>2. Task!FileOn(l) = FileOn(l) /\ Task!EofOn(l) = EofOn(l)
  BY <1>1 DEF Task!FileOn, FileOn, Task!EofOn, EofOn
<1>3. Task!Slept(l) = Slept(l)
  BY DEF Task!Slept, Slept
<1>4. Task!Asking(l) = Asking(l)
  BY TaskOps DEF Task!Asking, Asking
<1> QED BY <1>2, <1>3, <1>4

(* The flow control does not, either: it is given the number of the file.  *)
LEMMA TaskServes ==
  ASSUME NEW t, NEW n, NEW ready, NEW ls
  PROVE  /\ Task!Served(t, n, ready) = Served(t, n, ready)
         /\ Task!CallbackRaises(t, n, ready) = CallbackRaises(t, n, ready)
         /\ Task!AllDone(t, ls) = AllDone(t, ls)
<1>1. Task!Skipped(t, n, ready) = Skipped(t, n, ready)
  BY TaskOps DEF Task!Skipped, Skipped
<1>2. Task!Indexed(t) = Indexed(t)
  BY TaskOps DEF Task!Indexed, Indexed
<1>3. Task!AllDone(t, ls) = AllDone(t, ls)
  BY TaskOps DEF Task!AllDone, AllDone
<1> QED
  BY <1>1, <1>2, <1>3, TaskOps
  DEF Task!Served, Served, Task!CallbackRaises, CallbackRaises


(* Files count as closed when the callback has returned.                   *)
LEMMA ClosedIs ==
  ASSUME RInv, NEW t \in Tasks
  PROVE  /\ ~Inside(t) => Closed[t] = serve_counter[t]
         /\ Inside(t) => Closed[t] = serve_counter[t] - 1
         /\ pc[t] # "run" => Closed[t] = serve_counter[t]
BY DEF Closed, RInv, FramesOK, AtOp

LEMMA ClosedSame ==
  ASSUME callback' = callback, serve_counter' = serve_counter
  PROVE  Closed' = Closed
BY DEF Closed, Inside

(* A step outside the callback that closes no file.                        *)
LEMMA TaskQuiet ==
  ASSUME RInv, NEW t \in Tasks, Step(t), ~CloseWrittenFile(t),
         Closed' = Closed
  PROVE  Task!Step(t)
<1> USE TaskOps, TaskLinks
<1>1. CASE OpenFile(t)
  <2> DEFINE l == NextOp(t).link
  <2>1. FileOn(l) /\ l \in Links
    BY <1>1, ReadLink DEF OpenFile, RInv
  <2>2. Closed[Prod[l]] = serve_counter[Prod[l]]
    BY <2>1, ClosedIs, LinkAssumption DEF FileOn
  <2>3. Task!OpenFile(t)
    BY <1>1, <2>2 DEF OpenFile, Task!OpenFile
  <2> QED BY <2>3 DEF Task!Step
<1>2. CASE scf_cb(t)
  <2>1. FetchName(t) => Task!FetchName(t)
    BY DEF FetchName, Task!FetchName
  <2>2. FetchNameRaises(t) => Task!FetchNameRaises(t)
    BY DEF FetchNameRaises, Task!FetchNameRaises
  <2>3. Task!scf_cb(t)
    BY <1>2, <2>1, <2>2 DEF scf_cb, Task!scf_cb
  <2> QED BY <2>3 DEF Task!Step
<1>3. CASE OpenNamedFile(t)
  <2>1. FileOn(at[t]) /\ at[t] \in Links
    BY <1>3 DEF OpenNamedFile, RInv, AtHand, TypeOK
  <2>2. Closed[Prod[at[t]]] = serve_counter[Prod[at[t]]]
    BY <2>1, ClosedIs, LinkAssumption DEF FileOn
  <2>3. Task!OpenNamedFile(t)
    BY <1>3, <2>2 DEF OpenNamedFile, Task!OpenNamedFile
  <2> QED BY <2>3 DEF Task!Step
<1>4. CASE CloseReadFile(t)
  BY <1>4 DEF CloseReadFile, Task!CloseReadFile, Task!Step
<1>5. CASE EndServe(t)
  BY <1>5, TaskServes DEF EndServe, Task!EndServe, Task!Step
<1>6. CASE EndFirstRun(t)
  BY <1>6 DEF EndFirstRun, Task!EndFirstRun, Task!Step
<1>7. CASE EndLaterRun(t)
  BY <1>7 DEF EndLaterRun, Task!EndLaterRun, Task!Step
<1>8. CASE EndProducerDone(t)
  BY <1>8, TaskServes DEF EndProducerDone, Task!EndProducerDone, Task!Step
<1>9. CASE NextFile(t)
  BY <1>9 DEF NextFile, Task!NextFile, Task!Step
<1>10. CASE NoMoreFiles(t)
  <2> DEFINE l == wlk[t][cur[t]]
  <2>1. Task!EofOn(l) = EofOn(l) /\ Task!Slept(l) = Slept(l)
    BY TaskLinks
  <2>2. Task!RemoveAt(wlk[t], cur[t]) = RemoveAt(wlk[t], cur[t])
    BY DEF Task!RemoveAt, RemoveAt
  <2>3. Task!NoMoreFiles(t)
    BY <1>10, <2>1, <2>2 DEF NoMoreFiles, Task!NoMoreFiles
  <2> QED BY <2>3 DEF Task!Step
<1>11. CASE RestartFor(t)
  BY <1>11 DEF RestartFor, Task!RestartFor, Task!Step
<1>12. CASE LeaveLoop(t)
  BY <1>12 DEF LeaveLoop, Task!LeaveLoop, Task!Step
<1> QED
  BY <1>1, <1>2, <1>3, <1>4, <1>5, <1>6, <1>7, <1>8, <1>9, <1>10, <1>11,
     <1>12 DEF Step

(* A file is closed.                                                       *)
LEMMA TaskStartServe ==
  ASSUME NEW t \in Tasks, NEW ls, StartServe(t, ls),
         Closed'[t] = serve_counter'[t]
  PROVE  Task!StartServe(t, ls)
BY DEF StartServe, Task!StartServe

LEMMA TaskCloses ==
  ASSUME RInv, NEW t \in Tasks, ~Inside(t), CloseWrittenFile(t),
         callback' = callback
  PROVE  Task!CloseWrittenFile(t)
<1> DEFINE n == serve_counter[t] + 1
<1>1. serve_counter' = [serve_counter EXCEPT ![t] = n]
  BY DEF CloseWrittenFile
<1>2. /\ Closed[t] + 1 = n /\ Closed'[t] = n /\ serve_counter'[t] = n
      /\ Closed' = [Closed EXCEPT ![t] = n]
  <2>1. serve_counter'[t] = n
         /\ \A u \in Tasks \ {t} : serve_counter'[u] = serve_counter[u]
    BY <1>1 DEF RInv, TypeOK
  <2>2. \A u \in Tasks : Inside(u)' = Inside(u)
    BY DEF Inside
  <2> HIDE DEF n
  <2>3. Closed'[t] = n /\ \A u \in Tasks \ {t} : Closed'[u] = Closed[u]
    BY <2>1, <2>2 DEF Closed
  <2>4. Closed' = [u \in Tasks |-> Closed'[u]] /\ Closed = [u \in Tasks |-> Closed[u]]
    BY DEF Closed
  <2> QED BY <2>1, <2>3, <2>4, ClosedIs DEF n
<1>3. PICK ready \in SUBSET {l \in Out(t) : Asking(l)} :
        IF CallbackRaises(t, n, ready)
        THEN pc' = [pc EXCEPT ![t] = "error"] /\ UNCHANGED <<serving, sent>>
        ELSE StartServe(t, Served(t, n, ready))
  BY DEF CloseWrittenFile
<1>4. IF Task!CallbackRaises(t, n, ready)
      THEN pc' = [pc EXCEPT ![t] = "error"] /\ UNCHANGED <<serving, sent>>
      ELSE Task!StartServe(t, Task!Served(t, n, ready))
  BY <1>2, <1>3, TaskServes, TaskStartServe
<1>5. ready \in SUBSET {l \in Task!Out(t) : Task!Asking(l)}
  BY <1>3, TaskOps, TaskLinks
<1>6. Task!AtOp(t, "write")
  BY TaskOps DEF CloseWrittenFile
<1> HIDE DEF n
<1> QED BY <1>2, <1>4, <1>5, <1>6 DEF CloseWrittenFile, Task!CloseWrittenFile


(* A task leaves the callback with the requests that explain it.           *)
LEMMA TaskLeaves ==
  ASSUME RInv, NEW t \in Tasks, Inside(t),
         NEW ready \in SUBSET {l \in Limited(t) : Asking(l)},
         IF CallbackRaises(t, serve_counter[t], ready)
         THEN pc' = [pc EXCEPT ![t] = "error"] /\ UNCHANGED <<serving, sent>>
         ELSE StartServe(t, Served(t, serve_counter[t], ready)),
         callback' = [callback EXCEPT ![t] = <<>>],
         UNCHANGED <<pos, at, first, wlk, cur, idx, prod_done, serve_counter,
                     acked, got>>
  PROVE  Task!CloseWrittenFile(t)
<1> DEFINE n == serve_counter[t]
<1>1. n \in Nat /\ callback'[t] = <<>>
      /\ \A u \in Tasks \ {t} : callback'[u] = callback[u]
  BY DEF RInv, TypeOK, FramesOK
<1>2. /\ Closed[t] = n - 1 /\ Closed'[t] = n
      /\ \A u \in Tasks \ {t} : Closed'[u] = Closed[u]
  BY <1>1 DEF Closed, Inside
<1>3. Closed' = [Closed EXCEPT ![t] = n]
  <2>1. /\ Closed' = [u \in Tasks |-> Closed'[u]]
        /\ Closed = [u \in Tasks |-> Closed[u]]
    BY DEF Closed
  <2> HIDE DEF n
  <2> QED BY <1>2, <2>1
<1>4. IF Task!CallbackRaises(t, n, ready)
      THEN pc' = [pc EXCEPT ![t] = "error"] /\ UNCHANGED <<serving, sent>>
      ELSE Task!StartServe(t, Task!Served(t, n, ready))
  BY <1>2, TaskServes, TaskStartServe
<1>5. ready \in SUBSET {l \in Task!Out(t) : Task!Asking(l)}
  BY TaskOps, TaskLinks DEF Limited
<1>6. Task!AtOp(t, "write")
  BY TaskOps DEF RInv, FramesOK
<1>7. Closed[t] + 1 = n
  BY <1>1, <1>2
<1> HIDE DEF n
<1> QED BY <1>3, <1>4, <1>5, <1>6, <1>7 DEF Task!CloseWrittenFile

LEMMA TaskRaises ==
  ASSUME DInv, NEW t \in Tasks, Inside(t), NEW r \in Ranks(t), Raise(t),
         callback[t][r].at \in DOMAIN flow_policies[t],
         flow_policies[t][callback[t][r].at] \notin callback[t][r].indices,
         NEW ready \in SUBSET {l \in Limited(t) : Asking(l)},
         Decides(t, serve_counter[t], ready, callback[t]),
         flow_policies[t][callback[t][r].at]
           \in Skipped(t, serve_counter[t], ready)
  PROVE  Task!CloseWrittenFile(t)
<1> DEFINE n == serve_counter[t]
           f == callback[t][r]
           l == flow_policies[t][f.at]
<1>1. RankDecides(t, n, ready, f) /\ l \notin Dropped(t, n, ready, f.at)
  BY DroppedNext DEF Decides
<1>2. l \notin Indexed(t)
  BY <1>1 DEF RankDecides
<1>3. CallbackRaises(t, n, ready)
  BY <1>2 DEF CallbackRaises, DInv, RInv, FramesOK
<1> QED BY <1>3, TaskLeaves DEF Raise, DInv

(* A callback that returns serves what ExecTask does with these requests.  *)
LEMMA ReturnServes ==
  ASSUME DInv, NEW t \in Tasks, Return(t)
  PROVE  /\ Inside(t)
         /\ \E ready \in SUBSET {l \in Limited(t) : Asking(l)} :
              /\ ~CallbackRaises(t, serve_counter[t], ready)
              /\ StartServe(t, Served(t, serve_counter[t], ready))
<1> DEFINE n == serve_counter[t]
           f == callback[t]
           fp == flow_policies[t]
<1>1. Inside(t) /\ f \in [Ranks(t) -> Frame] /\ FlowControlled(t)
  BY DEF Return, DInv, RInv, FramesOK
<1>2. PICK ready \in SUBSET {l \in Limited(t) : Asking(l)} :
        Decides(t, n, ready, f)
  BY <1>1 DEF DInv, Explained
<1>3. PICK r \in Ranks(t) : StartServe(t, f[r].indices)
  BY DEF Return
<1>4. RankDecides(t, n, ready, f[r]) /\ f[r].at > Len(fp) /\ f[r].at \in Nat
  BY <1>1, <1>2 DEF Decides, Return, Frame
<1>5. 1 .. f[r].at - 1 = DOMAIN fp
  <2>1. DOMAIN fp = 1 .. Len(fp) /\ Len(fp) \in Nat
    BY PolicyPlaces
  <2>2. f[r].at <= Len(fp) + 1
    BY <1>4 DEF RankDecides
  <2> HIDE DEF f, fp
  <2> QED BY <1>4, <2>1, <2>2
<1>6. Dropped(t, n, ready, f[r].at) = Skipped(t, n, ready)
  <2>1. \A l \in Skipped(t, n, ready) : l \in Limited(t)
    BY DEF Skipped
  <2>2. ASSUME NEW l \in Skipped(t, n, ready)
        PROVE  l \in Dropped(t, n, ready, f[r].at)
    <3>1. PICK i \in DOMAIN fp : fp[i] = l
      BY <2>1, PolicyPlaces
    <3> QED BY <1>5, <3>1 DEF Dropped
  <2>3. ASSUME NEW l \in Dropped(t, n, ready, f[r].at)
        PROVE  l \in Skipped(t, n, ready)
    BY DEF Dropped
  <2> QED BY <2>2, <2>3
<1>7. ~CallbackRaises(t, n, ready) /\ Served(t, n, ready) = f[r].indices
  BY <1>1, <1>4, <1>6 DEF RankDecides, CallbackRaises, Served
<1> QED BY <1>1, <1>3, <1>7

LEMMA TaskReturns ==
  ASSUME DInv, NEW t \in Tasks, Return(t)
  PROVE  Task!CloseWrittenFile(t)
BY ReturnServes, TaskLeaves DEF Return, DInv

(* All other steps in the callback are not seen from outside.              *)
LEMMA FramesInside ==
  ASSUME NEW t \in Tasks, NEW g, DOMAIN g = Ranks(t)
  PROVE  g # <<>>
<1>1. 1 \in DOMAIN g
  BY RankAssumption DEF Ranks
<1>2. DOMAIN <<>> = {}
  OBVIOUS
<1> QED BY <1>1, <1>2

LEMMA TaskStutters ==
  ASSUME RInv, NEW t \in Tasks, NEW g, DOMAIN g = Ranks(t),
         callback' = [callback EXCEPT ![t] = g],
         UNCHANGED <<pc, pos, first, wlk, cur, idx, at, prod_done, serving,
                     acked, sent, got>>,
         \/ Inside(t) /\ UNCHANGED serve_counter
         \/ ~Inside(t) /\ serve_counter' = [serve_counter EXCEPT ![t] = @ + 1]
  PROVE  UNCHANGED Task!vars
<1>1. /\ callback'[t] = g /\ g # <<>>
      /\ \A u \in Tasks \ {t} : callback'[u] = callback[u]
  BY FramesInside DEF RInv, FramesOK
<1>2. \A u \in Tasks : serve_counter[u] \in Nat
  BY DEF RInv, TypeOK
<1>3. /\ \A u \in Tasks \ {t} : serve_counter'[u] = serve_counter[u]
      /\ Inside(t) => serve_counter'[t] = serve_counter[t]
      /\ ~Inside(t) => serve_counter'[t] = serve_counter[t] + 1
  BY DEF RInv, TypeOK
<1>4. /\ Inside(t)'
      /\ \A u \in Tasks \ {t} : Inside(u)' = Inside(u)
  BY <1>1 DEF Inside
<1>5. (serve_counter[t] + 1) - 1 = serve_counter[t]
  BY <1>2
<1>6. Closed' = Closed
  BY <1>3, <1>4, <1>5 DEF Closed
<1> QED BY <1>6 DEF Task!vars


(* Every step of a rank is a step of the task or none.                     *)
LEMMA TaskStep ==
  ASSUME DInv, NEW t \in Tasks, FCStep(t)
  PROVE  Task!Step(t) \/ UNCHANGED Task!vars
<1> DEFINE n == serve_counter[t]
           f == callback[t]
<1>1. CASE Elsewhere(t)
  <2>1. ~Inside(t) /\ callback' = callback /\ Step(t)
    BY <1>1 DEF Elsewhere, DInv, RInv, FramesOK
  <2>2. CASE CloseWrittenFile(t)
    BY <2>1, <2>2, TaskCloses DEF DInv, Task!Step
  <2>3. CASE ~CloseWrittenFile(t)
    <3>1. Closed' = Closed
      BY <2>1, <2>3, SentFrame, ClosedSame
    <3> QED BY <2>1, <2>3, <3>1, TaskQuiet DEF DInv
  <2> QED BY <2>2, <2>3
<1>2. CASE Barrier(t)
  <2> DEFINE g == [r \in Ranks(t) |-> [at |-> 1, probed |-> FALSE,
                     indices |-> Indexed(t), serve |-> FALSE]]
  <2>1. DOMAIN g = Ranks(t) /\ callback' = [callback EXCEPT ![t] = g]
    BY <1>2 DEF Barrier
  <2> HIDE DEF g
  <2> QED BY <1>2, <2>1, TaskStutters DEF Barrier, Counted, DInv
<1>3. CASE Return(t)
  BY <1>3, TaskReturns DEF Task!Step
<1>4. ASSUME Inside(t)
      PROVE  /\ callback = [u \in Tasks |-> callback[u]]
             /\ f \in [Ranks(t) -> Frame]
             /\ \E ready \in SUBSET {l \in Limited(t) : Asking(l)} :
                  Decides(t, n, ready, f)
  BY <1>4 DEF DInv, RInv, FramesOK, Explained
<1>5. ASSUME NEW r \in Ranks(t), Probe(t, r)
      PROVE  UNCHANGED Task!vars
  <2>1. PICK g : /\ callback' = [callback EXCEPT ![t] = g]
                 /\ DOMAIN g = Ranks(t)
    <3>1. PICK found :
            callback' = [callback EXCEPT ![t][r].probed = TRUE,
                                         ![t][r].serve = @ \/ found]
      BY <1>5 DEF Probe
    <3> DEFINE m == [f[r] EXCEPT !.probed = TRUE, !.serve = @ \/ found]
               g == [f EXCEPT ![r] = m]
    <3>2. callback' = [callback EXCEPT ![t] = g]
      BY <3>1
    <3>3. DOMAIN g = Ranks(t)
      BY <1>4, <1>5 DEF Probe, AtPolicy
    <3> QED BY <3>2, <3>3
  <2> QED BY <1>5, <2>1, TaskStutters DEF Probe, AtPolicy, vars, DInv
<1>6. ASSUME NEW r \in Ranks(t), Count(t, r)
      PROVE  Task!Step(t) \/ UNCHANGED Task!vars
  <2>1. PICK l \in Links :
          /\ AtPolicy(t, r, l, FALSE)
          /\ \/ ~Due(t, l) /\ l \notin f[r].indices /\ Raise(t)
             \/ /\ callback' = [callback EXCEPT ![t][r] =
                                   Leave(@, l, ~Due(t, l))]
                /\ UNCHANGED vars
    BY <1>6 DEF Count
  <2>2. /\ Inside(t) /\ f[r].at \in DOMAIN flow_policies[t]
        /\ l = flow_policies[t][f[r].at] /\ Policy[l] # -1 /\ l \in Limited(t)
    BY <2>1, PolicyPlaces DEF AtPolicy
  <2>3. CASE ~Due(t, l) /\ l \notin f[r].indices /\ Raise(t)
    <3>1. PICK ready \in SUBSET {k \in Limited(t) : Asking(k)} :
            Decides(t, n, ready, f)
      BY <1>4, <2>2
    <3>2. l \in Skipped(t, n, ready)
      BY <2>2, <2>3, SkippedCounted
    <3> QED BY <2>2, <2>3, <3>1, <3>2, TaskRaises DEF Task!Step
  <2>4. CASE /\ callback' = [callback EXCEPT ![t][r] =
                                Leave(@, l, ~Due(t, l))]
             /\ UNCHANGED vars
    <3> DEFINE g == [f EXCEPT ![r] = Leave(@, l, ~Due(t, l))]
    <3>1. callback' = [callback EXCEPT ![t] = g] /\ DOMAIN g = Ranks(t)
      BY <1>4, <2>2, <2>4
    <3> HIDE DEF g
    <3> QED BY <2>2, <2>4, <3>1, TaskStutters DEF vars, DInv
  <2> QED BY <2>1, <2>3, <2>4
<1>7. CASE Allreduce(t)
  <2>1. PICK l \in Links :
          /\ \A r \in Ranks(t) : AtPolicy(t, r, l, TRUE)
          /\ \/ /\ \E r \in Ranks(t) : /\ ~AnyServe(t, r)
                                       /\ l \notin f[r].indices
                /\ Raise(t)
             \/ /\ callback' = [callback EXCEPT ![t] = [r \in Ranks(t) |->
                     Leave(f[r], l, ~AnyServe(t, r))]]
                /\ UNCHANGED vars
    BY <1>7 DEF Allreduce
  <2>2. Inside(t)
    <3>1. 1 \in Ranks(t)
      BY RankAssumption DEF Ranks
    <3> QED BY <2>1, <3>1 DEF AtPolicy
  <2>3. CASE /\ \E r \in Ranks(t) : ~AnyServe(t, r) /\ l \notin f[r].indices
             /\ Raise(t)
    <3>1. PICK r \in Ranks(t) : ~AnyServe(t, r) /\ l \notin f[r].indices
      BY <2>3
    <3>2. PICK ready \in SUBSET {k \in Limited(t) : Asking(k)} :
            Decides(t, n, ready, f)
      BY <1>4, <2>2
    <3>3. f[r].at \in DOMAIN flow_policies[t]
          /\ l = flow_policies[t][f[r].at] /\ Policy[l] = -1
      BY <2>1 DEF AtPolicy
    <3>4. ready = {}
      BY <3>1, <3>2 DEF AnyServe, Decides
    <3>5. l \in Skipped(t, n, ready)
      BY <3>3, <3>4, SkippedLatest
    <3> QED BY <2>2, <2>3, <3>1, <3>2, <3>3, <3>5, TaskRaises DEF Task!Step
  <2>4. CASE /\ callback' = [callback EXCEPT ![t] = [r \in Ranks(t) |->
                  Leave(f[r], l, ~AnyServe(t, r))]]
             /\ UNCHANGED vars
    <3> DEFINE g == [r \in Ranks(t) |-> Leave(f[r], l, ~AnyServe(t, r))]
    <3>1. callback' = [callback EXCEPT ![t] = g] /\ DOMAIN g = Ranks(t)
      BY <2>4
    <3> HIDE DEF g
    <3> QED BY <2>2, <2>4, <3>1, TaskStutters DEF vars, DInv
  <2> QED BY <2>1, <2>3, <2>4
<1> QED BY <1>1, <1>2, <1>3, <1>5, <1>6, <1>7 DEF FCStep

LEMMA DInvInit == FCInit => DInv
<1> SUFFICES ASSUME FCInit PROVE DInv
  OBVIOUS
<1>1. TypeOK /\ AtHand
  BY TypeInit DEF FCInit, Init, AtHand
<1>2. \A t \in Tasks : ~Inside(t)
  BY DEF FCInit, Inside
<1> QED
  BY <1>1, <1>2 DEF DInv, RInv, FCInit, FramesOK, Together, Explained

(* At the beginning no file has been closed.                               *)
LEMMA TaskInit == FCInit => Task!Init
<1> SUFFICES ASSUME FCInit PROVE Task!Init
  OBVIOUS
<1>1. Closed = [t \in Tasks |-> 0]
  BY DEF FCInit, Init, Inside, Closed
<1> QED BY <1>1 DEF FCInit, Init, Task!Init

(* The step relation of FCSpec keeps DInv.                                 *)
LEMMA DInvNext == DInv /\ [\E t \in Tasks : FCStep(t)]_fcVars => DInv'
<1> SUFFICES ASSUME DInv, [\E t \in Tasks : FCStep(t)]_fcVars PROVE DInv'
  OBVIOUS
<1>1. CASE \E t \in Tasks : FCStep(t)
  BY <1>1, DInvStep
<1>2. CASE UNCHANGED fcVars
  <2>1. RInv'
    BY <1>2 DEF DInv, fcVars, vars, RInv, TypeOK, AtHand, FramesOK, Together,
       Inside, AtOp, RangeOver, NextOp, FlowControlled, Limited, Out, Ahead,
       Missed, Due
  <2>2. \A l : Asking(l)' = Asking(l)
    BY <1>2 DEF fcVars, vars, Asking, AtOp, RangeOver, NextOp
  <2>3. ASSUME NEW t \in Tasks PROVE Explained(t)'
    <3> SUFFICES ASSUME Inside(t)
                 PROVE  \E ready \in SUBSET {l \in Limited(t) : Asking(l)'} :
                          Decides(t, serve_counter'[t], ready, callback'[t])
      BY <1>2 DEF Explained, Inside, fcVars, Limited, Out
    <3>1. PICK ready \in SUBSET {l \in Limited(t) : Asking(l)} :
            Decides(t, serve_counter[t], ready, callback[t])
      BY DEF DInv, Explained
    <3>2. ready \in SUBSET {l \in Limited(t) : Asking(l)'}
      BY <2>2
    <3>3. serve_counter' = serve_counter /\ callback' = callback
      BY <1>2 DEF fcVars, vars
    <3> QED BY <3>1, <3>2, <3>3
  <2> QED BY <2>1, <2>3 DEF DInv
<1> QED BY <1>1, <1>2

(***************************************************************************)
(* The safety part of CallbackIsOneStep: for every workflow, any number of *)
(* ranks and whenever requests arrive, each behaviour of the ranks is one  *)
(* of exec_task in which a callback is a single step.                      *)
(***************************************************************************)
THEOREM CallbackIsOneStepCorrect ==
  FCSpec => Task!Init /\ [][Task!Next]_(Task!vars)
<1>1. DInv /\ [\E t \in Tasks : FCStep(t)]_fcVars => [Task!Next]_(Task!vars)
  <2> SUFFICES ASSUME DInv, [\E t \in Tasks : FCStep(t)]_fcVars
               PROVE  [Task!Next]_(Task!vars)
    OBVIOUS
  <2>1. CASE \E t \in Tasks : FCStep(t)
    BY <2>1, TaskStep DEF Task!Next
  <2>2. CASE UNCHANGED fcVars
    <3>1. Closed' = Closed
      BY <2>2, ClosedSame DEF fcVars, vars
    <3> QED BY <2>2, <3>1 DEF fcVars, vars, Task!vars
  <2> QED BY <2>1, <2>2
<1> QED BY <1>1, DInvInit, DInvNext, TaskInit, PTL DEF FCSpec


-----------------------------------------------------------------------------
(* What a step in the callback comes to.                                   *)
LEMMA CallbackCases ==
  ASSUME DInv, NEW t \in Tasks, FCStep(t), ~Elsewhere(t)
  PROVE  /\ AtOp(t, "write") /\ FlowControlled(t)
         /\ UNCHANGED <<pos, at, first, wlk, cur, idx, prod_done, acked, got>>
         /\ \/ UNCHANGED <<pc, serving, sent>>
            \/ /\ pc' = [pc EXCEPT ![t] = "error"]
               /\ UNCHANGED <<serving, sent, serve_counter>>
            \/ /\ UNCHANGED serve_counter
               /\ \E ready \in SUBSET {l \in Limited(t) : Asking(l)} :
                    StartServe(t, Served(t, serve_counter[t], ready))
<1>1. AtOp(t, "write") /\ FlowControlled(t)
  <2>1. 1 \in Ranks(t)
    BY RankAssumption DEF Ranks
  <2>2. Allreduce(t) => Inside(t)
    BY <2>1 DEF Allreduce, AtPolicy
  <2>3. Inside(t) \/ Barrier(t)
    BY <2>2 DEF FCStep, Return, Probe, Count, AtPolicy
  <2> QED BY <2>3 DEF Barrier, DInv, RInv, FramesOK
<1>2. CASE Barrier(t)
  BY <1>1, <1>2 DEF Barrier
<1>3. CASE Return(t)
  BY <1>1, <1>3, ReturnServes DEF Return
<1>4. CASE \E r \in Ranks(t) : Probe(t, r)
  BY <1>1, <1>4 DEF Probe, vars
<1>5. CASE Allreduce(t)
  BY <1>1, <1>5 DEF Allreduce, Raise, vars
<1>6. CASE \E r \in Ranks(t) : Count(t, r)
  BY <1>1, <1>6 DEF Count, Raise, vars
<1> QED BY <1>2, <1>3, <1>4, <1>5, <1>6 DEF FCStep

(* On the ranks too, a task that consumes nothing starts its puppet once.  *)
RanksInv == DInv /\ \A t \in Tasks : RunsOnce(t)

LEMMA RanksInvStep ==
  ASSUME RanksInv, NEW t \in Tasks, FCStep(t)
  PROVE  RanksInv'
<1>1. DInv'
  BY DInvStep DEF RanksInv
<1>2. ASSUME NEW u \in Tasks PROVE RunsOnce(u)'
  <2>1. CASE Elsewhere(t)
    BY <2>1, RunsOnceStep DEF Elsewhere, RanksInv, DInv, RInv
  <2>2. CASE ~Elsewhere(t)
    <3>1. first[t] /\ UNCHANGED <<first, wlk>>
      BY <2>2, CallbackCases DEF RanksInv, FlowControlled
    <3>2. u # t => pc'[u] = pc[u]
      <4>1. pc \in [Tasks -> PcValues]
        BY DEF RanksInv, DInv, RInv, TypeOK
      <4>2. CASE \/ UNCHANGED pc
                 \/ pc' = [pc EXCEPT ![t] = "error"]
                 \/ pc' = [pc EXCEPT ![t] = "serve"]
        BY <4>1, <4>2
      <4>3. CASE \E ready \in SUBSET {l \in Limited(t) : Asking(l)} :
                   StartServe(t, Served(t, serve_counter[t], ready))
        BY <4>2, <4>3 DEF StartServe
      <4>4. DInv
        BY DEF RanksInv
      <4> QED BY <2>2, <4>2, <4>3, <4>4, CallbackCases
    <3> QED BY <3>1, <3>2 DEF RanksInv, RunsOnce, In
  <2> QED BY <2>1, <2>2
<1> QED BY <1>1, <1>2 DEF RanksInv

LEMMA RanksInvNext ==
  RanksInv /\ [\E t \in Tasks : FCStep(t)]_fcVars => RanksInv'
<1> SUFFICES ASSUME RanksInv, [\E t \in Tasks : FCStep(t)]_fcVars
             PROVE  RanksInv'
  OBVIOUS
<1>1. CASE \E t \in Tasks : FCStep(t)
  BY <1>1, RanksInvStep
<1>2. CASE UNCHANGED fcVars
  BY <1>2, DInvNext DEF RanksInv, RunsOnce, In, fcVars, vars
<1> QED BY <1>1, <1>2

LEMMA RanksInvInit == FCInit => RanksInv
BY DInvInit, FlowInvInit DEF FCInit, RanksInv, FlowInv

-----------------------------------------------------------------------------
(* io_freq.                                                                *)

(* Where only sources have flow control, a file that is closed is served   *)
(* on the links that are not dropped.                                      *)
LEMMA ClosedServes ==
  ASSUME SourcesLimited, NEW t \in Tasks, RunsOnce(t),
         Task!CloseWrittenFile(t)
  PROVE  /\ Closed' = [Closed EXCEPT ![t] = Closed[t] + 1]
         /\ \E ready : Task!StartServe(t, Out(t) \ Skipped(t, Closed[t] + 1, ready))
<1> DEFINE n == Closed[t] + 1
<1>1. Closed' = [Closed EXCEPT ![t] = n] /\ AtOp(t, "write")
  BY TaskOps DEF Task!CloseWrittenFile
<1>2. PICK ready :
        IF Task!CallbackRaises(t, n, ready)
        THEN pc' = [pc EXCEPT ![t] = "error"] /\ UNCHANGED <<serving, sent>>
        ELSE Task!StartServe(t, Task!Served(t, n, ready))
  BY DEF Task!CloseWrittenFile
<1> HIDE DEF n
<1>3. Skipped(t, n, ready) \subseteq Limited(t) /\ Limited(t) \subseteq Out(t)
  BY DEF Skipped, Limited
<1>4. CASE Limited(t) # {}
  <2>1. Indexed(t) = Out(t) /\ first[t]
    BY <1>1, <1>4, SourceIndexed DEF SourcesLimited, RunsOnce, AtOp
  <2>2. /\ ~CallbackRaises(t, n, ready)
        /\ Served(t, n, ready) = Out(t) \ Skipped(t, n, ready)
    BY <1>3, <1>4, <2>1 DEF CallbackRaises, Served, FlowControlled
  <2> QED BY <1>1, <1>2, <2>2, TaskServes DEF n
<1>5. CASE Limited(t) = {}
  <2>1. /\ ~CallbackRaises(t, n, ready) /\ Served(t, n, ready) = Out(t)
        /\ Skipped(t, n, ready) = {}
    BY <1>3, <1>5 DEF CallbackRaises, Served, FlowControlled
  <2> QED BY <1>1, <1>2, <2>1, TaskServes DEF n
<1> QED BY <1>4, <1>5

(* Nothing else is closed or served.                                       *)
LEMMA ClosedFrame ==
  ASSUME NEW t \in Tasks, Task!Step(t), ~Task!CloseWrittenFile(t)
  PROVE  UNCHANGED <<sent, Closed>>
BY DEF Task!Step, Task!OpenFile, Task!scf_cb, Task!FetchName,
   Task!FetchNameRaises, Task!OpenNamedFile, Task!CloseReadFile,
   Task!EndServe, Task!EndFirstRun, Task!EndLaterRun, Task!EndProducerDone,
   Task!NextFile, Task!NoMoreFiles, Task!RestartFor, Task!LeaveLoop

(* What has been served on a link is what its io_freq asks for, of the     *)
(* files whose callback has returned.                                      *)
ClosedHonoured(l) ==
  Policy[l] # -1 => sent[l] = Multiples(Closed[Prod[l]], Policy[l])

LEMMA ClosedHonouredStep ==
  ASSUME SourcesLimited, Closed \in [Tasks -> Nat], NEW t \in Tasks,
         RunsOnce(t), Task!Step(t), NEW l \in Links, ClosedHonoured(l)
  PROVE  ClosedHonoured(l)' /\ Closed' \in [Tasks -> Nat]
<1> DEFINE n == Closed[t]
           p == Policy[l]
<1>0. n \in Nat /\ Prod[l] \in Tasks
  BY LinkAssumption
<1>1. CASE ~Task!CloseWrittenFile(t)
  BY <1>1, ClosedFrame DEF ClosedHonoured
<1>2. CASE Task!CloseWrittenFile(t)
  <2>1. PICK ready :
          /\ Closed' = [Closed EXCEPT ![t] = n + 1]
          /\ Task!StartServe(t, Out(t) \ Skipped(t, n + 1, ready))
    BY <1>2, ClosedServes
  <2>2. Closed' \in [Tasks -> Nat]
    BY <1>0, <2>1
  <2> SUFFICES ASSUME p # -1
               PROVE  sent'[l] = Multiples(Closed'[Prod[l]], p)
    BY <2>2 DEF ClosedHonoured
  <2>3. sent[l] = Multiples(Closed[Prod[l]], p) /\ p \in Nat \ {0}
    BY LinkAssumption DEF ClosedHonoured
  <2>4. CASE Prod[l] # t
    <3>1. Closed'[Prod[l]] = Closed[Prod[l]]
      BY <1>0, <2>1, <2>4
    <3>2. sent'[l] = sent[l]
      BY <2>1, <2>4 DEF Task!StartServe
    <3> QED BY <2>3, <3>1, <3>2
  <2>5. CASE Prod[l] = t
    <3>1. Closed'[t] = n + 1
      BY <2>1
    <3>2. l \in Skipped(t, n + 1, ready) <=> (n + 1) % p # 0
      <4>1. p = 1 => (n + 1) % p = 0
        BY <1>0
      <4>2. l \in Limited(t) <=> p # 1
        BY <2>5 DEF Limited, Out
      <4> QED BY <4>1, <4>2 DEF Skipped
    <3>3. sent'[l] = IF (n + 1) % p = 0 THEN Append(sent[l], n + 1)
                                        ELSE sent[l]
      BY <2>1, <2>5, <3>1, <3>2 DEF Task!StartServe, Out
    <3> HIDE DEF n, p
    <3> QED BY <1>0, <2>3, <2>5, <3>1, <3>3, MultiplesNext DEF n, p
  <2> QED BY <2>4, <2>5
<1> QED BY <1>1, <1>2

(* On any number of ranks, the n-th, 2n-th, ... file a producer closes is  *)
(* served on a link with io_freq n, and no other, at every moment, if a    *)
(* file counts as closed when the callback has returned.                   *)
THEOREM FrequencyHonouredCorrect ==
  ASSUME SourcesLimited
  PROVE  FCSpec => []FrequencyHonoured
<1> DEFINE CInv == /\ RanksInv
                   /\ Closed \in [Tasks -> Nat]
                   /\ \A l \in Links : ClosedHonoured(l)
<1>1. CInv => FrequencyHonoured
  BY DEF FrequencyHonoured, Task!PolicyHonoured, ClosedHonoured, Multiples
<1>2. FCInit => CInv
  <2> SUFFICES ASSUME FCInit PROVE CInv
    OBVIOUS
  <2>1. Closed = [t \in Tasks |-> 0]
    BY DEF FCInit, Init, Inside, Closed
  <2>2. ASSUME NEW l \in Links, Policy[l] # -1
        PROVE  sent[l] = Multiples(Closed[Prod[l]], Policy[l])
    <3>1. /\ Closed[Prod[l]] = 0 /\ sent[l] = <<>>
          /\ Policy[l] \in Nat \ {0}
      BY <2>1, <2>2, LinkAssumption DEF FCInit, Init
    <3>2. 0 \div Policy[l] = 0
      BY <3>1, ZeroQuotient
    <3> QED BY <3>1, <3>2 DEF Multiples
  <2> QED BY <2>1, <2>2, RanksInvInit DEF ClosedHonoured
<1>3. CInv /\ [\E t \in Tasks : FCStep(t)]_fcVars => CInv'
  <2> SUFFICES ASSUME CInv, [\E t \in Tasks : FCStep(t)]_fcVars PROVE CInv'
    OBVIOUS
  <2>1. RanksInv'
    BY RanksInvNext
  <2>2. CASE Closed' = Closed /\ sent' = sent
    BY <2>1, <2>2 DEF ClosedHonoured
  <2>3. ASSUME NEW t \in Tasks, Task!Step(t) PROVE CInv'
    <3>1. Closed' \in [Tasks -> Nat]
      BY <2>3, ClosedFrame, ClosedServes DEF RanksInv
    <3> QED BY <2>1, <2>3, <3>1, ClosedHonouredStep DEF RanksInv
  <2>4. ASSUME NEW t \in Tasks, FCStep(t) PROVE CInv'
    BY <2>2, <2>3, <2>4, TaskStep DEF RanksInv, Task!vars
  <2>5. CASE UNCHANGED fcVars
    BY <2>2, <2>5, ClosedSame DEF fcVars, vars
  <2> QED BY <2>4, <2>5
<1> HIDE DEF CInv
<1> QED BY <1>1, <1>2, <1>3, PTL DEF FCSpec


-----------------------------------------------------------------------------
(* The policy "latest", on the ranks.                                      *)

(* In the callback only the serve at its end makes a file unopened.        *)
LEMMA CallbackUnopened ==
  ASSUME DInv, NEW t \in Tasks, FCStep(t), ~Elsewhere(t), NEW l \in Links,
         ~Unopened(l), Unopened(l)'
  PROVE  /\ Prod[l] = t
         /\ \E ready \in SUBSET {k \in Limited(t) : Asking(k)} :
              l \in Served(t, serve_counter[t], ready)
<1> DEFINE u == Prod[l]
           c == Con[l]
<1>1. u \in Tasks /\ c \in Tasks /\ TypeOK
  BY LinkAssumption DEF DInv, RInv
<1>2. /\ pc'[u] = "serve" /\ l \in serving'[u] /\ l \notin acked'
      /\ ~(pc'[c] = "reading" /\ at'[c] = l)
  BY DEF Unopened
<1>3. pc[t] = "run" /\ UNCHANGED <<at, acked>>
  BY CallbackCases DEF AtOp
<1> HIDE DEF u, c
<1>4. CASE UNCHANGED <<pc, serving>>
  BY <1>2, <1>3, <1>4 DEF Unopened, u, c
<1>5. CASE pc' = [pc EXCEPT ![t] = "error"] /\ UNCHANGED serving
  BY <1>1, <1>2, <1>3, <1>5 DEF Unopened, TypeOK, u, c
<1>6. ASSUME NEW ready \in SUBSET {k \in Limited(t) : Asking(k)},
             StartServe(t, Served(t, serve_counter[t], ready))
      PROVE  u = t /\ l \in Served(t, serve_counter[t], ready)
  <2>1. /\ pc' = [pc EXCEPT ![t] = "serve"]
        /\ serving' = [serving EXCEPT ![t] = Served(t, serve_counter[t], ready)]
    BY <1>6 DEF StartServe
  <2>2. CASE u # t
    <3>1. pc[u] = "serve" /\ l \in serving[u]
      BY <1>1, <1>2, <2>1, <2>2 DEF TypeOK
    <3>2. ~(pc[c] = "reading" /\ at[c] = l)
      BY <1>1, <1>2, <1>3, <2>1 DEF TypeOK
    <3> QED BY <1>2, <1>3, <3>1, <3>2 DEF Unopened, u, c
  <2>3. CASE u = t
    BY <1>1, <1>2, <2>1, <2>3 DEF TypeOK
  <2> QED BY <2>2, <2>3
<1> QED BY <1>4, <1>5, <1>6, CallbackCases DEF u

(* On any number of ranks, whatever each of them finds when it probes, a   *)
(* task begins to wait for the consumer of a "latest" link only when this  *)
(* consumer, or that of a "latest" link before it, waits for a file.       *)
THEOREM RanksServeWhenAskedCorrect ==
  ASSUME SourcesLimited
  PROVE  FCSpec => LatestServedOnlyWhenAsked
<1>1. RanksInv /\ [\E t \in Tasks : FCStep(t)]_fcVars => [ServedWhenAsked]_vars
  <2> SUFFICES ASSUME RanksInv, [\E t \in Tasks : FCStep(t)]_fcVars,
                      NEW l \in Links, Policy[l] = -1,
                      ~Unopened(l), Unopened(l)'
               PROVE  \E k \in Limited(Prod[l]) :
                        /\ Policy[k] = -1
                        /\ Index[Prod[l]][k] <= Index[Prod[l]][l]
                        /\ Asking(k)
    BY DEF ServedWhenAsked
  <2>1. CASE UNCHANGED fcVars
    BY <2>1 DEF fcVars, vars, Unopened
  <2>2. ASSUME NEW t \in Tasks, Elsewhere(t)
        PROVE  \E k \in Limited(Prod[l]) :
                 /\ Policy[k] = -1
                 /\ Index[Prod[l]][k] <= Index[Prod[l]][l]
                 /\ Asking(k)
    <3>1. [Next]_vars
      BY <2>2 DEF Elsewhere, Next
    <3>2. FlowInv
      BY DEF RanksInv, DInv, RInv, FlowInv, TInv
    <3> QED BY <3>1, <3>2, LatestStep
  <2>3. ASSUME NEW t \in Tasks, FCStep(t), ~Elsewhere(t)
        PROVE  \E k \in Limited(Prod[l]) :
                 /\ Policy[k] = -1
                 /\ Index[Prod[l]][k] <= Index[Prod[l]][l]
                 /\ Asking(k)
    <3>1. /\ Prod[l] = t /\ FlowControlled(t)
          /\ \E ready \in SUBSET {k \in Limited(t) : Asking(k)} :
               l \in Served(t, serve_counter[t], ready)
      BY <2>3, CallbackUnopened, CallbackCases DEF RanksInv
    <3>2. PICK ready \in SUBSET {k \in Limited(t) : Asking(k)} :
            l \notin Skipped(t, serve_counter[t], ready)
      BY <3>1 DEF Served
    <3>3. l \in Limited(t)
      BY <3>1 DEF Limited, Out
    <3>4. PICK k \in Limited(t) : /\ Policy[k] = -1
                                  /\ Index[t][k] <= Index[t][l] /\ k \in ready
      BY <3>2, <3>3 DEF Skipped
    <3> QED BY <3>1, <3>2, <3>4
  <2> QED BY <2>1, <2>2, <2>3
<1> QED
  BY <1>1, RanksInvInit, RanksInvNext, PTL DEF FCSpec, LatestServedOnlyWhenAsked


-----------------------------------------------------------------------------
(* Each file once, on the ranks.                                           *)

(* A callback counts the files of its own task only.                       *)
LEMMA CallbackCounts ==
  ASSUME TypeOK, NEW t \in Tasks, FCStep(t), ~Elsewhere(t),
         NEW u \in Tasks, u # t
  PROVE  serve_counter'[u] = serve_counter[u]
<1>1. CASE Barrier(t)
  BY <1>1 DEF Barrier, TypeOK
<1>2. CASE Return(t)
  BY <1>2 DEF Return
<1>3. CASE Allreduce(t)
  BY <1>3 DEF Allreduce, Raise, vars
<1>4. CASE \E r \in Ranks(t) : Probe(t, r) \/ Count(t, r)
  BY <1>4 DEF Probe, Count, Raise, vars
<1> QED BY <1>1, <1>2, <1>3, <1>4 DEF FCStep

(* What it leaves of the other tasks, and what it makes of its own.        *)
CallbackEffect(t) ==
  /\ pc[t] = "run" /\ pc'[t] \in {"run", "error", "serve"}
  /\ UNCHANGED <<pos, at, wlk, acked, got>>
  /\ \A u \in Tasks \ {t} : /\ pc'[u] = pc[u]
                            /\ serving'[u] = serving[u]
                            /\ serve_counter'[u] = serve_counter[u]
  /\ \/ UNCHANGED <<serving, sent>> /\ pc'[t] \in {"run", "error"}
     \/ /\ UNCHANGED serve_counter
        /\ \E n, ready : StartServe(t, Served(t, n, ready))

LEMMA CallbackLeaves ==
  ASSUME DInv, NEW t \in Tasks, FCStep(t), ~Elsewhere(t)
  PROVE  CallbackEffect(t)
<1>1. TypeOK
  BY DEF DInv, RInv
<1>2. \A u \in Tasks \ {t} : serve_counter'[u] = serve_counter[u]
  BY <1>1, CallbackCounts
<1>3. /\ AtOp(t, "write") /\ UNCHANGED <<pos, at, wlk, acked, got>>
      /\ \/ UNCHANGED <<pc, serving, sent>>
         \/ pc' = [pc EXCEPT ![t] = "error"] /\ UNCHANGED <<serving, sent>>
         \/ /\ UNCHANGED serve_counter
            /\ \E ready \in SUBSET {l \in Limited(t) : Asking(l)} :
                 StartServe(t, Served(t, serve_counter[t], ready))
  BY CallbackCases
<1>4. pc[t] = "run"
  BY <1>3 DEF AtOp
<1>5. CASE UNCHANGED <<pc, serving, sent>>
  BY <1>2, <1>3, <1>4, <1>5 DEF CallbackEffect
<1>6. CASE pc' = [pc EXCEPT ![t] = "error"] /\ UNCHANGED <<serving, sent>>
  BY <1>1, <1>2, <1>3, <1>4, <1>6 DEF CallbackEffect, TypeOK
<1>7. ASSUME UNCHANGED serve_counter, NEW ready,
             StartServe(t, Served(t, serve_counter[t], ready))
      PROVE  CallbackEffect(t)
  <2>1. /\ pc'[t] = "serve"
        /\ \A u \in Tasks \ {t} : /\ pc'[u] = pc[u]
                                  /\ serving'[u] = serving[u]
    BY <1>1, <1>7 DEF StartServe, TypeOK
  <2>2. \E n, r : StartServe(t, Served(t, n, r))
    BY <1>7, Zenon
  <2> QED BY <1>2, <1>3, <1>4, <1>7, <2>1, <2>2 DEF CallbackEffect
<1> QED BY <1>3, <1>5, <1>6, <1>7

(* It keeps the handshake.                                                 *)
LEMMA CallbackHandshake ==
  ASSUME DInv, DInv', Handshake, NEW t \in Tasks, FCStep(t), ~Elsewhere(t)
  PROVE  Handshake'
<1>0. /\ pc[t] = "run" /\ pc'[t] \in {"run", "error", "serve"}
      /\ UNCHANGED <<pos, at, wlk, acked, got>>
      /\ \A u \in Tasks \ {t} : /\ pc'[u] = pc[u]
                                /\ serving'[u] = serving[u]
                                /\ serve_counter'[u] = serve_counter[u]
      /\ \/ UNCHANGED <<serving, sent>> /\ pc'[t] \in {"run", "error"}
         \/ /\ UNCHANGED serve_counter
            /\ \E n, ready : StartServe(t, Served(t, n, ready))
  BY CallbackLeaves DEF CallbackEffect
<1> USE LinkAssumption, <1>0 DEF Handshake
<1>1. TypeOK /\ AtHand /\ TypeOK' /\ AtHand'
  BY DEF DInv, RInv
<1>2. OneServed'
  <2> SUFFICES ASSUME NEW u \in Tasks
               PROVE  /\ serving'[u] # {} => pc'[u] \in {"serve", "done"}
                      /\ Alone(u) => \A k, l \in serving'[u] : k = l
    BY DEF OneServed, Alone
  <2>1. /\ serving[u] # {} => pc[u] \in {"serve", "done"}
        /\ Alone(u) => \A k, l \in serving[u] : k = l
    BY DEF OneServed
  <2>2. CASE u # t
    BY <2>1, <2>2
  <2>3. CASE u = t /\ UNCHANGED serving
    BY <2>1, <2>3
  <2>4. ASSUME u = t, NEW n, NEW ready, StartServe(t, Served(t, n, ready))
        PROVE  /\ serving'[u] # {} => pc'[u] \in {"serve", "done"}
               /\ Alone(u) => \A k, l \in serving'[u] : k = l
    <3>1. pc'[t] = "serve" /\ serving'[t] = Served(t, n, ready)
      BY <1>1, <2>4 DEF StartServe, TypeOK
    <3>2. Alone(t) => \A k, l \in Served(t, n, ready) : k = l
      BY ServedOne
    <3> QED BY <2>4, <3>1, <3>2
  <2>5. CASE u = t /\ \E n, ready : StartServe(t, Served(t, n, ready))
    BY <2>4, <2>5
  <2> QED BY <2>2, <2>3, <2>5
<1>3. AckedServed'
  <2> SUFFICES ASSUME NEW l \in acked PROVE l \in serving'[Prod[l]]
    BY DEF AckedServed
  <2>1. l \in serving[Prod[l]] /\ Prod[l] \in Tasks
    BY <1>1 DEF AckedServed, TypeOK
  <2>2. Prod[l] # t
    BY <2>1 DEF OneServed
  <2> QED BY <2>1, <2>2
<1>4. OpenServed'
  <2> SUFFICES ASSUME NEW u \in Tasks, pc'[u] \in {"named", "reading"}
               PROVE  FileAtHand(u)'
    BY DEF OpenServed
  <2>1. u # t /\ FileAtHand(u)
    BY DEF OpenServed
  <2>2. Prod[at[u]] \in Tasks \ {t}
    BY <2>1 DEF FileAtHand
  <2> QED BY <2>1, <2>2 DEF FileAtHand
<1>5. LoopLinks'
  BY DEF LoopLinks
<1>6. AtOpening'
  BY DEF AtOpening, RangeOver, NextOp
<1>7. FirstUnacked'
  BY DEF FirstUnacked, Unopening
<1> QED BY <1>2, <1>3, <1>4, <1>5, <1>6, <1>7

(* It makes a file unopened only on the links it serves it on.             *)
LEMMA CallbackOnce ==
  ASSUME DInv, Handshake, EachFileOnce, NEW t \in Tasks, FCStep(t),
         ~Elsewhere(t), NEW l \in Links
  PROVE  OnceOn(l)'
<1>0. /\ pc[t] = "run" /\ pc'[t] \in {"run", "error", "serve"}
      /\ UNCHANGED <<pos, at, wlk, acked, got>>
      /\ \A u \in Tasks \ {t} : /\ pc'[u] = pc[u]
                                /\ serving'[u] = serving[u]
                                /\ serve_counter'[u] = serve_counter[u]
      /\ \/ UNCHANGED <<serving, sent>> /\ pc'[t] \in {"run", "error"}
         \/ /\ UNCHANGED serve_counter
            /\ \E n, ready : StartServe(t, Served(t, n, ready))
  BY CallbackLeaves DEF CallbackEffect
<1>1. OnceOn(l) /\ Prod[l] \in Tasks /\ Con[l] \in Tasks /\ Prod[l] # Con[l]
  BY LinkAssumption DEF EachFileOnce, OnceOn
<1>2. TypeOK
  BY DEF DInv, RInv
<1>3. (pc'[Con[l]] = "reading" /\ at'[Con[l]] = l)
         <=> (pc[Con[l]] = "reading" /\ at[Con[l]] = l)
  BY <1>1, <1>0
<1>4. CASE Prod[l] # t
  <2>1. Unopened(l)' <=> Unopened(l)
    BY <1>1, <1>3, <1>4, <1>0 DEF Unopened
  <2>2. sent'[l] = sent[l]
    BY <1>4, <1>0 DEF StartServe
  <2> QED BY <1>1, <1>4, <2>1, <2>2, <1>0 DEF OnceOn
<1>5. CASE Prod[l] = t
  <2>1. sent[l] = got[l]
    BY <1>1, <1>5, <1>0 DEF OnceOn, Unopened
  <2>2. CASE UNCHANGED <<serving, sent>> /\ pc'[t] \in {"run", "error"}
    BY <1>5, <2>1, <2>2, <1>0 DEF OnceOn, Unopened
  <2>3. ASSUME NEW n, NEW ready, StartServe(t, Served(t, n, ready))
        PROVE  OnceOn(l)'
    <3> DEFINE ls == Served(t, n, ready)
    <3>1. /\ pc'[t] = "serve" /\ serving'[t] = ls
          /\ sent'[l] = IF l \in ls THEN Append(sent[l], serve_counter'[t])
                                    ELSE sent[l]
      BY <1>2, <1>5, <2>3 DEF StartServe, TypeOK
    <3>2. l \notin acked
      BY <1>1, <1>5, <1>0 DEF Handshake, AckedServed, OneServed
    <3>3. ~(pc[Con[l]] = "reading" /\ at[Con[l]] = l)
      BY <1>1, <1>5, <1>0 DEF Handshake, OpenServed, FileAtHand
    <3> HIDE DEF ls
    <3>4. Unopened(l)' <=> l \in ls
      BY <1>3, <1>5, <3>1, <3>2, <3>3, <1>0 DEF Unopened
    <3> QED BY <1>5, <2>1, <3>1, <3>4, <1>0 DEF OnceOn
  <2> QED BY <2>2, <2>3, <1>0
<1> QED BY <1>4, <1>5

(* Every step of the ranks keeps the handshake and the histories.          *)
OnceInv == DInv /\ IInv

LEMMA OnceInvNext ==
  NeverTwice /\ OnceInv /\ [\E t \in Tasks : FCStep(t)]_fcVars => OnceInv'
<1> SUFFICES ASSUME NeverTwice, OnceInv, [\E t \in Tasks : FCStep(t)]_fcVars
             PROVE  OnceInv'
  OBVIOUS
<1>1. DInv'
  BY DInvNext DEF OnceInv
<1>2. CASE UNCHANGED vars \/ \E t \in Tasks : Elsewhere(t)
  <2>1. [Next]_vars
    BY <1>2 DEF Elsewhere, Next
  <2> QED BY <1>1, <2>1, IInvStep DEF OnceInv
<1>3. ASSUME NEW t \in Tasks, FCStep(t), ~Elsewhere(t) PROVE OnceInv'
  <2>1. Handshake'
    BY <1>1, <1>3, CallbackHandshake DEF OnceInv, IInv
  <2>2. EachFileOnce'
    <3>1. ASSUME NEW l \in Links PROVE OnceOn(l)'
      BY <1>3, CallbackOnce DEF OnceInv, IInv
    <3> QED BY <3>1 DEF EachFileOnce, OnceOn
  <2> QED BY <1>1, <2>1, <2>2 DEF OnceInv, IInv, DInv, RInv
<1> QED BY <1>2, <1>3 DEF fcVars

(* A file that is served is opened exactly once by its consumer, in order, *)
(* whenever the ranks of its producer serve it: also if they do so while   *)
(* requests arrive that only some of them have seen.                       *)
THEOREM RanksEachFileOnceCorrect ==
  ASSUME NeverTwice
  PROVE  FCSpec => []EachFileOnce
<1>1. FCInit => OnceInv
  BY DInvInit, IInvInit DEF FCInit, OnceInv
<1>2. OnceInv => EachFileOnce
  BY DEF OnceInv, IInv
<1>3. OnceInv /\ [\E t \in Tasks : FCStep(t)]_fcVars => OnceInv'
  BY OnceInvNext
<1> QED BY <1>1, <1>2, <1>3, PTL DEF FCSpec
=============================================================================
