------------------------- MODULE ExecTaskFlow_proofs -------------------------
(***************************************************************************)
(* Theorems about the flow control of ExecTask, for workflows in which     *)
(* io_freq is given for links of tasks that consume nothing themselves: it *)
(* is honoured, a "latest" file is served on request, and the callback     *)
(* raises no exception.  No file is served after producer_done by tasks    *)
(* whose incoming links come first, nor by those of a cycle that read all  *)
(* their files in their first run.  And puppets that ask Wilkins for the   *)
(* names of their files get them, if the files last for whole runs.        *)
(***************************************************************************)
EXTENDS ExecTask_proofs, FiniteSetTheorems

(* Quotients.                                                              *)
LEMMA QuotientUnique ==
  ASSUME NEW p \in Nat \ {0}, NEW q \in Int, NEW s \in Int,
         NEW r \in 0 .. p - 1, NEW u \in 0 .. p - 1, p * q + r = p * s + u
  PROVE  q = s
<1>1. ASSUME NEW a \in Nat \ {0} PROVE p * a >= p
  OBVIOUS
<1>2. p * (q - s) = u - r /\ p * (s - q) = r - u
  OBVIOUS
<1>3. CASE q > s
  BY <1>1, <1>2, <1>3
<1>4. CASE q < s
  BY <1>1, <1>2, <1>4
<1> QED BY <1>3, <1>4

LEMMA ZeroQuotient == \A p \in Nat \ {0} : 0 \div p = 0
<1> SUFFICES ASSUME NEW p \in Nat \ {0} PROVE 0 \div p = 0
  OBVIOUS
<1> DEFINE q == 0 \div p
           r == 0 % p
<1>1. q \in Int /\ r \in 0 .. p - 1 /\ 0 = p * q + r
  OBVIOUS
<1> HIDE DEF q, r
<1>2. p * q + r = p * 0 + 0 /\ 0 \in 0 .. p - 1
  BY <1>1
<1>3. q = 0
  BY <1>1, <1>2, QuotientUnique
<1> QED BY <1>3 DEF q

(* The quotient of a counter grows with each multiple; the remainder goes   *)
(* round.                                                                  *)
LEMMA CountUp ==
  ASSUME NEW n \in Nat, NEW p \in Nat \ {0}
  PROVE  /\ n \div p \in Nat
         /\ (n + 1) % p = 0 => /\ (n + 1) \div p = n \div p + 1
                               /\ (n \div p + 1) * p = n + 1
         /\ (n + 1) % p # 0 => (n + 1) \div p = n \div p
         /\ (n + 1) % p = IF n % p = p - 1 THEN 0 ELSE (n % p) + 1
<1> DEFINE q == n \div p
           r == n % p
           s == (n + 1) \div p
           u == (n + 1) % p
<1>1. /\ q \in Int /\ r \in 0 .. p - 1 /\ n = p * q + r
      /\ s \in Int /\ u \in 0 .. p - 1 /\ n + 1 = p * s + u
  OBVIOUS
<1> HIDE DEF q, r, s, u
<1>2. q \in Nat
  <2> SUFFICES ASSUME q < 0 PROVE FALSE
    BY <1>1
  <2>1. ASSUME NEW a \in Nat \ {0} PROVE p * a >= p
    OBVIOUS
  <2>2. p * (-q) >= p /\ p * (-q) = r - n
    BY <1>1, <2>1
  <2> QED BY <1>1, <2>2
<1>3. CASE r + 1 = p
  <2>1. n + 1 = p * (q + 1) + 0 /\ 0 \in 0 .. p - 1
    BY <1>1, <1>3
  <2>2. s = q + 1
    BY <1>1, <2>1, QuotientUnique
  <2>3. u = 0
    BY <1>1, <2>1, <2>2
  <2>4. (q + 1) * p = n + 1
    BY <1>1, <2>1
  <2> QED BY <1>1, <1>2, <1>3, <2>2, <2>3, <2>4 DEF q, r, s, u
<1>4. CASE r + 1 # p
  <2>1. n + 1 = p * q + (r + 1) /\ r + 1 \in 0 .. p - 1
    BY <1>1, <1>4
  <2>2. s = q
    BY <1>1, <2>1, QuotientUnique
  <2>3. u = r + 1
    BY <1>1, <2>1, <2>2
  <2>4. u # 0
    BY <1>1, <2>3
  <2> QED BY <1>2, <2>2, <2>4 DEF q, s, u
<1> QED BY <1>3, <1>4

-----------------------------------------------------------------------------
(* What a step of a task leaves alone in the others.                       *)
LEMMA LoopFrame ==
  ASSUME TypeOK, NEW t \in Tasks, Step(t), NEW u \in Tasks, u # t
  PROVE  /\ first'[u] = first[u] /\ wlk'[u] = wlk[u]
         /\ prod_done'[u] = prod_done[u]
         /\ serve_counter'[u] = serve_counter[u] /\ idx'[u] = idx[u]
<1> USE DEF TypeOK
<1>1. CASE OpenFile(t) \/ scf_cb(t) \/ OpenNamedFile(t) \/ CloseReadFile(t)
  BY <1>1 DEF OpenFile, scf_cb, FetchName, FetchNameRaises, OpenNamedFile,
     CloseReadFile
<1>2. CASE CloseWrittenFile(t) \/ EndServe(t)
  BY <1>2 DEF CloseWrittenFile, EndServe
<1>3. CASE EndFirstRun(t) \/ EndLaterRun(t) \/ EndProducerDone(t)
  BY <1>3 DEF EndFirstRun, EndLaterRun, EndProducerDone
<1>4. CASE NextFile(t) \/ NoMoreFiles(t)
  BY <1>4 DEF NextFile, NoMoreFiles
<1>5. CASE RestartFor(t) \/ LeaveLoop(t)
  BY <1>5 DEF RestartFor, LeaveLoop
<1> QED BY <1>1, <1>2, <1>3, <1>4, <1>5 DEF Step

(***************************************************************************)
(* Flow control where only sources, tasks that consume nothing, have it.   *)
(***************************************************************************)
SourcesLimited == \A t \in Tasks : Limited(t) # {} => In(t) = {}

(* The first positions of a source are those of its outgoing links.        *)
LEMMA SourceIndexed ==
  ASSUME NEW t \in Tasks, In(t) = {}
  PROVE  wlk_consumer[t] = <<>> /\ Indexed(t) = Out(t)
<1>1. wlk_consumer[t] \in Seq(Links) /\ serve_indices[t] \in Seq(Links)
  BY ParameterAssumption
<1>2. wlk_consumer[t] = <<>>
  <2>1. \A i \in DOMAIN wlk_consumer[t] :
           wlk_consumer[t][i] \in ToSet(wlk_consumer[t])
    BY DEF ToSet
  <2>2. DOMAIN wlk_consumer[t] = {}
    BY <2>1, ParameterAssumption
  <2>3. Len(wlk_consumer[t]) = 0
    <3>1. \A i \in 1 .. Len(wlk_consumer[t]) : i \in DOMAIN wlk_consumer[t]
      BY <1>1
    <3>2. Len(wlk_consumer[t]) \in Nat /\ 1 \notin 1 .. Len(wlk_consumer[t])
      BY <1>1, <2>2, <3>1
    <3> QED BY <3>2
  <2> QED BY <1>1, <2>3, EmptySeq
<1>3. Len(wlk_consumer[t]) + Len(serve_indices[t]) = Len(serve_indices[t])
  BY <1>1, <1>2
<1>4. \A l \in Out(t) : Index[t][l] < Len(serve_indices[t])
  BY <1>3, IndexAssumption
<1> QED BY <1>2, <1>4 DEF Indexed

(* A source runs its puppet once.                                          *)
RunsOnce(t) ==
  In(t) = {} =>
    wlk[t] = <<>> /\ (first[t] \/ pc[t] \in {"done", "loop", "exit"})

(* A task that consumes nothing starts its puppet once.                    *)
LEMMA RunsOnceStep ==
  ASSUME TypeOK, NEW t \in Tasks, Step(t), NEW u \in Tasks, RunsOnce(u)
  PROVE  RunsOnce(u)'
<1> SUFFICES ASSUME In(u) = {}
             PROVE  /\ wlk'[u] = <<>>
                    /\ first'[u] \/ pc'[u] \in {"done", "loop", "exit"}
  BY DEF RunsOnce, In
<1>0. wlk[u] = <<>> /\ (first[u] \/ pc[u] \in {"done", "loop", "exit"})
  BY DEF RunsOnce
<1>1. CASE u # t
  BY <1>0, <1>1, StepFrame, LoopFrame
<1>2. CASE u = t
  <2> USE <1>0, <1>2 DEF TypeOK
  <2>1. CASE OpenFile(t)
    BY <2>1 DEF OpenFile, AtOp
  <2>2. CASE scf_cb(t)
    BY <2>2 DEF scf_cb, AtOp
  <2>3. CASE OpenNamedFile(t)
    BY <2>3 DEF OpenNamedFile
  <2>4. CASE CloseReadFile(t)
    BY <2>4 DEF CloseReadFile
  <2>5. CASE CloseWrittenFile(t)
    BY <2>5 DEF CloseWrittenFile, AtOp
  <2>6. CASE EndServe(t)
    BY <2>6 DEF EndServe
  <2>7. CASE EndFirstRun(t)
    BY <2>7 DEF EndFirstRun, StartProducerDone
  <2>8. CASE EndLaterRun(t)
    BY <2>8 DEF EndLaterRun
  <2>9. CASE EndProducerDone(t)
    BY <2>9 DEF EndProducerDone
  <2>10. CASE NextFile(t)
    BY <2>10 DEF NextFile
  <2>11. CASE NoMoreFiles(t)
    BY <2>11 DEF NoMoreFiles
  <2>12. CASE RestartFor(t)
    BY <2>12 DEF RestartFor
  <2>13. CASE LeaveLoop(t)
    BY <2>13 DEF LeaveLoop, StartProducerDone
  <2> QED
    BY <2>1, <2>2, <2>3, <2>4, <2>5, <2>6, <2>7, <2>8, <2>9, <2>10, <2>11,
       <2>12, <2>13 DEF Step
<1> QED BY <1>1, <1>2

(* What the proofs below need of every state.                              *)
TInv == TypeOK /\ AtHand

FlowInv == TInv /\ \A t \in Tasks : RunsOnce(t)

(* Both come from ExecTask_proofs.                                         *)
LEMMA TInvStep == TInv /\ [Next]_vars => TInv'
<1> SUFFICES ASSUME TInv, [Next]_vars PROVE TInv'
  OBVIOUS
<1>1. CASE \E t \in Tasks : Step(t)
  BY <1>1, TypeStep, AtHandStep DEF TInv
<1>2. CASE UNCHANGED vars
  BY <1>2 DEF vars, TInv, TypeOK, AtHand
<1> QED BY <1>1, <1>2 DEF Next

LEMMA TInvInit == Init => TInv
BY TypeInit DEF Init, TInv, AtHand

(* A step of any task keeps them.                                          *)
LEMMA FlowInvStep == FlowInv /\ [Next]_vars => FlowInv'
<1> SUFFICES ASSUME FlowInv, [Next]_vars PROVE FlowInv'
  OBVIOUS
<1>1. TInv'
  BY TInvStep DEF FlowInv
<1>2. CASE \E t \in Tasks : Step(t)
  BY <1>1, <1>2, RunsOnceStep DEF FlowInv, TInv
<1>3. CASE UNCHANGED vars
  BY <1>1, <1>3 DEF vars, FlowInv, RunsOnce, In
<1> QED BY <1>1, <1>2, <1>3 DEF Next

LEMMA FlowInvInit == Init => FlowInv
BY TInvInit, SourceIndexed DEF Init, FlowInv, RunsOnce

(* The serve a source's file is closed with: over the outgoing links that  *)
(* the callback does not drop.                                             *)
LEMMA SourceServes ==
  ASSUME SourcesLimited, FlowInv, NEW t \in Tasks, CloseWrittenFile(t)
  PROVE  LET n == serve_counter[t] + 1 IN
         /\ pc[t] = "run"
         /\ serve_counter' = [serve_counter EXCEPT ![t] = n]
         /\ UNCHANGED <<at, acked>>
         /\ \E ready \in SUBSET {l \in Out(t) : Asking(l)} :
              StartServe(t, Out(t) \ Skipped(t, n, ready))
<1> DEFINE n == serve_counter[t] + 1
<1>1. pc[t] = "run"
  BY DEF CloseWrittenFile, AtOp
<1>2. PICK ready \in SUBSET {l \in Out(t) : Asking(l)} :
        IF CallbackRaises(t, n, ready)
        THEN /\ pc' = [pc EXCEPT ![t] = "error"]
             /\ UNCHANGED <<serving, sent>>
        ELSE StartServe(t, Served(t, n, ready))
  BY DEF CloseWrittenFile
<1>3. Skipped(t, n, ready) \subseteq Limited(t) /\ Limited(t) \subseteq Out(t)
  BY DEF Skipped, Limited
<1>4. CASE Limited(t) # {}
  <2>1. Indexed(t) = Out(t) /\ first[t]
    BY <1>1, <1>4, SourceIndexed DEF SourcesLimited, FlowInv, RunsOnce
  <2>2. ~CallbackRaises(t, n, ready)
    BY <1>3, <2>1 DEF CallbackRaises
  <2>3. Served(t, n, ready) = Out(t) \ Skipped(t, n, ready)
    BY <1>4, <2>1 DEF Served, FlowControlled
  <2> QED BY <1>1, <1>2, <2>2, <2>3 DEF CloseWrittenFile
<1>5. CASE Limited(t) = {}
  <2>1. ~CallbackRaises(t, n, ready) /\ Served(t, n, ready) = Out(t)
    BY <1>5 DEF CallbackRaises, Served, FlowControlled
  <2>2. Skipped(t, n, ready) = {}
    BY <1>3, <1>5
  <2> QED BY <1>1, <1>2, <2>1, <2>2 DEF CloseWrittenFile
<1> QED BY <1>4, <1>5

-----------------------------------------------------------------------------
(* io_freq.                                                                *)

(* Every p-th of n files.                                                  *)
Multiples(n, p) == [i \in 1 .. (n \div p) |-> i * p]

(* The next multiple of p is appended when the count reaches it.           *)
LEMMA MultiplesNext ==
  ASSUME NEW n \in Nat, NEW p \in Nat \ {0}
  PROVE  Multiples(n + 1, p) = IF (n + 1) % p = 0
                               THEN Append(Multiples(n, p), n + 1)
                               ELSE Multiples(n, p)
<1> DEFINE q == n \div p
<1>1. q \in Nat /\ (n + 1) \div p = (IF (n + 1) % p = 0 THEN q + 1 ELSE q)
  BY CountUp
<1>2. CASE (n + 1) % p = 0
  <2>1. (q + 1) * p = n + 1
    BY <1>2, CountUp
  <2>2. Multiples(n + 1, p) = [i \in 1 .. q + 1 |-> i * p]
    BY <1>1, <1>2 DEF Multiples
  <2> HIDE DEF q
  <2>3. [i \in 1 .. q + 1 |-> i * p] = Append([i \in 1 .. q |-> i * p], n + 1)
    BY <1>1, <2>1
  <2> QED BY <1>2, <2>2, <2>3 DEF Multiples, q
<1>3. CASE (n + 1) % p # 0
  BY <1>1, <1>3 DEF Multiples
<1> QED BY <1>2, <1>3

(* What has been served on a link is what its io_freq asks for.            *)
Honoured(l) ==
  Policy[l] # -1 => sent[l] = Multiples(serve_counter[Prod[l]], Policy[l])

(* The files that are served and their numbers change with a close.        *)
LEMMA SentFrame ==
  ASSUME NEW t \in Tasks, Step(t), ~CloseWrittenFile(t)
  PROVE  UNCHANGED <<sent, serve_counter>>
BY DEF Step, OpenFile, scf_cb, FetchName, FetchNameRaises, OpenNamedFile,
   CloseReadFile, EndServe, EndFirstRun, EndLaterRun, EndProducerDone,
   NextFile, NoMoreFiles, RestartFor, LeaveLoop

(* A close serves the file if it is due, and nothing else counts or        *)
(* serves.                                                                 *)
LEMMA HonouredStep ==
  ASSUME SourcesLimited, FlowInv, NEW t \in Tasks, CloseWrittenFile(t),
         NEW l \in Links, Honoured(l)
  PROVE  Honoured(l)'
<1> SUFFICES ASSUME Policy[l] # -1
             PROVE  sent'[l] = Multiples(serve_counter'[Prod[l]], Policy[l])
  BY DEF Honoured
<1> DEFINE n == serve_counter[t]
           p == Policy[l]
<1>1. n \in Nat /\ p \in Nat \ {0} /\ Prod[l] \in Tasks
  BY LinkAssumption DEF FlowInv, TInv, TypeOK
<1>2. PICK ready : /\ serve_counter' = [serve_counter EXCEPT ![t] = n + 1]
                   /\ StartServe(t, Out(t) \ Skipped(t, n + 1, ready))
  BY SourceServes
<1>3. sent[l] = Multiples(serve_counter[Prod[l]], p)
  BY DEF Honoured
<1>4. CASE Prod[l] # t
  <2>1. serve_counter'[Prod[l]] = serve_counter[Prod[l]]
    BY <1>1, <1>2, <1>4 DEF FlowInv, TInv, TypeOK
  <2>2. sent'[l] = sent[l]
    BY <1>2, <1>4 DEF StartServe
  <2> QED BY <1>3, <2>1, <2>2
<1>5. CASE Prod[l] = t
  <2>1. serve_counter'[t] = n + 1
    BY <1>2 DEF FlowInv, TInv, TypeOK
  <2>2. l \in Skipped(t, n + 1, ready) <=> (n + 1) % p # 0
    <3>1. p = 1 => (n + 1) % p = 0
      BY <1>1
    <3>2. l \in Limited(t) <=> p # 1
      BY <1>5 DEF Limited, Out
    <3> QED BY <3>1, <3>2 DEF Skipped
  <2>3. l \in Out(t)
    BY <1>5 DEF Out
  <2>4. sent'[l] = IF (n + 1) % p = 0 THEN Append(sent[l], n + 1) ELSE sent[l]
    BY <1>2, <1>5, <2>1, <2>2, <2>3 DEF StartServe
  <2> HIDE DEF n, p
  <2> QED BY <1>1, <1>3, <1>5, <2>1, <2>4, MultiplesNext DEF n, p
<1> QED BY <1>4, <1>5

(* The n-th, 2n-th, ... file a producer closes is served on a link with    *)
(* io_freq n and every file on one without, and no other file is.  (Run    *)
(* pipelineFlow: a limited link of a task that consumes, too, stops it.)   *)
THEOREM PolicyHonouredCorrect ==
  ASSUME SourcesLimited
  PROVE  Spec => []PolicyHonoured
<1> DEFINE HInv == FlowInv /\ \A l \in Links : Honoured(l)
<1>1. HInv => PolicyHonoured
  BY DEF PolicyHonoured, Honoured, Multiples
<1>2. Init => HInv
  <2> SUFFICES ASSUME Init, NEW l \in Links, Policy[l] # -1
               PROVE  sent[l] = Multiples(serve_counter[Prod[l]], Policy[l])
    BY FlowInvInit DEF Honoured
  <2>1. serve_counter[Prod[l]] = 0 /\ sent[l] = <<>> /\ Policy[l] \in Nat \ {0}
    BY LinkAssumption DEF Init
  <2>2. 0 \div Policy[l] = 0
    BY <2>1, ZeroQuotient
  <2> QED BY <2>1, <2>2 DEF Multiples
<1>3. HInv /\ [Next]_vars => HInv'
  <2> SUFFICES ASSUME HInv, [Next]_vars PROVE HInv'
    OBVIOUS
  <2>1. FlowInv'
    BY FlowInvStep
  <2>2. ASSUME NEW l \in Links PROVE Honoured(l)'
    <3>1. CASE UNCHANGED <<sent, serve_counter>>
      BY <3>1 DEF Honoured
    <3>2. CASE \E t \in Tasks : CloseWrittenFile(t)
      BY <3>2, HonouredStep
    <3> QED BY <3>1, <3>2, SentFrame DEF Next, vars
  <2> QED BY <2>1, <2>2
<1> QED BY <1>1, <1>2, <1>3, PTL DEF Spec

-----------------------------------------------------------------------------
(* The policy "latest".                                                    *)

(* Only the producer takes back a done.                                    *)
LEMMA AckedTaken ==
  ASSUME NEW t \in Tasks, Step(t), NEW l \in acked, l \notin acked'
  PROVE  t = Prod[l]
<1>1. (EndServe(t) \/ EndProducerDone(t)) /\ l \in serving[t]
  BY DEF Step, OpenFile, scf_cb, FetchName, FetchNameRaises, OpenNamedFile,
     CloseReadFile, CloseWrittenFile, EndServe, EndFirstRun, EndLaterRun,
     EndProducerDone, NextFile, NoMoreFiles, RestartFor, LeaveLoop
<1> QED BY <1>1 DEF EndServe, EndProducerDone, AllDone, Out

(* Only closing a file makes one unopened.                                 *)
LEMMA ClosedUnopened ==
  ASSUME TInv, NEW t \in Tasks, Step(t), NEW l \in Links,
         ~Unopened(l), Unopened(l)'
  PROVE  t = Prod[l] /\ CloseWrittenFile(t)
<1> DEFINE u == Prod[l]
           c == Con[l]
<1> USE DEF TInv, TypeOK
<1>0. u \in Tasks /\ c \in Tasks
  BY LinkAssumption
<1>1. /\ pc'[u] = "serve" /\ l \in serving'[u] /\ l \notin acked'
      /\ ~(pc'[c] = "reading" /\ at'[c] = l)
  BY DEF Unopened
<1>2. CASE t # u
  <2>1. pc[u] = "serve" /\ l \in serving[u] /\ l \notin acked
    BY <1>0, <1>1, <1>2, StepFrame, AckedTaken
  <2>2. pc[c] = "reading" /\ at[c] = l
    BY <2>1 DEF Unopened
  <2>3. t = c
    BY <1>0, <1>1, <2>2, StepFrame
  <2>4. CloseReadFile(t)
    BY <2>2, <2>3 DEF Step, OpenFile, scf_cb, OpenNamedFile, CloseWrittenFile,
       EndServe, EndFirstRun, EndLaterRun, EndProducerDone, NextFile,
       NoMoreFiles, RestartFor, LeaveLoop, AtOp
  <2> QED BY <1>1, <2>2, <2>3, <2>4 DEF CloseReadFile
<1>3. CASE t = u
  <2> USE <1>0, <1>1, <1>3
  <2> HIDE DEF u
  <2>1. CASE OpenFile(t)
    BY <2>1 DEF OpenFile
  <2>2. CASE scf_cb(t)
    BY <2>2 DEF scf_cb, FetchName, FetchNameRaises
  <2>3. CASE OpenNamedFile(t)
    BY <2>3 DEF OpenNamedFile
  <2>4. CASE CloseReadFile(t)
    BY <2>4 DEF CloseReadFile
  <2>5. CASE EndServe(t)
    BY <2>5 DEF EndServe
  <2>6. CASE EndFirstRun(t)
    BY <2>6 DEF EndFirstRun, StartProducerDone
  <2>7. CASE EndLaterRun(t)
    BY <2>7 DEF EndLaterRun
  <2>8. CASE EndProducerDone(t)
    BY <2>8 DEF EndProducerDone
  <2>9. CASE NextFile(t)
    BY <2>9 DEF NextFile
  <2>10. CASE NoMoreFiles(t)
    BY <2>10 DEF NoMoreFiles
  <2>11. CASE RestartFor(t)
    BY <2>11 DEF RestartFor
  <2>12. CASE LeaveLoop(t)
    BY <2>12 DEF LeaveLoop, StartProducerDone
  <2> QED
    BY <2>1, <2>2, <2>3, <2>4, <2>5, <2>6, <2>7, <2>8, <2>9, <2>10, <2>11,
       <2>12 DEF Step, u
<1> QED BY <1>2, <1>3

(* A step that serves a link finds its consumer at a call that opens a     *)
(* file.                                                                   *)
LEMMA LatestStep ==
  ASSUME SourcesLimited, FlowInv, [Next]_vars, NEW l \in Links,
         Policy[l] = -1, ~Unopened(l), Unopened(l)'
  PROVE  \E k \in Limited(Prod[l]) :
            /\ Policy[k] = -1 /\ Index[Prod[l]][k] <= Index[Prod[l]][l]
            /\ Asking(k)
<1> DEFINE t == Prod[l]
           n == serve_counter[t] + 1
<1>1. t \in Tasks
  BY LinkAssumption
<1>2. CloseWrittenFile(t)
  <2>1. CASE \E u \in Tasks : Step(u)
    BY <2>1, ClosedUnopened DEF FlowInv
  <2>2. CASE UNCHANGED vars
    BY <2>2 DEF vars, Unopened
  <2> QED BY <2>1, <2>2 DEF Next
<1>3. PICK ready \in SUBSET {k \in Out(t) : Asking(k)} :
        StartServe(t, Out(t) \ Skipped(t, n, ready))
  BY <1>1, <1>2, SourceServes
<1>4. l \in serving'[t]
  BY DEF Unopened
<1>5. l \notin Skipped(t, n, ready)
  BY <1>1, <1>3, <1>4 DEF StartServe, FlowInv, TInv, TypeOK
<1>6. l \in Limited(t)
  BY DEF Limited, Out
<1> QED BY <1>5, <1>6, <1>3 DEF Skipped

(* A file is served on a link with the policy "latest" only when the       *)
(* consumer of this link, or of a "latest" link of the task before it, is  *)
(* at a call that opens a file.                                            *)
THEOREM LatestServedOnlyWhenAskedCorrect ==
  ASSUME SourcesLimited
  PROVE  Spec => LatestServedOnlyWhenAsked
<1>1. FlowInv /\ [Next]_vars => [ServedWhenAsked]_vars
  BY LatestStep DEF ServedWhenAsked
<1> QED
  BY <1>1, FlowInvInit, FlowInvStep, PTL DEF Spec, LatestServedOnlyWhenAsked

-----------------------------------------------------------------------------
(* Where no puppet asks Wilkins for the name of its next file, exec_task   *)
(* raises no exception: those of scf_cb are the only others.               *)
THEOREM NoExceptionCorrect ==
  ASSUME SourcesLimited,
         \A t \in Tasks : \A i \in DOMAIN Script[t] :
           Script[t][i].op # "readNext"
  PROVE  Spec => []NoException
<1> DEFINE EInv == FlowInv /\ NoException
<1>1. Init => EInv
  BY FlowInvInit DEF Init, NoException
<1>2. EInv /\ [Next]_vars => EInv'
  <2> SUFFICES ASSUME EInv, [Next]_vars PROVE EInv'
    OBVIOUS
  <2> USE DEF FlowInv, TInv, TypeOK, NoException
  <2>1. ASSUME NEW t \in Tasks, Step(t)
        PROVE  pc'[t] # "error"
    <3>1. CASE OpenFile(t)
      BY <3>1 DEF OpenFile
    <3>2. CASE scf_cb(t)
      <4>1. pos[t] \in DOMAIN Script[t] /\ Script[t][pos[t]].op = "readNext"
        BY <3>2, ScriptAssumption DEF scf_cb, AtOp, RangeOver, NextOp
      <4> QED BY <4>1
    <3>3. CASE OpenNamedFile(t)
      BY <3>3 DEF OpenNamedFile
    <3>4. CASE CloseReadFile(t)
      BY <3>4 DEF CloseReadFile
    <3>5. CASE CloseWrittenFile(t)
      BY <3>5, SourceServes DEF StartServe
    <3>6. CASE EndServe(t)
      BY <3>6 DEF EndServe
    <3>7. CASE EndFirstRun(t)
      BY <3>7 DEF EndFirstRun, StartProducerDone
    <3>8. CASE EndLaterRun(t)
      BY <3>8 DEF EndLaterRun
    <3>9. CASE EndProducerDone(t)
      BY <3>9 DEF EndProducerDone
    <3>10. CASE NextFile(t)
      BY <3>10 DEF NextFile
    <3>11. CASE NoMoreFiles(t)
      BY <3>11 DEF NoMoreFiles
    <3>12. CASE RestartFor(t)
      BY <3>12 DEF RestartFor
    <3>13. CASE LeaveLoop(t)
      BY <3>13 DEF LeaveLoop, StartProducerDone
    <3> QED
      BY <2>1, <3>1, <3>2, <3>3, <3>4, <3>5, <3>6, <3>7, <3>8, <3>9, <3>10,
         <3>11, <3>12, <3>13 DEF Step
  <2>2. CASE \E t \in Tasks : Step(t)
    BY <2>1, <2>2, StepFrame, FlowInvStep
  <2>3. CASE UNCHANGED vars
    BY <2>3, FlowInvStep DEF vars
  <2> QED BY <2>2, <2>3 DEF Next
<1> QED BY <1>1, <1>2, PTL DEF Spec

-----------------------------------------------------------------------------
(* The first incoming link of a task has an earlier position than the      *)
(* first outgoing one if it has several of both, a later one if it has one *)
(* of each: exec_task does not issue producer_done before its loop.        *)
LoopsFirst(t) ==
  LET out == serve_indices[t]
      in  == wlk_consumer[t]
  IN /\ Len(out) = 1 /\ Len(in) = 1 => ~(Index[t][out[1]] > Index[t][in[1]])
     /\ Len(out) > 1 /\ Len(in) > 1 => ~(Index[t][out[1]] < Index[t][in[1]])

(* After producer_done a task does not run its puppet.                     *)
DoneLast(t) ==
  /\ first[t] => /\ wlk[t] = wlk_consumer[t]
                 /\ pc[t] \notin {"loop", "done", "exit"}
  /\ prod_done[t] \/ pc[t] = "done" =>
       wlk[t] = <<>> /\ pc[t] \in {"done", "loop", "exit"}

(* Only the end of the loop leads to producer_done, and nothing follows.   *)
LEMMA DoneLastStep ==
  ASSUME TypeOK, NEW t \in Tasks, Step(t),
         NEW u \in Tasks, LoopsFirst(u), DoneLast(u)
  PROVE  DoneLast(u)'
<1>1. CASE u # t
  BY <1>1, StepFrame, LoopFrame DEF DoneLast
<1>2. CASE u = t
  <2> USE <1>2 DEF TypeOK, DoneLast
  <2>1. CASE OpenFile(t)
    BY <2>1 DEF OpenFile, AtOp
  <2>2. CASE scf_cb(t)
    BY <2>2 DEF scf_cb, FetchName, FetchNameRaises, AtOp
  <2>3. CASE OpenNamedFile(t)
    BY <2>3 DEF OpenNamedFile
  <2>4. CASE CloseReadFile(t)
    BY <2>4 DEF CloseReadFile
  <2>5. CASE CloseWrittenFile(t)
    BY <2>5, CloseWrittenCases DEF CloseWrittenFile, StartServe
  <2>6. CASE EndServe(t)
    BY <2>6 DEF EndServe
  <2>7. CASE EndFirstRun(t)
    <3>1. first[t] => ~ProdFirst(t)
      BY DEF ProdFirst, LoopsFirst
    <3> QED BY <2>7, <3>1 DEF EndFirstRun, StartProducerDone
  <2>8. CASE EndLaterRun(t)
    BY <2>8 DEF EndLaterRun
  <2>9. CASE EndProducerDone(t)
    BY <2>9 DEF EndProducerDone
  <2>10. CASE NextFile(t)
    BY <2>10 DEF NextFile
  <2>11. CASE NoMoreFiles(t)
    BY <2>11 DEF NoMoreFiles
  <2>12. CASE RestartFor(t)
    BY <2>12 DEF RestartFor
  <2>13. CASE LeaveLoop(t)
    BY <2>13 DEF LeaveLoop, StartProducerDone
  <2> QED
    BY <2>1, <2>2, <2>3, <2>4, <2>5, <2>6, <2>7, <2>8, <2>9, <2>10, <2>11,
       <2>12, <2>13 DEF Step
<1> QED BY <1>1, <1>2

(* If no task issues producer_done before its loop, none serves a file     *)
(* after it.  (Run pipeline: otherwise a task may.)                        *)
THEOREM NothingServedAfterDoneCorrect ==
  ASSUME \A t \in Tasks : LoopsFirst(t)
  PROVE  Spec => []NothingServedAfterDone
<1> DEFINE DInv == TInv /\ \A t \in Tasks : DoneLast(t)
<1>1. DInv => NothingServedAfterDone
  BY DEF DoneLast, NothingServedAfterDone
<1>2. Init => DInv
  BY TInvInit DEF Init, DoneLast
<1>3. DInv /\ [Next]_vars => DInv'
  <2> SUFFICES ASSUME DInv, [Next]_vars PROVE DInv'
    OBVIOUS
  <2>1. TInv'
    BY TInvStep
  <2>2. CASE \E t \in Tasks : Step(t)
    BY <2>1, <2>2, DoneLastStep DEF TInv
  <2>3. CASE UNCHANGED vars
    BY <2>1, <2>3 DEF vars, DoneLast
  <2> QED BY <2>2, <2>3 DEF Next
<1> QED BY <1>1, <1>2, <1>3, PTL DEF Spec

-----------------------------------------------------------------------------
(* Cycles.  A task of a cycle issues producer_done before its loop; it does *)
(* not run again after that if it has already read, in its first run, all  *)
(* that its producers write in theirs.                                     *)
Writes(t) == {m \in DOMAIN Script[t] : Script[t][m].op = "write"}
Reads(l)  == {m \in DOMAIN Script[Con[l]] :
                Script[Con[l]][m].op = "read" /\ Script[Con[l]][m].link = l}

ReadInFirstRun(T) ==
  \A l \in Links : Con[l] \in T =>
    /\ Prod[l] \in T
    /\ Cardinality(Writes(Prod[l])) <= Cardinality(Reads(l))

(* How many of the operations in M a puppet has come to at its n-th.       *)
Tally(M, n) == Cardinality(M \cap (1 .. n))

(* Such a task runs once, and only its first run writes.                   *)
OneRun(t) ==
  /\ first[t] <=> pc[t] \notin {"loop", "done", "exit"}
  /\ prod_done[t] => ~first[t]
  /\ pc[t] = "serve" => pos[t] \in Writes(t)
  /\ serve_counter[t] =
       IF first[t] THEN Tally(Writes(t), IF pc[t] \in {"serve", "error"}
                                         THEN pos[t] ELSE pos[t] - 1)
                   ELSE Cardinality(Writes(t))

(* It has opened as many files on a link as its puppet says.               *)
HasRead(l) ==
  LET t == Con[l] IN
  /\ pc[t] = "named" => pos[t] \notin Reads(l)
  /\ first[t] => Len(got[l]) >= Tally(Reads(l), IF pc[t] = "reading"
                                                THEN pos[t] ELSE pos[t] - 1)
  /\ ~first[t] => Len(got[l]) >= Cardinality(Reads(l))

(* No more files are served on a link than its producer has closed.        *)
SentClosed(l) == Len(sent[l]) <= serve_counter[Prod[l]]

(* Counting.                                                               *)
LEMMA TallyNext ==
  ASSUME NEW M, NEW n \in Nat
  PROVE  /\ Tally(M, n) \in Nat
         /\ Tally(M, n + 1) = IF n + 1 \in M THEN Tally(M, n) + 1
                                             ELSE Tally(M, n)
<1> DEFINE A == M \cap (1 .. n)
<1>1. IsFiniteSet(A)
  <2>1. IsFiniteSet(1 .. n) /\ A \in SUBSET (1 .. n)
    BY FS_Interval
  <2> QED BY <2>1, FS_Subset
<1>2. Cardinality(A) \in Nat
  BY <1>1, FS_CardinalityType
<1>3. CASE n + 1 \in M
  <2>1. M \cap (1 .. n + 1) = A \cup {n + 1} /\ n + 1 \notin A
    BY <1>3
  <2>2. Cardinality(A \cup {n + 1}) = Cardinality(A) + 1
    BY <1>1, <2>1, FS_AddElement
  <2> QED BY <1>2, <1>3, <2>1, <2>2 DEF Tally
<1>4. CASE n + 1 \notin M
  <2>1. M \cap (1 .. n + 1) = A
    BY <1>4
  <2> QED BY <1>2, <1>4, <2>1 DEF Tally
<1> QED BY <1>3, <1>4

(* A count is at most the whole, and the whole once all are passed.        *)
LEMMA TallyAll ==
  ASSUME NEW k \in Nat, NEW M \in SUBSET (1 .. k), NEW n \in Nat
  PROVE  /\ Cardinality(M) \in Nat
         /\ Tally(M, n) <= Cardinality(M)
         /\ n >= k => Tally(M, n) = Cardinality(M)
<1>1. IsFiniteSet(M)
  <2>1. IsFiniteSet(1 .. k)
    BY FS_Interval
  <2> QED BY <2>1, FS_Subset
<1>2. M \cap (1 .. n) \in SUBSET M
  OBVIOUS
<1>3. ASSUME n >= k PROVE M \cap (1 .. n) = M
  <2>1. \A m \in 1 .. k : m \in 1 .. n
    BY <1>3
  <2> QED BY <2>1
<1>4. Cardinality(M \cap (1 .. n)) <= Cardinality(M)
  BY <1>1, <1>2, FS_Subset
<1>5. Cardinality(M) \in Nat
  BY <1>1, FS_CardinalityType
<1> QED BY <1>3, <1>4, <1>5 DEF Tally

(* The operations a task is counted by are those of its puppet.            *)
LEMMA CountedOps ==
  ASSUME NEW t \in Tasks
  PROVE  /\ Len(Script[t]) \in Nat
         /\ Writes(t) \in SUBSET (1 .. Len(Script[t]))
         /\ \A l \in Links : Con[l] = t =>
               Reads(l) \in SUBSET (1 .. Len(Script[t]))
<1>1. Script[t] \in Seq(Ops)
  BY ScriptAssumption
<1> QED BY <1>1 DEF Writes, Reads

(* The operation a puppet is at.                                           *)
LEMMA OpCounted ==
  ASSUME TypeOK, NEW t \in Tasks, ~RangeOver(t)
  PROVE  /\ pos[t] \in Writes(t) <=> NextOp(t).op = "write"
         /\ \A l \in Links : Con[l] = t =>
              (pos[t] \in Reads(l) <=> /\ NextOp(t).op = "read"
                                       /\ NextOp(t).link = l)
<1>1. /\ Script[t] \in Seq(Ops)
      /\ pos[t] \in Nat \ {0} /\ pos[t] <= Len(Script[t])
  BY ScriptAssumption DEF TypeOK, RangeOver
<1>2. pos[t] \in DOMAIN Script[t]
  BY <1>1
<1> QED BY <1>2 DEF Writes, Reads, NextOp

(* Every step but a second run keeps OneRun.                               *)
LEMMA OneRunStep ==
  ASSUME TypeOK, AtOpening, NEW t \in Tasks, Step(t), NEW u \in Tasks,
         OneRun(u), ~(u = t /\ NextFile(t))
  PROVE  OneRun(u)'
<1>1. CASE u # t
  BY <1>1, StepFrame, LoopFrame DEF OneRun
<1>2. CASE u = t
  <2> USE <1>2
  <2> DEFINE W == Writes(t)
             n == pos[t] - 1
  <2>1. /\ n \in Nat /\ pos[t] = n + 1 /\ serve_counter[t] \in Nat
        /\ pc[t] \in PcValues
        /\ first[t] \in BOOLEAN /\ prod_done[t] \in BOOLEAN
    BY DEF TypeOK
  <2>2. /\ Tally(W, n) \in Nat /\ Tally(W, n + 1) \in Nat
        /\ Tally(W, n + 1) = IF n + 1 \in W THEN Tally(W, n) + 1
                                            ELSE Tally(W, n)
        /\ RangeOver(t) => Tally(W, n) = Cardinality(W)
        /\ Cardinality(W) \in Nat
    <3>1. Len(Script[t]) \in Nat /\ W \in SUBSET (1 .. Len(Script[t]))
      BY CountedOps
    <3>2. n + 1 \in Nat /\ (RangeOver(t) => n >= Len(Script[t]))
      BY <2>1, <3>1 DEF RangeOver
    <3> HIDE DEF W, n
    <3> QED BY <2>1, <3>1, <3>2, TallyNext, TallyAll
  <2>3. /\ first[t] <=> pc[t] \notin {"loop", "done", "exit"}
        /\ prod_done[t] => ~first[t]
        /\ pc[t] = "serve" => n + 1 \in W
        /\ serve_counter[t] =
             IF first[t]
             THEN Tally(W, IF pc[t] \in {"serve", "error"} THEN n + 1 ELSE n)
             ELSE Cardinality(W)
    BY <2>1 DEF OneRun
  <2> HIDE DEF W, n
  <2>4. SUFFICES
          /\ first'[t] <=> pc'[t] \notin {"loop", "done", "exit"}
          /\ prod_done'[t] => ~first'[t]
          /\ pc'[t] = "serve" => pos'[t] \in W
          /\ serve_counter'[t] =
               IF first'[t]
               THEN Tally(W, IF pc'[t] \in {"serve", "error"}
                             THEN pos'[t] ELSE pos'[t] - 1)
               ELSE Cardinality(W)
    BY DEF OneRun, W, Writes, Tally
  <2> USE <2>1, <2>2, <2>3 DEF TypeOK
  <2>5. CASE OpenFile(t)
    BY <2>5 DEF OpenFile, AtOp
  <2>6. CASE scf_cb(t)
    <3>1. n + 1 \notin W
      BY <2>6, OpCounted DEF scf_cb, AtOp, W
    <3> QED BY <2>6, <3>1 DEF scf_cb, FetchName, FetchNameRaises, AtOp
  <2>7. CASE OpenNamedFile(t)
    BY <2>7 DEF OpenNamedFile
  <2>8. CASE CloseReadFile(t)
    <3>1. n + 1 \notin W
      BY <2>8, OpCounted DEF CloseReadFile, AtOpening, W
    <3> QED BY <2>8, <3>1 DEF CloseReadFile
  <2>9. CASE CloseWrittenFile(t)
    <3>1. pos[t] \in W
      BY <2>9, OpCounted DEF CloseWrittenFile, AtOp, W
    <3>2. serve_counter'[t] = serve_counter[t] + 1 /\ pc[t] = "run"
          /\ pc'[t] \in {"serve", "error"}
      BY <2>9, CloseWrittenCases DEF StartServe
    <3>3. /\ pos'[t] = pos[t] /\ first'[t] = first[t]
          /\ prod_done'[t] = prod_done[t]
      BY <2>9 DEF CloseWrittenFile
    <3> QED BY <3>1, <3>2, <3>3
  <2>10. CASE EndServe(t)
    BY <2>10 DEF EndServe
  <2>11. CASE EndFirstRun(t)
    BY <2>11 DEF EndFirstRun, StartProducerDone
  <2>12. CASE EndLaterRun(t)
    BY <2>12 DEF EndLaterRun
  <2>13. CASE EndProducerDone(t)
    BY <2>13 DEF EndProducerDone
  <2>14. CASE NoMoreFiles(t)
    BY <2>14 DEF NoMoreFiles
  <2>15. CASE RestartFor(t)
    BY <2>15 DEF RestartFor
  <2>16. CASE LeaveLoop(t)
    BY <2>16 DEF LeaveLoop, StartProducerDone
  <2> QED
    BY <2>5, <2>6, <2>7, <2>8, <2>9, <2>10, <2>11, <2>12, <2>13, <2>14, <2>15,
       <2>16 DEF Step
<1> QED BY <1>1, <1>2

(* A step that opens a file on a link, and every other step.               *)
LEMMA GotCases ==
  ASSUME TypeOK, AtHand, OpenServed, NEW t \in Tasks, Step(t), NEW l \in Links
  PROVE  \/ got'[l] = got[l]
         \/ /\ Con[l] = t /\ Len(got'[l]) = Len(got[l]) + 1
<1> SUFFICES ASSUME got'[l] # got[l]
             PROVE  Con[l] = t /\ Len(got'[l]) = Len(got[l]) + 1
  OBVIOUS
<1> USE DEF TypeOK
<1>1. OpenFile(t) \/ OpenNamedFile(t)
  BY DEF Step, scf_cb, CloseReadFile, CloseWrittenFile, EndServe, EndFirstRun,
     EndLaterRun, EndProducerDone, NextFile, NoMoreFiles, RestartFor, LeaveLoop
<1>2. PICK k \in Links, v \in Nat :
        Con[k] = t /\ got' = [got EXCEPT ![k] = Append(@, v)]
  <2>1. CASE OpenFile(t)
    BY <2>1, ReadLink, LinkAssumption DEF OpenFile
  <2>2. CASE OpenNamedFile(t)
    BY <2>2, LinkAssumption DEF OpenNamedFile, OpenServed, FileAtHand
  <2> QED BY <1>1, <2>1, <2>2
<1>3. k = l
  BY <1>2
<1>4. got[l] \in Seq(Nat) /\ got'[l] = Append(got[l], v)
  BY <1>2, <1>3
<1>5. Len(got'[l]) = Len(got[l]) + 1
  BY <1>2, <1>4, AppendProperties
<1> QED BY <1>2, <1>3, <1>5

(* It never closes more files than its puppet writes, and has closed them   *)
(* all once it issues producer_done.                                       *)
LEMMA ClosedFiles ==
  ASSUME TypeOK, NEW t \in Tasks, OneRun(t)
  PROVE  /\ Cardinality(Writes(t)) \in Nat
         /\ serve_counter[t] <= Cardinality(Writes(t))
         /\ pc[t] = "done" => serve_counter[t] = Cardinality(Writes(t))
<1>1. Len(Script[t]) \in Nat /\ Writes(t) \in SUBSET (1 .. Len(Script[t]))
  BY CountedOps
<1>2. /\ Cardinality(Writes(t)) \in Nat
      /\ \A n \in Nat : Tally(Writes(t), n) <= Cardinality(Writes(t))
  BY <1>1, TallyAll, 0 \in Nat
<1>3. pos[t] \in Nat /\ pos[t] - 1 \in Nat
  BY DEF TypeOK
<1> QED BY <1>2, <1>3 DEF OneRun

(* Every step but a second run keeps HasRead.                              *)
LEMMA HasReadStep ==
  ASSUME IInv, NEW t \in Tasks, Step(t), NEW l \in Links,
         OneRun(Con[l]), HasRead(l), ~(Con[l] = t /\ NextFile(t))
  PROVE  HasRead(l)'
<1> DEFINE u == Con[l]
           R == Reads(l)
           n == pos[u] - 1
<1>0. /\ TypeOK /\ u \in Tasks /\ n \in Nat /\ pos[u] = n + 1
      /\ got[l] \in Seq(Nat) /\ Len(got[l]) \in Nat
      /\ first[u] \in BOOLEAN
  <2>1. TypeOK
    BY DEF IInv
  <2>2. u \in Tasks
    BY LinkAssumption
  <2>3. pos[u] \in Nat \ {0} /\ got[l] \in Seq(Nat) /\ first[u] \in BOOLEAN
    BY <2>1, <2>2 DEF TypeOK
  <2> QED BY <2>1, <2>2, <2>3
<1>1. \/ got'[l] = got[l]
      \/ u = t /\ Len(got'[l]) = Len(got[l]) + 1
  BY <1>0, GotCases DEF IInv, Handshake
<1>2. CASE u # t
  BY <1>0, <1>1, <1>2, StepFrame, LoopFrame DEF HasRead
<1>3. CASE u = t
  <2>1. /\ Tally(R, n) \in Nat /\ Tally(R, n + 1) \in Nat
        /\ Tally(R, n + 1) = IF n + 1 \in R THEN Tally(R, n) + 1
                                            ELSE Tally(R, n)
        /\ Cardinality(R) \in Nat
        /\ RangeOver(t) => Tally(R, n) = Cardinality(R)
    <3>1. Len(Script[u]) \in Nat /\ R \in SUBSET (1 .. Len(Script[u]))
      BY <1>0, CountedOps
    <3>2. RangeOver(t) => n >= Len(Script[u])
      BY <1>0, <1>3, <3>1 DEF RangeOver
    <3> HIDE DEF R, n, u
    <3>3. n + 1 \in Nat
      BY <1>0
    <3> QED BY <1>0, <3>1, <3>2, <3>3, TallyNext, TallyAll
  <2>2. /\ pc[u] = "named" => n + 1 \notin R
        /\ first[u] => Len(got[l]) >= Tally(R, IF pc[u] = "reading"
                                               THEN n + 1 ELSE n)
        /\ ~first[u] => Len(got[l]) >= Cardinality(R)
    BY <1>0 DEF HasRead
  <2>3. ~RangeOver(t) => /\ n + 1 \in Writes(t) <=> NextOp(t).op = "write"
                         /\ n + 1 \in R <=> /\ NextOp(t).op = "read"
                                            /\ NextOp(t).link = l
    BY <1>0, <1>3, OpCounted
  <2>4. /\ first[t] <=> pc[t] \notin {"loop", "done", "exit"}
        /\ pc[t] = "serve" => n + 1 \in Writes(t)
    BY <1>0, <1>3 DEF OneRun
  <2>5. pc[t] = "serve" => n + 1 \notin R
    <3>1. \A m \in R : m \notin Writes(t)
      BY <1>3 DEF Writes, Reads
    <3> QED BY <2>4, <3>1
  <2>6. \/ got'[l] = got[l] \/ Len(got'[l]) = Len(got[l]) + 1
    BY <1>1
  <2>10. SUFFICES
          /\ pc'[t] = "named" => pos'[t] \notin R
          /\ first'[t] => Len(got'[l]) >=
               Tally(R, IF pc'[t] = "reading" THEN pos'[t] ELSE pos'[t] - 1)
          /\ ~first'[t] => Len(got'[l]) >= Cardinality(R)
    BY <1>3 DEF HasRead, R, Reads, Tally
  <2>7. /\ pc \in [Tasks -> PcValues] /\ pos \in [Tasks -> Nat \ {0}]
        /\ first \in [Tasks -> BOOLEAN] /\ t \in Tasks
        /\ Len(got[l]) \in Nat /\ pos[t] = n + 1 /\ n \in Nat
    BY <1>0, <1>3 DEF TypeOK
  <2>8. Len(got'[l]) \in Nat /\ Len(got'[l]) >= Len(got[l])
    BY <1>0, <2>6
  <2>9. /\ pc[t] = "named" => n + 1 \notin R
        /\ first[t] => Len(got[l]) >= Tally(R, IF pc[t] = "reading"
                                               THEN n + 1 ELSE n)
        /\ ~first[t] => Len(got[l]) >= Cardinality(R)
    BY <1>3, <2>2
  <2> HIDE DEF R, n, u
  <2> USE <2>1, <2>7, <2>8, <2>9
  <2>11. CASE OpenFile(t)
    <3>1. /\ pc' = [pc EXCEPT ![t] = "reading"] /\ pos' = pos
          /\ first' = first /\ pc[t] = "run" /\ ~RangeOver(t)
      BY <2>11 DEF OpenFile, AtOp
    <3>2. CASE n + 1 \notin R
      BY <3>1, <3>2
    <3>3. CASE n + 1 \in R
      <4>1. NextOp(t).link = l
        BY <2>3, <3>1, <3>3
      <4>2. got' = [got EXCEPT ![l] = Append(@, serve_counter[Prod[l]])]
        BY <2>11, <4>1 DEF OpenFile
      <4>3. Len(got'[l]) = Len(got[l]) + 1
        BY <1>0, <4>2, LinkAssumption, AppendProperties DEF TypeOK
      <4> QED BY <2>4, <3>1, <3>3, <4>3
    <3> QED BY <3>2, <3>3
  <2>12. CASE scf_cb(t)
    <3>1. /\ pc'[t] \in {"named", "error"} /\ pos' = pos /\ first' = first
          /\ pc[t] = "run" /\ ~RangeOver(t) /\ NextOp(t).op = "readNext"
      BY <2>12 DEF scf_cb, FetchName, FetchNameRaises, AtOp
    <3> QED BY <2>3, <3>1
  <2>13. CASE OpenNamedFile(t)
    BY <2>13 DEF OpenNamedFile
  <2>14. CASE CloseReadFile(t)
    BY <2>14 DEF CloseReadFile
  <2>15. CASE CloseWrittenFile(t)
    <3>1. /\ pc[t] = "run" /\ pc'[t] \in {"serve", "error"}
          /\ pos' = pos /\ first' = first
      BY <2>15, CloseWrittenCases DEF CloseWrittenFile, StartServe
    <3> QED BY <3>1
  <2>16. CASE EndServe(t)
    BY <2>5, <2>16 DEF EndServe
  <2>17. CASE EndFirstRun(t)
    BY <2>4, <2>17 DEF EndFirstRun, StartProducerDone
  <2>18. CASE EndLaterRun(t)
    BY <2>4, <2>18 DEF EndLaterRun
  <2>19. CASE EndProducerDone(t)
    BY <2>4, <2>19 DEF EndProducerDone
  <2>20. CASE NoMoreFiles(t)
    BY <2>4, <2>20 DEF NoMoreFiles
  <2>21. CASE RestartFor(t)
    BY <2>4, <2>21 DEF RestartFor
  <2>22. CASE LeaveLoop(t)
    BY <2>4, <2>22 DEF LeaveLoop, StartProducerDone
  <2>23. ~NextFile(t)
    BY <1>3 DEF u
  <2> QED
    BY <2>11, <2>12, <2>13, <2>14, <2>15, <2>16, <2>17, <2>18, <2>19, <2>20,
       <2>21, <2>22, <2>23 DEF Step
<1> QED BY <1>2, <1>3

(* A file is closed before it is served.                                   *)
LEMMA SentClosedStep ==
  ASSUME TypeOK, NEW t \in Tasks, Step(t), NEW l \in Links, SentClosed(l)
  PROVE  SentClosed(l)'
<1>0. /\ Prod[l] \in Tasks /\ sent[l] \in Seq(Nat) /\ Len(sent[l]) \in Nat
      /\ serve_counter \in [Tasks -> Nat] /\ serve_counter[Prod[l]] \in Nat
  BY LinkAssumption DEF TypeOK
<1>1. CASE ~CloseWrittenFile(t)
  BY <1>1, SentFrame DEF SentClosed
<1>2. CASE CloseWrittenFile(t)
  <2>1. /\ serve_counter' = [serve_counter EXCEPT ![t] = @ + 1]
        /\ \/ sent' = sent
           \/ \E n, ready : StartServe(t, Served(t, n, ready))
    BY <1>2, CloseWrittenCases
  <2>2. \/ sent'[l] = sent[l]
        \/ Prod[l] = t /\ sent'[l] = Append(sent[l], serve_counter'[t])
    BY <2>1 DEF StartServe
  <2>3. serve_counter'[t] \in Nat
    BY <1>0, <2>1
  <2>4. CASE sent'[l] = sent[l]
    BY <1>0, <2>1, <2>4 DEF SentClosed
  <2>5. CASE Prod[l] = t /\ sent'[l] = Append(sent[l], serve_counter'[t])
    <3>1. Len(sent'[l]) = Len(sent[l]) + 1
      BY <1>0, <2>3, <2>5, AppendProperties
    <3> QED BY <1>0, <2>1, <2>5, <3>1 DEF SentClosed
  <2> QED BY <2>2, <2>4, <2>5
<1> QED BY <1>1, <1>2

(* Once every file has been read nobody gets a filename.                   *)
LEMMA NoSecondRun ==
  ASSUME NeverTwice, IInv, NEW T \in SUBSET Tasks, ReadInFirstRun(T),
         \A u \in T : OneRun(u),
         \A l \in Links : SentClosed(l) /\ (Con[l] \in T => HasRead(l)),
         NEW t \in T
  PROVE  ~NextFile(t)
<1> SUFFICES ASSUME NextFile(t) PROVE FALSE
  OBVIOUS
<1> DEFINE l == wlk[t][cur[t]]
           u == Prod[l]
<1>1. /\ pc[t] = "loop" /\ cur[t] \in DOMAIN wlk[t]
      /\ Answering(l) /\ pc[u] = "serve" /\ Slept(l)
  BY DEF NextFile, FileOn
<1>2. l \in Links /\ Con[l] = t
  <2>1. wlk[t] \in Seq(Links)
    BY DEF IInv, TypeOK
  <2> QED BY <1>1, <2>1 DEF IInv, Handshake, LoopLinks
<1> HIDE DEF l
<1>3. l \in serving[u] \ acked
  BY <1>1, <1>2, AnsweringUnacked DEF IInv
<1>4. Unopened(l)
  BY <1>1, <1>2, <1>3 DEF Unopened
<1>5. /\ u \in T /\ u \in Tasks /\ serve_counter[u] \in Nat
      /\ got[l] \in Seq(Nat) /\ first[t] \in BOOLEAN
      /\ Cardinality(Writes(u)) <= Cardinality(Reads(l))
  BY <1>2 DEF ReadInFirstRun, IInv, TypeOK
<1>6. sent[l] = Append(got[l], serve_counter[u])
  BY <1>2, <1>4 DEF IInv, EachFileOnce
<1>7. Len(sent[l]) = Len(got[l]) + 1 /\ Len(got[l]) \in Nat
  BY <1>5, <1>6, AppendProperties
<1>8. Len(sent[l]) <= serve_counter[u]
  BY <1>2 DEF SentClosed
<1>9. serve_counter[u] <= Cardinality(Writes(u))
  BY <1>2, <1>5, ClosedFiles DEF IInv
<1>10. Len(got[l]) >= Cardinality(Reads(l))
  <2>1. ~first[t]
    BY <1>1 DEF OneRun
  <2> QED BY <1>2, <2>1 DEF HasRead
<1>11. Cardinality(Writes(u)) \in Nat /\ Cardinality(Reads(l)) \in Nat
  BY <1>2, <1>5, CountedOps, TallyAll, 0 \in Nat
<1> QED BY <1>5, <1>7, <1>8, <1>9, <1>10, <1>11

(* Nor does a task serve a file after producer_done where some tasks issue *)
(* it before their loops, if each of them reads in its first run every     *)
(* file that its producers write in theirs, and so on around the cycle.    *)
THEOREM NothingServedInCyclesCorrect ==
  ASSUME NeverTwice, NEW T \in SUBSET Tasks, ReadInFirstRun(T),
         \A t \in Tasks \ T : LoopsFirst(t)
  PROVE  Spec => []NothingServedAfterDone
<1> DEFINE CInv == /\ IInv
                   /\ \A t \in T : OneRun(t)
                   /\ \A t \in Tasks \ T : DoneLast(t)
                   /\ \A l \in Links : /\ SentClosed(l)
                                       /\ Con[l] \in T => HasRead(l)
<1>1. CInv => NothingServedAfterDone
  <2> SUFFICES ASSUME CInv, NEW t \in Tasks, pc[t] = "serve"
               PROVE  ~prod_done[t]
    BY DEF NothingServedAfterDone
  <2>1. CASE t \in T
    BY <2>1 DEF OneRun
  <2>2. CASE t \notin T
    BY <2>2 DEF DoneLast
  <2> QED BY <2>1, <2>2
<1>2. Init => CInv
  <2> SUFFICES ASSUME Init PROVE CInv
    OBVIOUS
  <2>1. IInv
    BY IInvInit
  <2>2. ASSUME NEW M, M \cap (1 .. 0) = {} PROVE Tally(M, 0) = 0
    BY <2>2, FS_EmptySet DEF Tally
  <2>3. ASSUME NEW t \in T PROVE OneRun(t)
    <3>1. Cardinality(Writes(t)) \in Nat
      BY CountedOps, TallyAll, 0 \in Nat
    <3> QED BY <2>2, <3>1 DEF Init, OneRun
  <2>4. ASSUME NEW l \in Links PROVE SentClosed(l) /\ HasRead(l)
    <3>1. Con[l] \in Tasks /\ Prod[l] \in Tasks
      BY LinkAssumption
    <3> QED BY <2>2, <3>1 DEF Init, SentClosed, HasRead
  <2>5. \A t \in Tasks : DoneLast(t)
    BY DEF Init, DoneLast
  <2> QED BY <2>1, <2>3, <2>4, <2>5
<1>3. CInv /\ [Next]_vars => CInv'
  <2> SUFFICES ASSUME CInv, [Next]_vars PROVE CInv'
    OBVIOUS
  <2>1. IInv'
    BY IInvStep
  <2>2. CASE \E t \in Tasks : Step(t)
    <3>1. PICK t \in Tasks : Step(t)
      BY <2>2
    <3>2. \A u \in T : ~NextFile(u)
      BY NoSecondRun
    <3>3. ASSUME NEW u \in T PROVE OneRun(u)'
      BY <3>1, <3>2, OneRunStep DEF IInv, Handshake
    <3>4. ASSUME NEW u \in Tasks \ T PROVE DoneLast(u)'
      BY <3>1, DoneLastStep DEF IInv
    <3>5. ASSUME NEW l \in Links PROVE SentClosed(l)'
      BY <3>1, SentClosedStep DEF IInv
    <3>6. ASSUME NEW l \in Links, Con[l] \in T PROVE HasRead(l)'
      BY <3>1, <3>2, <3>6, HasReadStep
    <3> QED BY <2>1, <3>3, <3>4, <3>5, <3>6
  <2>3. CASE UNCHANGED vars
    BY <2>1, <2>3 DEF vars, OneRun, DoneLast, SentClosed, HasRead
  <2> QED BY <2>2, <2>3 DEF Next
<1> QED BY <1>1, <1>2, <1>3, PTL DEF Spec

-----------------------------------------------------------------------------
(* Puppets that ask Wilkins for the names of their files.  scf_cb takes its *)
(* producers in turn and raises if the one whose turn it is has no more    *)
(* files.                                                                  *)
Asks(t) == {m \in DOMAIN Script[t] : Script[t][m].op = "readNext"}

(* The place of scf_cb in wlk_consumer after n operations of a run.        *)
Turn(t, n) ==
  IF Ensembles THEN (Tally(Asks(t), n) % Len(wlk_consumer[t])) + 1 ELSE 1

(* The operations of a run that open a file on l, by its name or in turn.  *)
Opens(l) ==
  LET t == Con[l] IN
  {m \in DOMAIN Script[t] :
     \/ Script[t][m].op = "read" /\ Script[t][m].link = l
     \/ Script[t][m].op = "readNext" /\ wlk_consumer[t][Turn(t, m - 1)] = l}

(* The files served on l in all, if its producer runs its puppet once.     *)
Files(l) == Cardinality(Writes(Prod[l])) \div Policy[l]

(* The files of its producers, which run once and drop none because nobody *)
(* asks, last for some number R of runs of the puppet, on every link for   *)
(* the same; and each run ends where it has begun in the list.             *)
FilesUsedUp(t) ==
  /\ In(t) # {}
  /\ Ensembles => Cardinality(Asks(t)) % Len(wlk_consumer[t]) = 0
  /\ \E R \in Nat : \A l \in In(t) :
       /\ In(Prod[l]) = {} /\ Policy[l] # -1
       /\ Cardinality(Opens(l)) > 0
       /\ R > 0 /\ Files(l) = R * Cardinality(Opens(l))

(* The task has finished r runs, and has opened the files of these.  A link *)
(* leaves its list only when all files have been opened.                   *)
Between(t, r) ==
  /\ idx[t] = 1
  /\ \A l \in In(t) : Len(got[l]) = r * Cardinality(Opens(l))
  /\ \/ wlk[t] = wlk_consumer[t]
     \/ \A l \in In(t) : Files(l) = r * Cardinality(Opens(l))

(* The task is in the run after that, for which there are files enough, and *)
(* has come to n operations.                                               *)
During(t, r, n) ==
  /\ wlk[t] = wlk_consumer[t]
  /\ idx[t] = Turn(t, IF pc[t] = "named" THEN n + 1 ELSE n)
  /\ \A l \in In(t) :
       /\ Len(got[l]) = r * Cardinality(Opens(l)) + Tally(Opens(l), n)
       /\ (r + 1) * Cardinality(Opens(l)) <= Files(l)
  /\ pc[t] = "named" => n + 1 \in Asks(t) /\ n + 1 \in Opens(at[t])
  /\ pc[t] = "serve" => n + 1 \in Writes(t)

Rounds(t, r) ==
  IF pc[t] \in {"loop", "done", "exit"}
  THEN Between(t, r)
  ELSE During(t, r, IF pc[t] = "reading" THEN pos[t] ELSE pos[t] - 1)

(* The remainder of a multiple and of its successors.                      *)
LEMMA QuotientGrows ==
  ASSUME NEW p \in Nat \ {0}, NEW m \in Nat, NEW n \in Nat, m <= n
  PROVE  m \div p <= n \div p
<1> DEFINE q == m \div p
           r == m % p
           s == n \div p
           u == n % p
<1>1. /\ q \in Int /\ r \in 0 .. p - 1 /\ m = p * q + r
      /\ s \in Int /\ u \in 0 .. p - 1 /\ n = p * s + u
  OBVIOUS
<1> HIDE DEF q, r, s, u
<1>2. ASSUME NEW a \in Nat \ {0} PROVE p * a >= p
  OBVIOUS
<1>3. ASSUME q > s PROVE FALSE
  <2>1. q - s \in Nat \ {0} /\ p * (q - s) = m - n + u - r
    BY <1>1, <1>3
  <2>2. p * (q - s) >= p
    BY <1>2, <2>1
  <2> QED BY <1>1, <2>1, <2>2
<1>4. q <= s
  BY <1>1, <1>3
<1> QED BY <1>4 DEF q, s

(* The files due are as many as the quotient says.                         *)
LEMMA MultiplesLen ==
  ASSUME NEW n \in Nat, NEW p \in Nat \ {0}
  PROVE  n \div p \in Nat /\ Len(Multiples(n, p)) = n \div p
<1> DEFINE q == n \div p
<1>1. q \in Nat
  BY CountUp
<1> HIDE DEF q
<1>2. Len([i \in 1 .. q |-> i * p]) = q
  BY <1>1
<1> QED BY <1>1, <1>2 DEF Multiples, q

(* r runs of K files each, and R of them.                                  *)
LEMMA RunsOfFiles ==
  ASSUME NEW r \in Nat, NEW R \in Nat, NEW K \in Nat, K > 0
  PROVE  /\ r * K \in Nat /\ (r + 1) * K = r * K + K
         /\ r * K < R * K => r + 1 <= R
         /\ r * K = R * K => r = R
         /\ r + 1 <= R => (r + 1) * K <= R * K
<1>1. /\ r * K \in Nat /\ R * K \in Nat
      /\ (r + 1) * K = r * K + K
      /\ (R + 1) * K = R * K + K
  OBVIOUS
<1>2. ASSUME NEW a \in Nat, NEW b \in Nat, a + 1 <= b
      PROVE  (a + 1) * K <= b * K
  <2>1. PICK d \in Nat : b = a + 1 + d
    <3>1. b - (a + 1) \in Nat /\ b = a + 1 + (b - (a + 1))
      BY <1>2
    <3> QED BY <3>1
  <2>2. d * K \in Nat /\ (a + 1) * K \in Nat
    OBVIOUS
  <2>3. b * K = (a + 1) * K + d * K
    BY <2>1
  <2> QED BY <2>2, <2>3
<1>3. r * K < R * K => r + 1 <= R
  <2> SUFFICES ASSUME r * K < R * K, R < r + 1 PROVE FALSE
    OBVIOUS
  <2>1. CASE r = R
    BY <1>1, <2>1
  <2>2. CASE R + 1 <= r
    BY <1>1, <1>2, <2>2
  <2> QED BY <2>1, <2>2
<1>4. r * K = R * K => r = R
  <2> SUFFICES ASSUME r * K = R * K, r # R PROVE FALSE
    OBVIOUS
  <2>1. CASE r + 1 <= R
    BY <1>1, <1>2, <2>1
  <2>2. CASE R + 1 <= r
    BY <1>1, <1>2, <2>2
  <2> QED BY <2>1, <2>2
<1> QED BY <1>1, <1>2, <1>3, <1>4

(* The place of scf_cb is one of the list, begins at the first, moves on   *)
(* with each name it is asked for, and is the first again after a run.     *)
LEMMA TurnMoves ==
  ASSUME NEW t \in Tasks, In(t) # {}, NEW n \in Nat
  PROVE  /\ Turn(t, n) \in DOMAIN wlk_consumer[t]
         /\ wlk_consumer[t][Turn(t, n)] \in In(t)
         /\ Turn(t, 0) = 1
         /\ Turn(t, n + 1) =
              IF n + 1 \in Asks(t) /\ Ensembles
              THEN IF Turn(t, n) = Len(wlk_consumer[t]) THEN 1
                                                        ELSE Turn(t, n) + 1
              ELSE Turn(t, n)
         /\ FilesUsedUp(t) /\ n >= Len(Script[t]) => Turn(t, n) = 1
<1> DEFINE L == Len(wlk_consumer[t])
           A == Asks(t)
           c == Tally(A, n)
<1>1. wlk_consumer[t] \in Seq(Links) /\ ToSet(wlk_consumer[t]) = In(t)
  BY ParameterAssumption
<1>2. L \in Nat \ {0} /\ DOMAIN wlk_consumer[t] = 1 .. L
  <2>1. PICK l : l \in ToSet(wlk_consumer[t])
    BY <1>1
  <2>2. PICK i \in DOMAIN wlk_consumer[t] : wlk_consumer[t][i] = l
    BY <2>1 DEF ToSet
  <2> QED BY <1>1, <2>2
<1>3. \A i \in DOMAIN wlk_consumer[t] : wlk_consumer[t][i] \in In(t)
  BY <1>1 DEF ToSet
<1>4. Len(Script[t]) \in Nat /\ A \in SUBSET (1 .. Len(Script[t]))
  <2>1. Script[t] \in Seq(Ops)
    BY ScriptAssumption
  <2> QED BY <2>1 DEF Asks
<1>5. /\ Tally(A, 0) = 0 /\ c \in Nat
      /\ Tally(A, n + 1) = IF n + 1 \in A THEN c + 1 ELSE c
      /\ n >= Len(Script[t]) => c = Cardinality(A)
  <2>1. A \cap (1 .. 0) = {}
    OBVIOUS
  <2>2. Tally(A, 0) = 0
    BY <2>1, FS_EmptySet DEF Tally
  <2> HIDE DEF A
  <2> QED BY <1>4, <2>2, TallyNext, TallyAll
<1> HIDE DEF L, A, c
<1>6. /\ c % L \in 0 .. L - 1
      /\ (c + 1) % L = IF c % L = L - 1 THEN 0 ELSE (c % L) + 1
      /\ 0 % L = 0
  <2>1. c % L \in 0 .. L - 1
    BY <1>2, <1>5
  <2>2. 0 % L = 0
    BY <1>2
  <2>3. (c + 1) % L = IF c % L = L - 1 THEN 0 ELSE (c % L) + 1
    BY <1>2, <1>5, CountUp
  <2> QED BY <2>1, <2>2, <2>3
<1>7. CASE Ensembles
  <2>1. /\ Turn(t, n) = (c % L) + 1 /\ Turn(t, 0) = (Tally(A, 0) % L) + 1
        /\ Turn(t, n + 1) = (Tally(A, n + 1) % L) + 1
    BY <1>7 DEF Turn, L, A, c
  <2>2. FilesUsedUp(t) => Cardinality(A) % L = 0
    BY <1>7 DEF FilesUsedUp, L, A
  <2>3. Turn(t, 0) = 1 /\ Turn(t, n) \in 1 .. L
    BY <1>2, <1>5, <1>6, <2>1
  <2>4. Turn(t, n + 1) = IF n + 1 \in A
                         THEN IF Turn(t, n) = L THEN 1 ELSE Turn(t, n) + 1
                         ELSE Turn(t, n)
    BY <1>2, <1>5, <1>6, <2>1
  <2>5. FilesUsedUp(t) /\ n >= Len(Script[t]) => Turn(t, n) = 1
    BY <1>5, <2>1, <2>2
  <2> QED BY <1>2, <1>3, <1>7, <2>3, <2>4, <2>5 DEF L, A
<1>8. CASE ~Ensembles
  BY <1>2, <1>3, <1>8 DEF Turn
<1> QED BY <1>7, <1>8

(* The operations of a run that open a file on a link, counted.            *)
LEMMA OpensCounted ==
  ASSUME NEW t \in Tasks, NEW l \in In(t), NEW n \in Nat
  PROVE  /\ Cardinality(Opens(l)) \in Nat
         /\ Tally(Opens(l), 0) = 0 /\ Tally(Opens(l), n) \in Nat
         /\ Tally(Opens(l), n) <= Cardinality(Opens(l))
         /\ Tally(Opens(l), n + 1) = IF n + 1 \in Opens(l)
                                     THEN Tally(Opens(l), n) + 1
                                     ELSE Tally(Opens(l), n)
         /\ n >= Len(Script[t]) => Tally(Opens(l), n) = Cardinality(Opens(l))
<1> DEFINE O == Opens(l)
<1>1. Len(Script[t]) \in Nat /\ O \in SUBSET (1 .. Len(Script[t]))
  <2>1. Script[t] \in Seq(Ops) /\ Con[l] = t
    BY ScriptAssumption DEF In
  <2> QED BY <2>1 DEF Opens
<1>2. Tally(O, 0) = 0
  <2>1. O \cap (1 .. 0) = {}
    OBVIOUS
  <2> QED BY <2>1, FS_EmptySet DEF Tally
<1> HIDE DEF O
<1>3. /\ Cardinality(O) \in Nat /\ Tally(O, n) \in Nat
      /\ Tally(O, n) <= Cardinality(O)
      /\ Tally(O, n + 1) = IF n + 1 \in O THEN Tally(O, n) + 1
                                          ELSE Tally(O, n)
      /\ n >= Len(Script[t]) => Tally(O, n) = Cardinality(O)
  BY <1>1, TallyNext, TallyAll
<1> QED BY <1>2, <1>3 DEF O

(* The links on which the operation a puppet is at opens a file.           *)
LEMMA OpOpens ==
  ASSUME TypeOK, NEW t \in Tasks, ~RangeOver(t)
  PROVE  /\ pos[t] \in Asks(t) <=> NextOp(t).op = "readNext"
         /\ \A l \in In(t) :
              pos[t] \in Opens(l) <=>
                \/ NextOp(t).op = "read" /\ NextOp(t).link = l
                \/ /\ NextOp(t).op = "readNext"
                   /\ wlk_consumer[t][Turn(t, pos[t] - 1)] = l
<1>1. /\ Script[t] \in Seq(Ops)
      /\ pos[t] \in Nat \ {0} /\ pos[t] <= Len(Script[t])
  BY ScriptAssumption DEF TypeOK, RangeOver
<1>2. pos[t] \in DOMAIN Script[t] /\ NextOp(t) = Script[t][pos[t]]
  BY <1>1 DEF NextOp
<1>3. pos[t] \in Asks(t) <=> NextOp(t).op = "readNext"
  BY <1>2 DEF Asks
<1>4. ASSUME NEW l \in In(t)
      PROVE  pos[t] \in Opens(l) <=>
               \/ NextOp(t).op = "read" /\ NextOp(t).link = l
               \/ /\ NextOp(t).op = "readNext"
                  /\ wlk_consumer[t][Turn(t, pos[t] - 1)] = l
  <2>1. Con[l] = t
    BY DEF In
  <2> QED BY <1>2, <2>1 DEF Opens
<1> QED BY <1>3, <1>4

(* A consumer that gets no filenames has opened all files of the link.     *)
LEMMA EofMeansAll ==
  ASSUME IInv, NEW l \in Links, Honoured(l), OneRun(Prod[l]),
         Policy[l] # -1, EofOn(l)
  PROVE  Len(got[l]) = Files(l)
<1> DEFINE u == Prod[l]
<1>1. /\ u \in Tasks /\ Policy[l] \in Nat \ {0} /\ TypeOK /\ pc[u] = "done"
  BY LinkAssumption DEF IInv, EofOn
<1>2. serve_counter[u] = Cardinality(Writes(u)) /\ serve_counter[u] \in Nat
  BY <1>1, ClosedFiles
<1>3. got[l] = sent[l]
  BY <1>1 DEF IInv, EachFileOnce, Unopened
<1>4. sent[l] = Multiples(serve_counter[u], Policy[l])
  BY DEF Honoured
<1> HIDE DEF u
<1>5. Len(Multiples(serve_counter[u], Policy[l]))
        = serve_counter[u] \div Policy[l]
  BY <1>1, <1>2, MultiplesLen
<1> QED BY <1>2, <1>3, <1>4, <1>5 DEF Files, u

(* One that gets some, in its loop, has at least one of them left.         *)
LEMMA FileMeansMore ==
  ASSUME NeverTwice, IInv, NEW l \in Links, Honoured(l), OneRun(Prod[l]),
         Policy[l] # -1, FileOn(l), Slept(l), pc[Con[l]] = "loop"
  PROVE  Len(got[l]) + 1 <= Files(l)
<1> DEFINE u == Prod[l]
           c == serve_counter[u]
           W == Cardinality(Writes(u))
           p == Policy[l]
<1>1. /\ u \in Tasks /\ p \in Nat \ {0} /\ TypeOK /\ pc[u] = "serve"
      /\ got[l] \in Seq(Nat) /\ c \in Nat
  BY LinkAssumption DEF IInv, FileOn, TypeOK
<1>2. W \in Nat /\ c <= W
  BY <1>1, ClosedFiles
<1>3. l \in serving[u] \ acked
  BY AnsweringUnacked DEF IInv, FileOn
<1>4. pc[Con[l]] # "reading"
  OBVIOUS
<1>5. sent[l] = Append(got[l], c)
  BY <1>1, <1>3, <1>4 DEF Unopened, IInv, EachFileOnce
<1>6. sent[l] = Multiples(c, p)
  BY DEF Honoured
<1> HIDE DEF u, c, W, p
<1>7. Len(sent[l]) = Len(got[l]) + 1 /\ Len(got[l]) \in Nat
  BY <1>1, <1>5, AppendProperties
<1>8. Len(sent[l]) = c \div p /\ c \div p <= W \div p
  BY <1>1, <1>2, <1>6, MultiplesLen, QuotientGrows
<1> QED BY <1>7, <1>8 DEF Files, u, c, W, p

(* What Rounds says of the next state.                                     *)
LEMMA RoundsNext ==
  ASSUME NEW t \in Tasks, NEW r \in Nat, NEW n \in Nat
  PROVE  /\ (/\ idx'[t] = 1
             /\ \A l \in In(t) : Len(got'[l]) = r * Cardinality(Opens(l))
             /\ \/ wlk'[t] = wlk_consumer[t]
                \/ \A l \in In(t) : Files(l) = r * Cardinality(Opens(l))
             /\ pc'[t] \in {"loop", "done", "exit"}) => Rounds(t, r)'
         /\ (/\ wlk'[t] = wlk_consumer[t]
             /\ idx'[t] = Turn(t, IF pc'[t] = "named" THEN n + 1 ELSE n)
             /\ \A l \in In(t) :
                  /\ Len(got'[l])
                       = r * Cardinality(Opens(l)) + Tally(Opens(l), n)
                  /\ (r + 1) * Cardinality(Opens(l)) <= Files(l)
             /\ pc'[t] = "named" =>
                  n + 1 \in Asks(t) /\ n + 1 \in Opens(at'[t])
             /\ pc'[t] = "serve" => n + 1 \in Writes(t)
             /\ pc'[t] \notin {"loop", "done", "exit"}
             /\ n = IF pc'[t] = "reading" THEN pos'[t] ELSE pos'[t] - 1)
              => Rounds(t, r)'
BY DEF Rounds, Between, During, Turn, Tally, Asks, Opens, Files, Writes, In

(* The steps of others leave it alone.                                     *)
LEMMA RoundsFrame ==
  ASSUME IInv, NEW t \in Tasks, Step(t), NEW u \in Tasks, u # t,
         NEW r \in Nat, Rounds(u, r)
  PROVE  Rounds(u, r)'
<1> DEFINE n == IF pc[u] = "reading" THEN pos[u] ELSE pos[u] - 1
<1>1. TypeOK /\ n \in Nat
  <2>1. TypeOK
    BY DEF IInv
  <2>2. pos[u] \in Nat \ {0}
    BY <2>1 DEF TypeOK
  <2> QED BY <2>1, <2>2
<1>2. /\ pc'[u] = pc[u] /\ pos'[u] = pos[u] /\ at'[u] = at[u]
      /\ wlk'[u] = wlk[u] /\ idx'[u] = idx[u]
  BY <1>1, StepFrame, LoopFrame
<1>3. \A l \in In(u) : got'[l] = got[l]
  BY <1>1, GotCases DEF IInv, Handshake, In
<1>4. IF pc[u] \in {"loop", "done", "exit"} THEN Between(u, r)
                                            ELSE During(u, r, n)
  BY DEF Rounds
<1> HIDE DEF n
<1>5. CASE pc[u] \in {"loop", "done", "exit"}
  BY <1>2, <1>3, <1>4, <1>5, RoundsNext DEF Between
<1>6. CASE pc[u] \notin {"loop", "done", "exit"}
  <2>1. /\ During(u, r, n)
        /\ n = IF pc'[u] = "reading" THEN pos'[u] ELSE pos'[u] - 1
    BY <1>2, <1>4, <1>6 DEF n
  <2> QED BY <1>1, <1>2, <1>3, <1>6, <2>1, RoundsNext DEF During
<1> QED BY <1>5, <1>6

(* What holds of a workflow in which names are asked for.                  *)
NamesInv ==
  /\ IInv /\ NoException
  /\ \A l \in Links : Honoured(l)
  /\ \A t \in Tasks : RunsOnce(t) /\ (In(t) = {} => OneRun(t))

(* scf_cb gets a name: the producer it asks has at least one file left for *)
(* this run.                                                               *)
LEMMA NameThere ==
  ASSUME NamesInv, NEW t \in Tasks, FilesUsedUp(t), NEW r \in Nat,
         Rounds(t, r), scf_cb(t)
  PROVE  FetchName(t)
<1> SUFFICES ASSUME FetchNameRaises(t) PROVE FALSE
  BY DEF scf_cb
<1> DEFINE n == pos[t] - 1
           l == wlk[t][idx[t]]
<1>1. /\ TypeOK /\ n \in Nat /\ pos[t] = n + 1 /\ In(t) # {}
      /\ pc[t] = "run" /\ ~RangeOver(t) /\ NextOp(t).op = "readNext"
  <2>1. TypeOK /\ In(t) # {}
    BY DEF NamesInv, IInv, FilesUsedUp
  <2>2. pos[t] \in Nat \ {0}
    BY <2>1 DEF TypeOK
  <2> QED BY <2>1, <2>2 DEF scf_cb, AtOp
<1>2. During(t, r, n)
  BY <1>1 DEF Rounds
<1>3. wlk[t] = wlk_consumer[t] /\ idx[t] = Turn(t, n)
  BY <1>1, <1>2 DEF During
<1>4. idx[t] \in DOMAIN wlk[t] /\ l \in In(t) /\ l \in Links
  BY <1>1, <1>3, TurnMoves DEF In
<1>5. EofOn(l)
  BY <1>4 DEF FetchNameRaises
<1>6. n + 1 \in Opens(l)
  BY <1>1, <1>3, <1>4, OpOpens
<1>7. /\ In(Prod[l]) = {} /\ Policy[l] # -1 /\ Prod[l] \in Tasks
      /\ Cardinality(Opens(l)) > 0
  BY <1>4, LinkAssumption DEF FilesUsedUp
<1>8. Len(got[l]) = r * Cardinality(Opens(l)) + Tally(Opens(l), n)
      /\ (r + 1) * Cardinality(Opens(l)) <= Files(l)
  BY <1>2, <1>4 DEF During
<1> HIDE DEF l, n
<1>9. Len(got[l]) = Files(l)
  BY <1>4, <1>5, <1>7, EofMeansAll DEF NamesInv
<1>10. /\ Cardinality(Opens(l)) \in Nat /\ Tally(Opens(l), n) \in Nat
       /\ Tally(Opens(l), n) + 1 <= Cardinality(Opens(l))
  <2>1. Tally(Opens(l), n + 1) = Tally(Opens(l), n) + 1
    BY <1>1, <1>4, <1>6, OpensCounted
  <2>2. n + 1 \in Nat
    BY <1>1
  <2>3. Tally(Opens(l), n + 1) <= Cardinality(Opens(l))
    BY <1>4, <2>2, OpensCounted
  <2> QED BY <1>1, <1>4, <2>1, <2>3, OpensCounted
<1> DEFINE K == Cardinality(Opens(l))
           c == Tally(Opens(l), n)
<1> HIDE DEF K, c
<1>11. r * K \in Nat /\ (r + 1) * K = r * K + K
  BY <1>7, <1>10, RunsOfFiles DEF K
<1>12. /\ r * K + c = Files(l) /\ (r + 1) * K <= Files(l)
       /\ K \in Nat /\ c \in Nat /\ c + 1 <= K
  BY <1>8, <1>9, <1>10 DEF K, c
<1> QED BY <1>11, <1>12

(* A consumer that gets filenames in its loop has files for another run, on *)
(* all its links; one that gets none has opened all files.                 *)
LEMMA AnotherRun ==
  ASSUME NeverTwice, NamesInv, NEW t \in Tasks, FilesUsedUp(t), NEW r \in Nat,
         Between(t, r), NextFile(t)
  PROVE  /\ wlk[t] = wlk_consumer[t]
         /\ \A l \in In(t) : (r + 1) * Cardinality(Opens(l)) <= Files(l)
<1> DEFINE k == wlk[t][cur[t]]
<1>1. /\ pc[t] = "loop" /\ cur[t] \in DOMAIN wlk[t]
      /\ FileOn(k) /\ Slept(k)
  BY DEF NextFile
<1>2. k \in Links /\ Con[k] = t /\ k \in In(t)
  <2>1. wlk[t] \in Seq(Links)
    BY DEF NamesInv, IInv, TypeOK
  <2> QED BY <1>1, <2>1 DEF NamesInv, IInv, Handshake, LoopLinks, In
<1> HIDE DEF k
<1>3. PICK R \in Nat : \A l \in In(t) :
        /\ In(Prod[l]) = {} /\ Policy[l] # -1
        /\ Cardinality(Opens(l)) > 0
        /\ R > 0 /\ Files(l) = R * Cardinality(Opens(l))
  BY DEF FilesUsedUp
<1>4. Len(got[k]) + 1 <= Files(k)
  <2>1. Prod[k] \in Tasks
    BY <1>2, LinkAssumption
  <2> QED BY <1>1, <1>2, <1>3, <2>1, FileMeansMore DEF NamesInv
<1>5. \A l \in In(t) : /\ Cardinality(Opens(l)) \in Nat
                       /\ Len(got[l]) = r * Cardinality(Opens(l))
  BY OpensCounted, 0 \in Nat DEF Between
<1>6. r + 1 <= R
  <2> DEFINE K == Cardinality(Opens(k))
  <2>1. K \in Nat /\ K > 0 /\ r * K + 1 <= R * K
    BY <1>2, <1>3, <1>4, <1>5
  <2> HIDE DEF K
  <2>2. r * K \in Nat /\ R * K \in Nat
    BY <2>1
  <2> QED BY <2>1, <2>2, RunsOfFiles
<1>7. ASSUME NEW l \in In(t)
      PROVE  /\ (r + 1) * Cardinality(Opens(l)) <= Files(l)
             /\ Files(l) # r * Cardinality(Opens(l))
  <2> DEFINE K == Cardinality(Opens(l))
  <2>1. K \in Nat /\ K > 0 /\ Files(l) = R * K
    BY <1>3, <1>5
  <2> HIDE DEF K
  <2>2. (r + 1) * K <= R * K /\ r * K # R * K
    BY <1>6, <2>1, RunsOfFiles
  <2> QED BY <2>1, <2>2 DEF K
<1>8. wlk[t] = wlk_consumer[t]
  BY <1>2, <1>7 DEF Between
<1> QED BY <1>7, <1>8

LEMMA AllOpened ==
  ASSUME NamesInv, NEW t \in Tasks, FilesUsedUp(t), NEW r \in Nat,
         Between(t, r), NoMoreFiles(t)
  PROVE  \A l \in In(t) : Files(l) = r * Cardinality(Opens(l))
<1> DEFINE k == wlk[t][cur[t]]
<1>1. cur[t] \in DOMAIN wlk[t] /\ EofOn(k)
  BY DEF NoMoreFiles
<1>2. k \in Links /\ k \in In(t)
  <2>1. wlk[t] \in Seq(Links)
    BY DEF NamesInv, IInv, TypeOK
  <2> QED BY <1>1, <2>1 DEF NamesInv, IInv, Handshake, LoopLinks, In
<1> HIDE DEF k
<1>3. PICK R \in Nat : \A l \in In(t) :
        /\ In(Prod[l]) = {} /\ Policy[l] # -1
        /\ Cardinality(Opens(l)) > 0
        /\ R > 0 /\ Files(l) = R * Cardinality(Opens(l))
  BY DEF FilesUsedUp
<1>4. Len(got[k]) = Files(k)
  <2>1. Prod[k] \in Tasks
    BY <1>2, LinkAssumption
  <2> QED BY <1>1, <1>2, <1>3, <2>1, EofMeansAll DEF NamesInv
<1>5. Cardinality(Opens(k)) \in Nat /\ Len(got[k]) = r * Cardinality(Opens(k))
  BY <1>2, OpensCounted, 0 \in Nat DEF Between
<1>6. r = R
  <2> DEFINE K == Cardinality(Opens(k))
  <2>1. K \in Nat /\ K > 0 /\ r * K = R * K
    BY <1>2, <1>3, <1>4, <1>5
  <2> HIDE DEF K
  <2> QED BY <2>1, RunsOfFiles
<1> QED BY <1>3, <1>6

(* Its own steps go on with the run it is in, or end it.                   *)
LEMMA RoundsStep ==
  ASSUME SourcesLimited, NeverTwice, NamesInv, FlowInv,
         NEW t \in Tasks, Step(t), FilesUsedUp(t), NEW r \in Nat, Rounds(t, r)
  PROVE  \E s \in Nat : Rounds(t, s)'
<1> DEFINE n == pos[t] - 1
<1>1. /\ TypeOK /\ AtHand /\ OpenServed /\ In(t) # {}
      /\ n \in Nat /\ n + 1 \in Nat /\ pos[t] = n + 1
      /\ pc[t] \in PcValues /\ pc[t] # "error"
  <2>1. TypeOK /\ AtHand /\ OpenServed /\ NoException /\ In(t) # {}
    BY DEF NamesInv, IInv, Handshake, FilesUsedUp
  <2>2. pos[t] \in Nat \ {0} /\ pc[t] \in PcValues
    BY <2>1 DEF TypeOK
  <2> QED BY <2>1, <2>2 DEF NoException
<1>2. \/ pc[t] \in {"loop", "done", "exit"} /\ Between(t, r)
      \/ pc[t] = "reading" /\ During(t, r, n + 1)
      \/ pc[t] \in {"run", "named", "serve"} /\ During(t, r, n)
  BY <1>1 DEF Rounds, PcValues
<1>3. ASSUME NEW l \in In(t)
      PROVE  /\ l \in Links /\ Con[l] = t
             /\ Cardinality(Opens(l)) \in Nat /\ Tally(Opens(l), 0) = 0
             /\ Tally(Opens(l), n) \in Nat
             /\ Tally(Opens(l), n + 1) = IF n + 1 \in Opens(l)
                                         THEN Tally(Opens(l), n) + 1
                                         ELSE Tally(Opens(l), n)
             /\ RangeOver(t) => Tally(Opens(l), n) = Cardinality(Opens(l))
             /\ got[l] \in Seq(Nat) /\ Len(got[l]) \in Nat
  <2>1. l \in Links /\ Con[l] = t
    BY DEF In
  <2>2. got[l] \in Seq(Nat)
    BY <1>1, <2>1 DEF TypeOK
  <2>3. RangeOver(t) => n >= Len(Script[t])
    <3>1. Len(Script[t]) \in Nat
      BY CountedOps
    <3> QED BY <1>1, <3>1 DEF RangeOver
  <2>4. Len(got[l]) \in Nat
    BY <2>2
  <2> HIDE DEF n
  <2>5. n \in Nat
    BY <1>1
  <2>6. /\ Cardinality(Opens(l)) \in Nat /\ Tally(Opens(l), 0) = 0
        /\ Tally(Opens(l), n) \in Nat
        /\ Tally(Opens(l), n + 1) = IF n + 1 \in Opens(l)
                                    THEN Tally(Opens(l), n) + 1
                                    ELSE Tally(Opens(l), n)
        /\ n >= Len(Script[t]) => Tally(Opens(l), n) = Cardinality(Opens(l))
    BY <2>5, OpensCounted
  <2> QED BY <2>1, <2>2, <2>3, <2>4, <2>6
<1>4. /\ Turn(t, 0) = 1 /\ Turn(t, n) \in DOMAIN wlk_consumer[t]
      /\ wlk_consumer[t][Turn(t, n)] \in In(t)
      /\ Turn(t, n + 1) =
           IF n + 1 \in Asks(t) /\ Ensembles
           THEN IF Turn(t, n) = Len(wlk_consumer[t]) THEN 1 ELSE Turn(t, n) + 1
           ELSE Turn(t, n)
      /\ RangeOver(t) => Turn(t, n) = 1
  <2>1. RangeOver(t) => n >= Len(Script[t])
    <3>1. Len(Script[t]) \in Nat
      BY CountedOps
    <3> QED BY <1>1, <3>1 DEF RangeOver
  <2> HIDE DEF n
  <2> QED BY <1>1, <2>1, TurnMoves
<1>5. ~RangeOver(t) =>
        /\ n + 1 \in Asks(t) <=> NextOp(t).op = "readNext"
        /\ \A l \in In(t) :
             n + 1 \in Opens(l) <=>
               \/ NextOp(t).op = "read" /\ NextOp(t).link = l
               \/ /\ NextOp(t).op = "readNext"
                  /\ wlk_consumer[t][Turn(t, n)] = l
  BY <1>1, OpOpens
<1>6. /\ pos \in [Tasks -> Nat \ {0}] /\ pc \in [Tasks -> PcValues]
      /\ idx \in [Tasks -> Nat \ {0}] /\ at \in [Tasks -> Links \cup {NoLink}]
      /\ wlk \in [Tasks -> Seq(Links)] /\ got \in [Links -> Seq(Nat)]
  BY <1>1 DEF TypeOK
<1> HIDE DEF n
<1>7. n + 1 \in Writes(t) => /\ n + 1 \notin Asks(t)
                             /\ \A l \in In(t) : n + 1 \notin Opens(l)
  BY <1>3 DEF Writes, Asks, Opens
<1>10. CASE OpenFile(t)
  <2> DEFINE k == NextOp(t).link
  <2>1. /\ pc[t] = "run" /\ ~RangeOver(t) /\ NextOp(t).op = "read"
        /\ k \in In(t)
    BY <1>1, <1>10, ReadLink DEF OpenFile, AtOp, In
  <2>2. /\ pc'[t] = "reading" /\ pos'[t] = n + 1 /\ wlk' = wlk /\ idx' = idx
        /\ got' = [got EXCEPT ![k] = Append(@, serve_counter[Prod[k]])]
    BY <1>1, <1>6, <1>10 DEF OpenFile
  <2>3. During(t, r, n)
    BY <1>2, <2>1
  <2> HIDE DEF k
  <2>4. ASSUME NEW l \in In(t)
        PROVE  Len(got'[l]) = IF l = k THEN Len(got[l]) + 1 ELSE Len(got[l])
    <3>1. Prod[k] \in Tasks /\ serve_counter[Prod[k]] \in Nat
      BY <1>1, <1>3, <2>1, LinkAssumption DEF TypeOK
    <3> QED BY <1>3, <1>6, <2>1, <2>2, <3>1, AppendProperties
  <2>5. \A l \in In(t) : n + 1 \in Opens(l) <=> l = k
    BY <1>5, <2>1 DEF k
  <2>6. n + 1 \notin Asks(t)
    BY <1>5, <2>1
  <2>7. ASSUME NEW l \in In(t)
        PROVE  /\ Len(got'[l])
                    = r * Cardinality(Opens(l)) + Tally(Opens(l), n + 1)
               /\ (r + 1) * Cardinality(Opens(l)) <= Files(l)
    <3> DEFINE K == Cardinality(Opens(l))
               c == Tally(Opens(l), n)
               d == Tally(Opens(l), n + 1)
    <3>1. /\ K \in Nat /\ c \in Nat /\ Len(got[l]) \in Nat
          /\ d = IF l = k THEN c + 1 ELSE c
      BY <1>3, <2>5
    <3>2. Len(got[l]) = r * K + c /\ (r + 1) * K <= Files(l)
      BY <2>3 DEF During
    <3> HIDE DEF K, c, d
    <3>3. r * K \in Nat
      BY <3>1
    <3>4. Len(got'[l]) = r * K + d
      <4> DEFINE e == r * K
      <4> HIDE DEF e
      <4>1. e \in Nat /\ Len(got[l]) = e + c
        BY <3>2, <3>3 DEF e
      <4>2. Len(got'[l]) = e + d
        <5>1. Len(got'[l]) = IF l = k THEN Len(got[l]) + 1 ELSE Len(got[l])
          BY <2>4
        <5> QED BY <3>1, <4>1, <5>1
      <4> QED BY <4>2 DEF e
    <3> QED BY <3>2, <3>4 DEF K, d
  <2>8. wlk[t] = wlk_consumer[t] /\ idx[t] = Turn(t, n + 1)
    BY <1>4, <2>1, <2>3, <2>6 DEF During
  <2> QED BY <1>1, <2>2, <2>7, <2>8, RoundsNext
<1>11. CASE scf_cb(t)
  <2>1. FetchName(t)
    BY <1>11, NameThere
  <2>2. /\ pc[t] = "run" /\ ~RangeOver(t) /\ NextOp(t).op = "readNext"
    BY <1>11 DEF scf_cb, AtOp
  <2>3. During(t, r, n)
    BY <1>2, <2>2
  <2>4. wlk[t] = wlk_consumer[t] /\ idx[t] = Turn(t, n)
    BY <2>2, <2>3 DEF During
  <2>5. /\ pc'[t] = "named" /\ at'[t] = wlk[t][idx[t]] /\ idx'[t] = NextIdx(t)
    BY <1>6, <2>1 DEF FetchName
  <2>6. pos' = pos /\ wlk' = wlk /\ got' = got
    BY <1>11 DEF scf_cb
  <2>7. n + 1 \in Asks(t) /\ n + 1 \in Opens(at'[t])
    BY <1>4, <1>5, <2>2, <2>4, <2>5
  <2>8. idx'[t] = Turn(t, n + 1)
    BY <1>4, <2>4, <2>5, <2>7 DEF NextIdx
  <2>9. \A l \in In(t) :
          /\ Len(got'[l]) = r * Cardinality(Opens(l)) + Tally(Opens(l), n)
          /\ (r + 1) * Cardinality(Opens(l)) <= Files(l)
    BY <2>3, <2>6 DEF During
  <2>10. n = pos'[t] - 1
    BY <1>1, <2>6
  <2> QED BY <1>1, <2>4, <2>5, <2>6, <2>7, <2>8, <2>9, <2>10, RoundsNext
<1>12. CASE OpenNamedFile(t)
  <2> DEFINE k == at[t]
  <2>1. pc[t] = "named" /\ k \in In(t)
    BY <1>1, <1>12 DEF OpenNamedFile, OpenServed, FileAtHand, In
  <2>2. /\ pc'[t] = "reading" /\ pos'[t] = n + 1 /\ wlk' = wlk /\ idx' = idx
        /\ got' = [got EXCEPT ![k] = Append(@, serve_counter[Prod[k]])]
    BY <1>1, <1>6, <1>12 DEF OpenNamedFile
  <2>3. During(t, r, n)
    BY <1>2, <2>1
  <2>4. n + 1 \in Asks(t) /\ n + 1 \in Opens(k)
    BY <2>1, <2>3 DEF During
  <2> HIDE DEF k
  <2>5. ASSUME NEW l \in In(t)
        PROVE  Len(got'[l]) = IF l = k THEN Len(got[l]) + 1 ELSE Len(got[l])
    <3>1. Prod[k] \in Tasks /\ serve_counter[Prod[k]] \in Nat
      BY <1>1, <1>3, <2>1, LinkAssumption DEF TypeOK
    <3> QED BY <1>3, <1>6, <2>1, <2>2, <3>1, AppendProperties
  <2>6. \A l \in In(t) : n + 1 \in Opens(l) <=> l = k
    <3>1. Script[t][n + 1].op = "readNext"
      BY <2>4 DEF Asks
    <3>2. ASSUME NEW l \in In(t)
          PROVE  n + 1 \in Opens(l) =>
                   wlk_consumer[t][Turn(t, (n + 1) - 1)] = l
      BY <1>3, <3>1 DEF Opens
    <3> QED BY <2>1, <2>4, <3>2
  <2>7. ASSUME NEW l \in In(t)
        PROVE  /\ Len(got'[l])
                    = r * Cardinality(Opens(l)) + Tally(Opens(l), n + 1)
               /\ (r + 1) * Cardinality(Opens(l)) <= Files(l)
    <3> DEFINE K == Cardinality(Opens(l))
               c == Tally(Opens(l), n)
               d == Tally(Opens(l), n + 1)
    <3>1. /\ K \in Nat /\ c \in Nat /\ Len(got[l]) \in Nat
          /\ d = IF l = k THEN c + 1 ELSE c
      BY <1>3, <2>6
    <3>2. Len(got[l]) = r * K + c /\ (r + 1) * K <= Files(l)
      BY <2>3 DEF During
    <3> HIDE DEF K, c, d
    <3>3. r * K \in Nat
      BY <3>1
    <3>4. Len(got'[l]) = r * K + d
      <4> DEFINE e == r * K
      <4> HIDE DEF e
      <4>1. e \in Nat /\ Len(got[l]) = e + c
        BY <3>2, <3>3 DEF e
      <4>2. Len(got'[l]) = e + d
        <5>1. Len(got'[l]) = IF l = k THEN Len(got[l]) + 1 ELSE Len(got[l])
          BY <2>5
        <5> QED BY <3>1, <4>1, <5>1
      <4> QED BY <4>2 DEF e
    <3> QED BY <3>2, <3>4 DEF K, d
  <2>8. wlk[t] = wlk_consumer[t] /\ idx[t] = Turn(t, n + 1)
    BY <2>1, <2>3 DEF During
  <2> QED BY <1>1, <2>2, <2>7, <2>8, RoundsNext
<1>13. CASE CloseReadFile(t)
  <2>1. /\ pc[t] = "reading" /\ pc'[t] = "run" /\ pos'[t] = n + 2
        /\ wlk' = wlk /\ idx' = idx /\ got' = got
    BY <1>1, <1>6, <1>13 DEF CloseReadFile
  <2>2. During(t, r, n + 1)
    BY <1>2, <2>1
  <2>3. n + 1 = pos'[t] - 1
    BY <1>1, <2>1
  <2> QED BY <1>1, <2>1, <2>2, <2>3, RoundsNext DEF During
<1>14. CASE CloseWrittenFile(t)
  <2>1. /\ pc[t] = "run" /\ pc'[t] = "serve" /\ pos' = pos
        /\ wlk' = wlk /\ idx' = idx /\ got' = got
    BY <1>6, <1>14, SourceServes DEF StartServe, CloseWrittenFile
  <2>2. During(t, r, n)
    BY <1>2, <2>1
  <2>3. n + 1 \in Writes(t)
    BY <1>1, <1>14, OpCounted DEF CloseWrittenFile, AtOp
  <2>4. n = pos'[t] - 1
    BY <1>1, <2>1
  <2> QED BY <1>1, <2>1, <2>2, <2>3, <2>4, RoundsNext DEF During
<1>15. CASE EndServe(t)
  <2>1. /\ pc[t] = "serve" /\ pc'[t] = "run" /\ pos'[t] = n + 2
        /\ wlk' = wlk /\ idx' = idx /\ got' = got
    BY <1>1, <1>6, <1>15 DEF EndServe
  <2>2. During(t, r, n)
    BY <1>2, <2>1
  <2>3. n + 1 \in Writes(t)
    BY <2>1, <2>2 DEF During
  <2>4. Turn(t, n + 1) = Turn(t, n)
    BY <1>4, <1>7, <2>3
  <2>5. \A l \in In(t) : Tally(Opens(l), n + 1) = Tally(Opens(l), n)
    BY <1>3, <1>7, <2>3
  <2>6. n + 1 = pos'[t] - 1
    BY <1>1, <2>1
  <2> QED BY <1>1, <2>1, <2>2, <2>4, <2>5, <2>6, RoundsNext DEF During
<1>16. CASE EndFirstRun(t) \/ EndLaterRun(t)
  <2>1. /\ pc[t] = "run" /\ RangeOver(t) /\ pc'[t] \in {"loop", "done"}
        /\ wlk' = wlk /\ idx' = idx /\ got' = got
    BY <1>6, <1>16 DEF EndFirstRun, EndLaterRun, StartProducerDone
  <2>2. During(t, r, n)
    BY <1>2, <2>1
  <2>3. idx[t] = 1 /\ wlk[t] = wlk_consumer[t]
    BY <1>4, <2>1, <2>2 DEF During
  <2>4. ASSUME NEW l \in In(t)
        PROVE  Len(got'[l]) = (r + 1) * Cardinality(Opens(l))
    <3> DEFINE K == Cardinality(Opens(l))
    <3>1. Len(got'[l]) = r * K + K /\ K \in Nat
      BY <1>3, <2>1, <2>2 DEF During
    <3> HIDE DEF K
    <3>2. (r + 1) * K = r * K + K
      BY <3>1
    <3> QED BY <3>1, <3>2 DEF K
  <2>5. r + 1 \in Nat
    OBVIOUS
  <2>6. Rounds(t, r + 1)'
    <3> DEFINE q == r + 1
    <3> HIDE DEF q
    <3>1. Rounds(t, q)'
      BY <2>1, <2>3, <2>4, <2>5, RoundsNext, 0 \in Nat DEF q
    <3> QED BY <3>1 DEF q
  <2> QED BY <2>5, <2>6
<1>17. CASE EndProducerDone(t) \/ RestartFor(t) \/ LeaveLoop(t)
  <2>1. /\ pc[t] \in {"loop", "done"} /\ pc'[t] \in {"loop", "done", "exit"}
        /\ wlk' = wlk /\ idx' = idx /\ got' = got
    BY <1>6, <1>17
    DEF EndProducerDone, RestartFor, LeaveLoop, StartProducerDone
  <2>2. Between(t, r)
    BY <1>2, <2>1
  <2> QED BY <2>1, <2>2, RoundsNext, 0 \in Nat DEF Between
<1>18. CASE NextFile(t)
  <2>1. /\ pc[t] = "loop" /\ pc'[t] = "run" /\ pos'[t] = 1
        /\ wlk' = wlk /\ idx' = idx /\ got' = got
    BY <1>6, <1>18 DEF NextFile
  <2>2. Between(t, r)
    BY <1>2, <2>1
  <2>3. /\ wlk[t] = wlk_consumer[t]
        /\ \A l \in In(t) : (r + 1) * Cardinality(Opens(l)) <= Files(l)
    BY <1>18, <2>2, AnotherRun
  <2>4. ASSUME NEW l \in In(t)
        PROVE  Len(got'[l]) = r * Cardinality(Opens(l)) + Tally(Opens(l), 0)
    <3>1. r * Cardinality(Opens(l)) \in Nat
      BY <1>3
    <3> QED BY <1>3, <2>1, <2>2, <3>1 DEF Between
  <2>5. idx[t] = Turn(t, 0)
    BY <1>4, <2>2 DEF Between
  <2>6. 0 = pos'[t] - 1 /\ 0 \in Nat
    BY <2>1
  <2> QED BY <2>1, <2>3, <2>4, <2>5, <2>6, RoundsNext
<1>19. CASE NoMoreFiles(t)
  <2>1. pc[t] = "loop" /\ pc' = pc /\ idx' = idx /\ got' = got
    BY <1>19 DEF NoMoreFiles
  <2>2. Between(t, r)
    BY <1>2, <2>1
  <2>3. \A l \in In(t) : Files(l) = r * Cardinality(Opens(l))
    BY <1>19, <2>2, AllOpened
  <2> QED BY <2>1, <2>2, <2>3, RoundsNext, 0 \in Nat DEF Between
<1> QED
  BY <1>10, <1>11, <1>12, <1>13, <1>14, <1>15, <1>16, <1>17, <1>18, <1>19
  DEF Step

(* A name is asked for only by a puppet that asks for names.               *)
LEMMA Asked ==
  ASSUME TypeOK, NEW t \in Tasks, scf_cb(t)
  PROVE  Asks(t) # {}
<1>1. ~RangeOver(t) /\ NextOp(t).op = "readNext"
  BY DEF scf_cb, AtOp
<1>2. pos[t] \in Asks(t)
  BY <1>1, OpOpens
<1> QED BY <1>2

(* NoException where puppets ask Wilkins for the names of their files:     *)
(* scf_cb (py_io.py) raises if the producer whose turn it is has no more   *)
(* files.  It never does if the files of the producers last for a whole    *)
(* number of runs, the same on all links, and every run ends at the place  *)
(* of the list where it has begun: then filenames from one producer mean   *)
(* that all have the files of another run.                                 *)
THEOREM NoExceptionWithNamesCorrect ==
  ASSUME SourcesLimited, NeverTwice,
         \A t \in Tasks : Asks(t) # {} => FilesUsedUp(t)
  PROVE  Spec => []NoException
<1> DEFINE Rounded(t) == Asks(t) # {} => \E r \in Nat : Rounds(t, r)
           NInv == NamesInv /\ FlowInv /\ \A t \in Tasks : Rounded(t)
<1>1. NInv => NoException
  BY DEF NamesInv
<1>2. Init => NInv
  <2> SUFFICES ASSUME Init PROVE NInv
    OBVIOUS
  <2>1. IInv /\ FlowInv /\ TypeOK
    BY IInvInit, FlowInvInit, TypeInit
  <2>2. NoException
    BY DEF Init, NoException
  <2>3. ASSUME NEW l \in Links PROVE Honoured(l)
    <3> SUFFICES ASSUME Policy[l] # -1
                 PROVE  sent[l] = Multiples(serve_counter[Prod[l]], Policy[l])
      BY DEF Honoured
    <3>1. /\ serve_counter[Prod[l]] = 0 /\ sent[l] = <<>>
          /\ Policy[l] \in Nat \ {0}
      BY LinkAssumption DEF Init
    <3>2. 0 \div Policy[l] = 0
      BY <3>1, ZeroQuotient
    <3> QED BY <3>1, <3>2 DEF Multiples
  <2>4. ASSUME NEW t \in Tasks PROVE RunsOnce(t) /\ OneRun(t)
    <3>1. Cardinality(Writes(t)) \in Nat
      BY CountedOps, TallyAll, 0 \in Nat
    <3>2. ASSUME NEW M, M \cap (1 .. 0) = {} PROVE Tally(M, 0) = 0
      BY <3>2, FS_EmptySet DEF Tally
    <3>3. OneRun(t)
      BY <3>1, <3>2 DEF Init, OneRun
    <3> QED BY <2>1, <3>3 DEF FlowInv
  <2>5. ASSUME NEW t \in Tasks, Asks(t) # {} PROVE Rounds(t, 0)
    <3>1. FilesUsedUp(t) /\ In(t) # {}
      BY <2>5 DEF FilesUsedUp
    <3>2. /\ pc[t] = "run" /\ wlk[t] = wlk_consumer[t] /\ idx[t] = 1
          /\ pos[t] - 1 = 0
      BY DEF Init
    <3>3. idx[t] = Turn(t, 0)
      BY <3>1, <3>2, TurnMoves, 0 \in Nat
    <3>4. ASSUME NEW l \in In(t)
          PROVE  /\ Len(got[l])
                      = 0 * Cardinality(Opens(l)) + Tally(Opens(l), 0)
                 /\ (0 + 1) * Cardinality(Opens(l)) <= Files(l)
      <4>1. l \in Links /\ got[l] = <<>>
        BY DEF Init, In
      <4> DEFINE K == Cardinality(Opens(l))
                 c == Tally(Opens(l), 0)
      <4>2. PICK R \in Nat : K > 0 /\ R > 0 /\ Files(l) = R * K
        BY <3>1 DEF FilesUsedUp
      <4>3. K \in Nat /\ c = 0
        BY OpensCounted, 0 \in Nat
      <4> HIDE DEF K, c
      <4>4. 0 + 1 <= R
        BY <4>2
      <4>5. (0 + 1) * K <= R * K
        BY <4>2, <4>3, <4>4, RunsOfFiles, 0 \in Nat
      <4>6. Len(got[l]) = 0 * K + c
        BY <4>1, <4>3
      <4> QED BY <4>2, <4>5, <4>6 DEF K, c
    <3> QED BY <3>2, <3>3, <3>4 DEF Rounds, During
  <2> QED BY <2>1, <2>2, <2>3, <2>4, <2>5, 0 \in Nat DEF NamesInv
<1>3. NInv /\ [Next]_vars => NInv'
  <2> SUFFICES ASSUME NInv, [Next]_vars PROVE NInv'
    OBVIOUS
  <2>1. IInv' /\ FlowInv'
    BY IInvStep, FlowInvStep DEF NamesInv
  <2>2. TypeOK /\ AtOpening /\ TInv
    BY DEF NamesInv, IInv, Handshake, FlowInv
  <2>3. CASE \E t \in Tasks : Step(t)
    <3>1. PICK t \in Tasks : Step(t)
      BY <2>3
    <3>2. ASSUME NEW l \in Links PROVE Honoured(l)'
      <4>1. CASE CloseWrittenFile(t)
        BY <4>1, HonouredStep DEF NamesInv
      <4>2. CASE ~CloseWrittenFile(t)
        <5>1. UNCHANGED <<sent, serve_counter>>
          BY <3>1, <4>2, SentFrame
        <5> QED BY <5>1 DEF NamesInv, Honoured
      <4> QED BY <4>1, <4>2
    <3>3. ASSUME NEW u \in Tasks PROVE RunsOnce(u)'
      BY <2>1 DEF FlowInv
    <3>4. ASSUME NEW u \in Tasks, In(u) = {} PROVE OneRun(u)'
      <4>1. ~NextFile(u)
        BY <3>4 DEF NamesInv, RunsOnce, NextFile
      <4> QED BY <2>2, <3>1, <3>4, <4>1, OneRunStep DEF NamesInv
    <3>5. ASSUME NEW u \in Tasks PROVE Rounded(u)'
      <4> SUFFICES ASSUME Asks(u) # {} PROVE \E s \in Nat : Rounds(u, s)'
        BY DEF Asks
      <4>1. PICK r \in Nat : Rounds(u, r)
        OBVIOUS
      <4>2. CASE u = t
        BY <3>1, <4>1, <4>2, RoundsStep
      <4>3. CASE u # t
        BY <3>1, <4>1, <4>3, RoundsFrame DEF NamesInv
      <4> QED BY <4>2, <4>3
    <3>6. pc'[t] # "error"
      <4> USE <2>2 DEF TypeOK
      <4>1. CASE OpenFile(t) \/ OpenNamedFile(t) \/ CloseReadFile(t)
        BY <4>1 DEF OpenFile, OpenNamedFile, CloseReadFile
      <4>2. CASE scf_cb(t)
        <5>1. Asks(t) # {}
          BY <4>2, Asked
        <5>2. PICK r \in Nat : Rounds(t, r)
          BY <5>1
        <5>3. FetchName(t)
          BY <4>2, <5>1, <5>2, NameThere
        <5> QED BY <5>3 DEF FetchName
      <4>3. CASE CloseWrittenFile(t)
        BY <4>3, SourceServes DEF StartServe
      <4>4. CASE EndServe(t)
        BY <4>4 DEF EndServe
      <4>5. CASE EndFirstRun(t) \/ EndLaterRun(t) \/ EndProducerDone(t)
        BY <4>5 DEF EndFirstRun, EndLaterRun, EndProducerDone,
                    StartProducerDone
      <4>6. CASE NextFile(t) \/ RestartFor(t) \/ LeaveLoop(t)
        BY <4>6 DEF NextFile, RestartFor, LeaveLoop, StartProducerDone
      <4>7. CASE NoMoreFiles(t)
        BY <4>7 DEF NoMoreFiles, NamesInv, NoException
      <4> QED
        BY <3>1, <4>1, <4>2, <4>3, <4>4, <4>5, <4>6, <4>7 DEF Step
    <3>7. NoException'
      BY <2>2, <3>1, <3>6, StepFrame DEF NamesInv, NoException
    <3> QED BY <2>1, <3>2, <3>3, <3>4, <3>5, <3>7 DEF NamesInv
  <2>4. CASE UNCHANGED vars
    <3>1. \A l \in Links : Honoured(l)'
      BY <2>4 DEF vars, NamesInv, Honoured
    <3>2. ASSUME NEW u \in Tasks
          PROVE  RunsOnce(u)' /\ (In(u) = {} => OneRun(u)')
      BY <2>1, <2>4 DEF vars, NamesInv, FlowInv, OneRun
    <3>3. ASSUME NEW u \in Tasks, Asks(u) # {}
          PROVE  \E r \in Nat : Rounds(u, r)'
      <4>1. PICK r \in Nat : Rounds(u, r)
        BY <3>3
      <4>2. Rounds(u, r)'
        BY <2>4, <4>1 DEF vars, Rounds, Between, During
      <4> QED BY <4>2
    <3>4. ASSUME NEW u \in Tasks PROVE Rounded(u)'
      BY <3>3 DEF Asks
    <3>5. NoException'
      BY <2>4 DEF vars, NamesInv, NoException
    <3> QED BY <2>1, <3>1, <3>2, <3>4, <3>5 DEF NamesInv, In
  <2> QED BY <2>3, <2>4 DEF Next
<1> QED BY <1>1, <1>2, <1>3, PTL DEF Spec
=============================================================================
