--------------------------- MODULE ExecTask_proofs ---------------------------
(***************************************************************************)
(* Theorems about ExecTask.  For any workflow: type correctness.  For      *)
(* workflows in which a task serves one link or its consumers sleep long   *)
(* enough, whatever the topology, the puppets and the flow control: every  *)
(* file served is opened exactly once, and exec_task implements FileStream.*)
(***************************************************************************)
EXTENDS ExecTask, SequenceTheorems, TLAPS

(* Removing an element from a sequence leaves a sequence of the others.    *)
LEMMA RemoveAtType ==
  ASSUME NEW S, NEW s \in Seq(S), NEW i \in DOMAIN s
  PROVE  /\ RemoveAt(s, i) \in Seq(S)
         /\ \A j \in DOMAIN RemoveAt(s, i) :
               \E k \in DOMAIN s : RemoveAt(s, i)[j] = s[k]
<1> DEFINE a == SubSeq(s, 1, i - 1)
           b == SubSeq(s, i + 1, Len(s))
<1>1. i \in Nat /\ Len(s) \in Nat /\ i <= Len(s) /\ DOMAIN s = 1 .. Len(s)
  OBVIOUS
<1>2. /\ a \in Seq(S) /\ Len(a) = i - 1
      /\ \A j \in 1 .. i - 1 : a[j] = s[j]
  BY <1>1, SubSeqProperties
<1>3. /\ b \in Seq(S) /\ Len(b) = Len(s) - i
      /\ \A j \in 1 .. Len(s) - i : b[j] = s[i + j]
  <2>1. \A j \in i + 1 .. Len(s) : s[j] \in S
    BY <1>1
  <2>2. /\ b \in Seq(S)
        /\ Len(b) = IF i + 1 <= Len(s) THEN Len(s) - (i + 1) + 1 ELSE 0
        /\ \A j \in 1 .. Len(s) - (i + 1) + 1 : b[j] = s[i + 1 + j - 1]
    BY <1>1, <2>1, SubSeqProperties
  <2> HIDE DEF b
  <2>3. Len(b) = Len(s) - i
    BY <1>1, <2>2
  <2>4. ASSUME NEW j \in 1 .. Len(s) - i PROVE b[j] = s[i + j]
    <3>1. j \in 1 .. Len(s) - (i + 1) + 1 /\ i + 1 + j - 1 = i + j
      BY <1>1
    <3>2. b[j] = s[i + 1 + j - 1]
      BY <2>2, <3>1
    <3> QED BY <3>1, <3>2
  <2> QED BY <2>2, <2>3, <2>4
<1> HIDE DEF a, b
<1>4. /\ a \o b \in Seq(S)
      /\ Len(a \o b) = Len(s) - 1
      /\ \A j \in 1 .. Len(s) - 1 :
            (a \o b)[j] = IF j <= i - 1 THEN a[j] ELSE b[j - (i - 1)]
  <2>1. /\ a \o b \in Seq(S)
        /\ Len(a \o b) = Len(a) + Len(b)
        /\ \A j \in 1 .. Len(a) + Len(b) :
              (a \o b)[j] = IF j <= Len(a) THEN a[j] ELSE b[j - Len(a)]
    BY <1>2, <1>3, ConcatProperties
  <2> QED BY <1>1, <1>2, <1>3, <2>1
<1>5. ASSUME NEW j \in DOMAIN (a \o b)
      PROVE  \E k \in DOMAIN s : (a \o b)[j] = s[k]
  <2>1. j \in 1 .. Len(s) - 1
    <3>1. DOMAIN (a \o b) = 1 .. Len(a \o b)
      BY <1>4, LenProperties
    <3> QED BY <1>4, <3>1
  <2>2. CASE j <= i - 1
    BY <1>1, <1>2, <1>4, <2>1, <2>2
  <2>3. CASE ~(j <= i - 1)
    <3>1. j - (i - 1) \in 1 .. Len(s) - i /\ j + 1 \in DOMAIN s
      BY <1>1, <2>1, <2>3
    <3>2. b[j - (i - 1)] = s[i + (j - (i - 1))] /\ i + (j - (i - 1)) = j + 1
      BY <1>1, <1>3, <2>1, <3>1
    <3>3. (a \o b)[j] = s[j + 1]
      BY <1>4, <2>1, <2>3, <3>2
    <3> QED BY <3>1, <3>3
  <2> QED BY <2>2, <2>3
<1> QED BY <1>4, <1>5 DEF RemoveAt, a, b

-----------------------------------------------------------------------------
(* Type correctness.                                                       *)

(* A task has a link at hand exactly while it opens or reads a file.       *)
AtHand ==
  \A t \in Tasks : at[t] = NoLink <=> pc[t] \notin {"named", "reading"}

(* The types hold at first.                                                *)
LEMMA TypeInit == Init => TypeOK
<1> SUFFICES ASSUME Init PROVE TypeOK
  OBVIOUS
<1> USE LinkAssumption, ParameterAssumption DEF Init
<1>1. sent \in [Links -> Seq(Nat)] /\ got \in [Links -> Seq(Nat)]
  BY EmptySeq
<1> QED BY <1>1 DEF TypeOK, PcValues

(* A file the puppet opens by its own name comes over a link of the task.  *)
LEMMA ReadLink ==
  ASSUME TypeOK, NEW t \in Tasks, AtOp(t, "read")
  PROVE  NextOp(t).link \in Links /\ Con[NextOp(t).link] = t
<1>1. /\ Script[t] \in Seq(Ops) /\ pos[t] \in Nat \ {0}
      /\ pos[t] <= Len(Script[t])
  BY ScriptAssumption DEF TypeOK, AtOp, RangeOver
<1>2. pos[t] \in DOMAIN Script[t] /\ Script[t][pos[t]] \in Ops
  BY <1>1
<1>3. Script[t][pos[t]].op = "read"
  BY DEF AtOp, NextOp
<1>4. Script[t][pos[t]].link \in Links
  BY <1>2, <1>3 DEF Ops
<1> QED BY <1>2, <1>3, <1>4, ScriptAssumption DEF NextOp

(* So do what starting producer_done changes.                              *)
LEMMA StartType ==
  ASSUME TypeOK, NEW t \in Tasks, StartProducerDone(t)
  PROVE  pc' \in [Tasks -> PcValues] /\ serving' \in [Tasks -> SUBSET Links]
BY DEF TypeOK, PcValues, StartProducerDone, Out

(* Every step keeps TypeOK.                                                *)
LEMMA TypeStep ==
  ASSUME TypeOK, AtHand, NEW t \in Tasks, Step(t)
  PROVE  TypeOK'
<1> USE DEF TypeOK, PcValues, AtHand
<1>1. CASE OpenFile(t)
  <2> DEFINE l == NextOp(t).link
  <2>1. l \in Links
    BY <1>1, ReadLink DEF OpenFile
  <2>2. serve_counter[Prod[l]] \in Nat
    BY <2>1, LinkAssumption
  <2>3. got' \in [Links -> Seq(Nat)]
    BY <1>1, <2>1, <2>2, AppendProperties DEF OpenFile
  <2> QED BY <1>1, <2>1, <2>3, LinkAssumption DEF OpenFile, AtOp
<1>2. CASE scf_cb(t) /\ FetchName(t)
  <2> DEFINE l == wlk[t][idx[t]]
  <2>1. l \in Links /\ NextIdx(t) \in Nat \ {0}
    BY <1>2 DEF scf_cb, FetchName, NextIdx
  <2>2. /\ pc' = [pc EXCEPT ![t] = "named"]
        /\ at' = [at EXCEPT ![t] = l]
        /\ idx' = [idx EXCEPT ![t] = NextIdx(t)]
    BY <1>2 DEF FetchName
  <2> QED BY <1>2, <2>1, <2>2 DEF scf_cb
<1>3. CASE scf_cb(t) /\ FetchNameRaises(t)
  BY <1>3 DEF scf_cb, FetchNameRaises, AtOp
<1>4. CASE OpenNamedFile(t)
  <2>1. at[t] \in Links /\ serve_counter[Prod[at[t]]] \in Nat
    BY <1>4, LinkAssumption DEF OpenNamedFile
  <2>2. got' \in [Links -> Seq(Nat)]
    BY <1>4, <2>1, AppendProperties DEF OpenNamedFile
  <2> QED BY <1>4, <2>2 DEF OpenNamedFile
<1>5. CASE CloseReadFile(t)
  BY <1>5 DEF CloseReadFile
<1>6. CASE CloseWrittenFile(t)
  <2> DEFINE n == serve_counter[t] + 1
  <2>1. n \in Nat
    OBVIOUS
  <2>2. /\ serve_counter' = [serve_counter EXCEPT ![t] = n]
        /\ UNCHANGED <<pos, at, first, wlk, cur, idx, prod_done, acked, got>>
    BY <1>6 DEF CloseWrittenFile
  <2>3. \/ pc' = [pc EXCEPT ![t] = "error"] /\ UNCHANGED <<serving, sent>>
        \/ \E ready : StartServe(t, Served(t, n, ready))
    BY <1>6 DEF CloseWrittenFile
  <2>4. CASE pc' = [pc EXCEPT ![t] = "error"] /\ UNCHANGED <<serving, sent>>
    BY <2>1, <2>2, <2>4
  <2>5. ASSUME NEW ready, StartServe(t, Served(t, n, ready))
        PROVE  TypeOK'
    <3>1. Served(t, n, ready) \in SUBSET Links
      BY DEF Served, Indexed, In, Out
    <3>2. serve_counter' \in [Tasks -> Nat] /\ serve_counter'[t] \in Nat
      BY <2>1, <2>2
    <3> HIDE DEF n
    <3>3. \A l \in Links : Append(sent[l], serve_counter'[t]) \in Seq(Nat)
      BY <3>2, AppendProperties
    <3>4. sent' \in [Links -> Seq(Nat)]
      BY <2>5, <3>3 DEF StartServe
    <3>5. pc' \in [Tasks -> PcValues] /\ serving' \in [Tasks -> SUBSET Links]
      BY <2>5, <3>1 DEF StartServe
    <3> QED BY <2>2, <3>2, <3>4, <3>5
  <2> QED BY <2>3, <2>4, <2>5
<1>7. CASE EndServe(t)
  BY <1>7 DEF EndServe
<1>8. CASE EndFirstRun(t)
  <2>1. pc' \in [Tasks -> PcValues] /\ serving' \in [Tasks -> SUBSET Links]
    BY <1>8, StartType DEF EndFirstRun
  <2> QED BY <1>8, <2>1 DEF EndFirstRun
<1>9. CASE EndLaterRun(t)
  BY <1>9 DEF EndLaterRun
<1>10. CASE EndProducerDone(t)
  BY <1>10 DEF EndProducerDone
<1>11. CASE NextFile(t)
  BY <1>11 DEF NextFile
<1>12. CASE NoMoreFiles(t)
  <2>1. RemoveAt(wlk[t], cur[t]) \in Seq(Links)
    BY <1>12, RemoveAtType DEF NoMoreFiles
  <2>2. wlk[t][cur[t]] \in Links
    BY <1>12 DEF NoMoreFiles
  <2>3. acked' \in SUBSET Links
    BY <1>12, <2>2 DEF NoMoreFiles
  <2>4. wlk' \in [Tasks -> Seq(Links)] /\ cur' \in [Tasks -> Nat \ {0}]
    BY <1>12, <2>1 DEF NoMoreFiles
  <2> QED BY <1>12, <2>3, <2>4 DEF NoMoreFiles
<1>13. CASE RestartFor(t)
  BY <1>13 DEF RestartFor
<1>14. CASE LeaveLoop(t)
  <2>1. pc' \in [Tasks -> PcValues] /\ serving' \in [Tasks -> SUBSET Links]
    BY <1>14, StartType DEF LeaveLoop
  <2> QED BY <1>14, <2>1 DEF LeaveLoop
<1> QED
  BY <1>1, <1>2, <1>3, <1>4, <1>5, <1>6, <1>7, <1>8, <1>9, <1>10, <1>11,
     <1>12, <1>13, <1>14 DEF Step, scf_cb

(* Every step keeps AtHand.                                                *)
LEMMA AtHandStep ==
  ASSUME TypeOK, AtHand, NEW t \in Tasks, Step(t)
  PROVE  AtHand'
<1> USE DEF TypeOK, AtHand
<1>1. CASE OpenFile(t)
  <2>1. NextOp(t).link \in Links
    BY <1>1, ReadLink DEF OpenFile
  <2> QED BY <1>1, <2>1, LinkAssumption DEF OpenFile, AtOp
<1>2. CASE scf_cb(t) /\ FetchName(t)
  <2>1. wlk[t][idx[t]] \in Links /\ pc[t] = "run"
    BY <1>2 DEF scf_cb, FetchName, AtOp
  <2> QED BY <1>2, <2>1, LinkAssumption DEF scf_cb, FetchName
<1>3. CASE scf_cb(t) /\ FetchNameRaises(t)
  BY <1>3 DEF scf_cb, FetchNameRaises, AtOp
<1>4. CASE OpenNamedFile(t)
  BY <1>4 DEF OpenNamedFile
<1>5. CASE CloseReadFile(t)
  BY <1>5 DEF CloseReadFile
<1>6. CASE CloseWrittenFile(t)
  BY <1>6 DEF CloseWrittenFile, StartServe, AtOp
<1>7. CASE EndServe(t)
  BY <1>7 DEF EndServe
<1>8. CASE EndFirstRun(t)
  BY <1>8 DEF EndFirstRun, StartProducerDone
<1>9. CASE EndLaterRun(t)
  BY <1>9 DEF EndLaterRun
<1>10. CASE EndProducerDone(t)
  BY <1>10 DEF EndProducerDone
<1>11. CASE NextFile(t)
  BY <1>11 DEF NextFile
<1>12. CASE NoMoreFiles(t)
  BY <1>12 DEF NoMoreFiles
<1>13. CASE RestartFor(t)
  BY <1>13 DEF RestartFor
<1>14. CASE LeaveLoop(t)
  BY <1>14 DEF LeaveLoop, StartProducerDone
<1> QED
  BY <1>1, <1>2, <1>3, <1>4, <1>5, <1>6, <1>7, <1>8, <1>9, <1>10, <1>11,
     <1>12, <1>13, <1>14 DEF Step, scf_cb

(* The lists and counters of every task keep their types in every workflow.*)
THEOREM TypeCorrect == Spec => []TypeOK
<1>1. Init => TypeOK /\ AtHand
  BY TypeInit DEF Init, AtHand
<1>2. TypeOK /\ AtHand /\ [Next]_vars => (TypeOK /\ AtHand)'
  <2> SUFFICES ASSUME TypeOK, AtHand, [Next]_vars
               PROVE  (TypeOK /\ AtHand)'
    OBVIOUS
  <2>1. CASE \E t \in Tasks : Step(t)
    BY <2>1, TypeStep, AtHandStep
  <2>2. CASE UNCHANGED vars
    BY <2>2 DEF vars, TypeOK, AtHand
  <2> QED BY <2>1, <2>2 DEF Next
<1> QED BY <1>1, <1>2, PTL DEF Spec

-----------------------------------------------------------------------------
(* The handshake, where no consumer is answered twice in a serve: because  *)
(* it is the only one, or because it sleeps before it asks for filenames,  *)
(* and asks for a file by its name only once after that.                   *)
Alone(t) == Len(serve_indices[t]) <= 1

(* A read of link l has only writes before it in the consumer's puppet, and *)
(* the consumer has no other incoming link.                                *)
ReadsFirst(l) ==
  LET t == Con[l] IN
  \A i \in DOMAIN Script[t] :
    Script[t][i].op = "read" /\ Script[t][i].link = l =>
     In(t) = {l} /\ \A j \in 1 .. i - 1 : Script[t][j].op = "write"

NeverTwice ==
  \A l \in Links : \/ Alone(Prod[l])
                   \/ Ensembles /\ SleepSuffices /\ ReadsFirst(l)

(* A serve is in progress only inside serve_all or producer_done, over at  *)
(* most one link if there is only one.                                     *)
OneServed ==
  \A t \in Tasks :
    /\ serving[t] # {} => pc[t] \in {"serve", "done"}
    /\ Alone(t) => \A k, l \in serving[t] : k = l

(* A done is always for the serve in progress, never left over from one.   *)
AckedServed == \A l \in acked : l \in serving[Prod[l]]

(* A file is at hand only during the serve it belongs to.                  *)
FileAtHand(t) ==
  /\ at[t] \in Links
  /\ Con[at[t]] = t
  /\ pc[Prod[at[t]]] = "serve"
  /\ at[t] \in serving[Prod[at[t]]]
  /\ at[t] \notin acked

(* So it is for every task that has a file at hand.                        *)
OpenServed ==
  \A t \in Tasks : pc[t] \in {"named", "reading"} => FileAtHand(t)

(* A task's loop is over links it consumes from.                           *)
LoopLinks == \A t \in Tasks : \A i \in DOMAIN wlk[t] : Con[wlk[t][i]] = t

(* A task has a file at hand at an operation that opens one.               *)
AtOpening ==
  \A t \in Tasks : pc[t] \in {"named", "reading"} =>
    ~RangeOver(t) /\ NextOp(t).op # "write"

(* A task that sleeps and has one producer has not yet sent its done when  *)
(* it comes to the first file it opens in a run.                           *)
Unopening(t) == /\ pc[t] \in {"run", "serve"}
                /\ \A j \in 1 .. pos[t] - 1 : Script[t][j].op = "write"

FirstUnacked ==
  \A l \in Links :
    Ensembles /\ SleepSuffices /\ In(Con[l]) = {l} /\ Unopening(Con[l])
      => l \notin acked

(* All of these, and what they are for.                                    *)
Handshake ==
  /\ OneServed /\ AckedServed /\ OpenServed
  /\ LoopLinks /\ AtOpening /\ FirstUnacked

IInv == TypeOK /\ AtHand /\ Handshake /\ EachFileOnce

(* A producer that answers a consumer has not had its done yet.            *)
LEMMA AnsweringUnacked ==
  ASSUME TypeOK, NeverTwice, Handshake, NEW l \in Links, Answering(l),
         Slept(l) \/ (AtOp(Con[l], "read") /\ NextOp(Con[l]).link = l)
  PROVE  l \in serving[Prod[l]] \ acked
<1>1. CASE Alone(Prod[l])
  BY <1>1, LinkAssumption DEF TypeOK, Handshake, OneServed, Answering
<1>2. CASE Ensembles /\ SleepSuffices /\ Slept(l)
  BY <1>2 DEF Slept, Answering
<1>3. CASE /\ Ensembles /\ SleepSuffices /\ ReadsFirst(l)
           /\ AtOp(Con[l], "read") /\ NextOp(Con[l]).link = l
  <2> DEFINE t == Con[l]
             i == pos[t]
  <2>1. t \in Tasks
    BY LinkAssumption
  <2>2. i \in DOMAIN Script[t]
    BY <1>3, <2>1, ScriptAssumption DEF AtOp, RangeOver, TypeOK
  <2>3. Script[t][i].op = "read" /\ Script[t][i].link = l /\ pc[t] = "run"
    BY <1>3 DEF AtOp, NextOp
  <2>4. In(t) = {l} /\ \A j \in 1 .. i - 1 : Script[t][j].op = "write"
    BY <1>3, <2>2, <2>3 DEF ReadsFirst
  <2>5. Unopening(t)
    BY <2>3, <2>4 DEF Unopening
  <2> QED BY <1>3, <2>4, <2>5 DEF Handshake, FirstUnacked, Answering
<1> QED BY <1>1, <1>2, <1>3 DEF NeverTwice

(* With a single link to serve, every serve is over at most one link.      *)
LEMMA ServedOne ==
  ASSUME NEW t \in Tasks, Alone(t)
  PROVE  /\ \A k, l \in Out(t) : k = l
         /\ \A n, ready : \A k, l \in Served(t, n, ready) : k = l
<1>1. \A k, l \in Out(t) : k = l
  <2>1. serve_indices[t] \in Seq(Links) /\ Len(serve_indices[t]) <= 1
    BY ParameterAssumption DEF Alone
  <2>2. DOMAIN serve_indices[t] \subseteq {1}
    BY <2>1
  <2> QED BY <2>2, ParameterAssumption DEF ToSet
<1>2. \A k, l \in Indexed(t) : k = l
  <2> SUFFICES ASSUME NEW k \in Indexed(t), NEW l \in Indexed(t)
               PROVE  k = l
    OBVIOUS
  <2>1. /\ k \in In(t) \cup Out(t) /\ Index[t][k] < Len(serve_indices[t])
        /\ l \in In(t) \cup Out(t) /\ Index[t][l] < Len(serve_indices[t])
    BY DEF Indexed
  <2>2. Index[t][k] \in Nat /\ Index[t][l] \in Nat
    BY <2>1, IndexAssumption DEF In, Out
  <2>3. Len(serve_indices[t]) \in Nat /\ Len(serve_indices[t]) <= 1
    BY ParameterAssumption DEF Alone
  <2>4. Index[t][k] = Index[t][l]
    BY <2>1, <2>2, <2>3
  <2> QED BY <2>1, <2>4, IndexAssumption
<1> QED BY <1>1, <1>2 DEF Served

(* What closing a written file comes to.                                   *)
LEMMA CloseWrittenCases ==
  ASSUME NEW t \in Tasks, CloseWrittenFile(t)
  PROVE  /\ pc[t] = "run"
         /\ serve_counter' = [serve_counter EXCEPT ![t] = @ + 1]
         /\ UNCHANGED <<at, wlk, acked, got>>
         /\ \/ pc' = [pc EXCEPT ![t] = "error"] /\ UNCHANGED <<serving, sent>>
            \/ \E n, ready : StartServe(t, Served(t, n, ready))
<1>1. \/ pc' = [pc EXCEPT ![t] = "error"] /\ UNCHANGED <<serving, sent>>
      \/ \E ready : StartServe(t, Served(t, serve_counter[t] + 1, ready))
  BY DEF CloseWrittenFile
<1> QED BY <1>1 DEF CloseWrittenFile, AtOp

(* What the end of the first run and of the loop come to.                  *)
LEMMA StartDoneCases ==
  ASSUME NEW t \in Tasks, EndFirstRun(t) \/ LeaveLoop(t)
  PROVE  /\ pc[t] \in {"run", "loop"}
         /\ UNCHANGED <<at, wlk, serve_counter, acked, sent, got>>
         /\ \/ StartProducerDone(t)
            \/ pc' = [pc EXCEPT ![t] = "loop"] /\ UNCHANGED serving
            \/ pc' = [pc EXCEPT ![t] = "exit"] /\ UNCHANGED serving
BY DEF EndFirstRun, LeaveLoop

(* A step of a task leaves the place, file and serve of others alone.      *)
LEMMA StepFrame ==
  ASSUME TypeOK, NEW t \in Tasks, Step(t), NEW u \in Tasks, u # t
  PROVE  /\ pc'[u] = pc[u] /\ pos'[u] = pos[u]
         /\ at'[u] = at[u] /\ serving'[u] = serving[u]
<1> USE DEF TypeOK
<1>1. CASE OpenFile(t)
  BY <1>1 DEF OpenFile
<1>2. CASE scf_cb(t) /\ FetchName(t)
  BY <1>2 DEF scf_cb, FetchName
<1>3. CASE scf_cb(t) /\ FetchNameRaises(t)
  BY <1>3 DEF scf_cb, FetchNameRaises
<1>4. CASE OpenNamedFile(t)
  BY <1>4 DEF OpenNamedFile
<1>5. CASE CloseReadFile(t)
  BY <1>5 DEF CloseReadFile
<1>6. CASE CloseWrittenFile(t)
  BY <1>6 DEF CloseWrittenFile, StartServe
<1>7. CASE EndServe(t)
  BY <1>7 DEF EndServe
<1>8. CASE EndFirstRun(t)
  BY <1>8 DEF EndFirstRun, StartProducerDone
<1>9. CASE EndLaterRun(t)
  BY <1>9 DEF EndLaterRun
<1>10. CASE EndProducerDone(t)
  BY <1>10 DEF EndProducerDone
<1>11. CASE NextFile(t)
  BY <1>11 DEF NextFile
<1>12. CASE NoMoreFiles(t)
  BY <1>12 DEF NoMoreFiles
<1>13. CASE RestartFor(t)
  BY <1>13 DEF RestartFor
<1>14. CASE LeaveLoop(t)
  BY <1>14 DEF LeaveLoop, StartProducerDone
<1> QED
  BY <1>1, <1>2, <1>3, <1>4, <1>5, <1>6, <1>7, <1>8, <1>9, <1>10, <1>11,
     <1>12, <1>13, <1>14 DEF Step, scf_cb

(* What a step may do to the set of acknowledged links.                    *)
LEMMA AckedFrame ==
  ASSUME TypeOK, NEW t \in Tasks, Step(t), NEW l \in acked', l \notin acked
  PROVE  \/ CloseReadFile(t) /\ l = at[t]
         \/ NoMoreFiles(t) /\ pc[Prod[l]] = "done"
<1>1. CASE OpenFile(t)
  BY <1>1 DEF OpenFile
<1>2. CASE scf_cb(t) /\ FetchName(t)
  BY <1>2 DEF scf_cb, FetchName
<1>3. CASE scf_cb(t) /\ FetchNameRaises(t)
  BY <1>3 DEF scf_cb, FetchNameRaises
<1>4. CASE OpenNamedFile(t)
  BY <1>4 DEF OpenNamedFile
<1>5. CASE CloseReadFile(t)
  BY <1>5 DEF CloseReadFile
<1>6. CASE CloseWrittenFile(t)
  BY <1>6 DEF CloseWrittenFile
<1>7. CASE EndServe(t)
  BY <1>7 DEF EndServe
<1>8. CASE EndFirstRun(t)
  BY <1>8 DEF EndFirstRun
<1>9. CASE EndLaterRun(t)
  BY <1>9 DEF EndLaterRun
<1>10. CASE EndProducerDone(t)
  BY <1>10 DEF EndProducerDone
<1>11. CASE NextFile(t)
  BY <1>11 DEF NextFile
<1>12. CASE NoMoreFiles(t)
  BY <1>12 DEF NoMoreFiles, EofOn
<1>13. CASE RestartFor(t)
  BY <1>13 DEF RestartFor
<1>14. CASE LeaveLoop(t)
  BY <1>14 DEF LeaveLoop
<1> QED
  BY <1>1, <1>2, <1>3, <1>4, <1>5, <1>6, <1>7, <1>8, <1>9, <1>10, <1>11,
     <1>12, <1>13, <1>14 DEF Step, scf_cb

(* Serves stay inside serve_all and producer_done, over one link.          *)
LEMMA OneServedStep ==
  ASSUME TypeOK, OneServed, NEW t \in Tasks, Step(t)
  PROVE  OneServed'
<1> USE DEF TypeOK, OneServed
<1>1. CASE OpenFile(t)
  BY <1>1 DEF OpenFile, AtOp
<1>2. CASE scf_cb(t) /\ FetchName(t)
  BY <1>2 DEF scf_cb, FetchName, AtOp
<1>3. CASE scf_cb(t) /\ FetchNameRaises(t)
  BY <1>3 DEF scf_cb, FetchNameRaises, AtOp
<1>4. CASE OpenNamedFile(t)
  BY <1>4 DEF OpenNamedFile
<1>5. CASE CloseReadFile(t)
  BY <1>5 DEF CloseReadFile
<1>6. CASE CloseWrittenFile(t)
  <2>1. CASE pc' = [pc EXCEPT ![t] = "error"] /\ UNCHANGED serving
    BY <1>6, <2>1, CloseWrittenCases
  <2>2. ASSUME NEW n, NEW ready, StartServe(t, Served(t, n, ready))
        PROVE  OneServed'
    BY <1>6, <2>2, CloseWrittenCases, ServedOne DEF StartServe
  <2> QED BY <1>6, <2>1, <2>2, CloseWrittenCases
<1>7. CASE EndServe(t)
  BY <1>7 DEF EndServe
<1>8. CASE EndLaterRun(t)
  BY <1>8 DEF EndLaterRun
<1>9. CASE EndProducerDone(t)
  BY <1>9 DEF EndProducerDone
<1>10. CASE NextFile(t)
  BY <1>10 DEF NextFile
<1>11. CASE NoMoreFiles(t)
  BY <1>11 DEF NoMoreFiles
<1>12. CASE RestartFor(t)
  BY <1>12 DEF RestartFor
<1>13. CASE EndFirstRun(t) \/ LeaveLoop(t)
  <2>1. CASE StartProducerDone(t)
    <3>1. Alone(t) => \A k, l \in Out(t) : k = l
      BY ServedOne
    <3> QED BY <2>1, <3>1 DEF StartProducerDone
  <2>2. CASE ~StartProducerDone(t)
    <3>1. pc[t] \in {"run", "loop"} /\ serving' = serving
      BY <1>13, <2>2, StartDoneCases
    <3>2. \A u \in Tasks : u # t => pc'[u] = pc[u]
      BY StepFrame
    <3> QED BY <3>1, <3>2
  <2> QED BY <2>1, <2>2
<1> QED
  BY <1>1, <1>2, <1>3, <1>4, <1>5, <1>6, <1>7, <1>8, <1>9, <1>10, <1>11,
     <1>12, <1>13 DEF Step, scf_cb

(* No done is left over from a serve.                                      *)
LEMMA AckedServedStep ==
  ASSUME TypeOK, AtHand, Handshake, NEW t \in Tasks, Step(t)
  PROVE  AckedServed'
<1> USE LinkAssumption DEF TypeOK, Handshake, OneServed, AckedServed
<1>1. CASE OpenFile(t)
  BY <1>1 DEF OpenFile, AtOp
<1>2. CASE scf_cb(t) /\ FetchName(t)
  BY <1>2 DEF scf_cb, FetchName, AtOp
<1>3. CASE scf_cb(t) /\ FetchNameRaises(t)
  BY <1>3 DEF scf_cb, FetchNameRaises, AtOp
<1>4. CASE OpenNamedFile(t)
  BY <1>4 DEF OpenNamedFile
<1>5. CASE CloseReadFile(t)
  BY <1>5 DEF CloseReadFile, OpenServed, FileAtHand
<1>6. CASE CloseWrittenFile(t)
  <2>1. CASE pc' = [pc EXCEPT ![t] = "error"] /\ UNCHANGED serving
    BY <1>6, <2>1, CloseWrittenCases
  <2>2. ASSUME NEW n, NEW ready, StartServe(t, Served(t, n, ready))
        PROVE  AckedServed'
    BY <1>6, <2>2, CloseWrittenCases DEF StartServe
  <2> QED BY <1>6, <2>1, <2>2, CloseWrittenCases
<1>7. CASE EndServe(t)
  BY <1>7 DEF EndServe
<1>8. CASE EndLaterRun(t)
  BY <1>8 DEF EndLaterRun
<1>9. CASE EndProducerDone(t)
  BY <1>9 DEF EndProducerDone
<1>10. CASE NextFile(t)
  BY <1>10 DEF NextFile
<1>11. CASE NoMoreFiles(t)
  <2> DEFINE l == wlk[t][cur[t]]
  <2>1. l \in serving[Prod[l]]
    BY <1>11 DEF NoMoreFiles, EofOn, Answering
  <2>2. acked' = acked \cup {l} /\ UNCHANGED serving
    BY <1>11 DEF NoMoreFiles
  <2> HIDE DEF l
  <2> QED BY <2>1, <2>2
<1>12. CASE RestartFor(t)
  BY <1>12 DEF RestartFor
<1>13. CASE EndFirstRun(t) \/ LeaveLoop(t)
  <2>1. CASE StartProducerDone(t)
    BY <1>13, <2>1, StartDoneCases DEF StartProducerDone
  <2>2. CASE ~StartProducerDone(t)
    BY <1>13, <2>2, StartDoneCases
  <2> QED BY <2>1, <2>2
<1> QED
  BY <1>1, <1>2, <1>3, <1>4, <1>5, <1>6, <1>7, <1>8, <1>9, <1>10, <1>11,
     <1>12, <1>13 DEF Step, scf_cb

(* The loop list only shrinks.                                             *)
LEMMA LoopLinksStep ==
  ASSUME TypeOK, LoopLinks, NEW t \in Tasks, Step(t)
  PROVE  LoopLinks'
<1> USE DEF TypeOK, LoopLinks
<1>1. CASE OpenFile(t)
  BY <1>1 DEF OpenFile, AtOp
<1>2. CASE scf_cb(t) /\ FetchName(t)
  BY <1>2 DEF scf_cb, FetchName, AtOp
<1>3. CASE scf_cb(t) /\ FetchNameRaises(t)
  BY <1>3 DEF scf_cb, FetchNameRaises, AtOp
<1>4. CASE OpenNamedFile(t)
  BY <1>4 DEF OpenNamedFile
<1>5. CASE CloseReadFile(t)
  BY <1>5 DEF CloseReadFile
<1>6. CASE CloseWrittenFile(t)
  BY <1>6 DEF CloseWrittenFile
<1>7. CASE EndServe(t)
  BY <1>7 DEF EndServe
<1>8. CASE EndLaterRun(t)
  BY <1>8 DEF EndLaterRun
<1>9. CASE EndProducerDone(t)
  BY <1>9 DEF EndProducerDone
<1>10. CASE NextFile(t)
  BY <1>10 DEF NextFile
<1>11. CASE NoMoreFiles(t)
  <2>1. \A j \in DOMAIN RemoveAt(wlk[t], cur[t]) :
           \E k \in DOMAIN wlk[t] : RemoveAt(wlk[t], cur[t])[j] = wlk[t][k]
    BY <1>11, RemoveAtType DEF NoMoreFiles
  <2> QED BY <1>11, <2>1 DEF NoMoreFiles
<1>12. CASE RestartFor(t)
  BY <1>12 DEF RestartFor
<1>13. CASE EndFirstRun(t) \/ LeaveLoop(t)
  BY <1>13 DEF EndFirstRun, LeaveLoop
<1> QED
  BY <1>1, <1>2, <1>3, <1>4, <1>5, <1>6, <1>7, <1>8, <1>9, <1>10, <1>11,
     <1>12, <1>13 DEF Step, scf_cb

(* An open file keeps its serve going.                                     *)
LEMMA OpenServedStep ==
  ASSUME TypeOK, AtHand, NeverTwice, Handshake, NEW t \in Tasks, Step(t)
  PROVE  OpenServed'
<1> SUFFICES ASSUME NEW u \in Tasks, pc'[u] \in {"named", "reading"}
             PROVE  FileAtHand(u)'
  BY DEF OpenServed
<1> USE DEF Handshake
<1>1. CASE u # t
  <2>1. FileAtHand(u) /\ at'[u] = at[u]
    BY <1>1, StepFrame DEF OpenServed
  <2>2. at[u] \notin acked'
    BY <1>1, <2>1, AckedFrame DEF OpenServed, FileAtHand, CloseReadFile
  <2>3. CASE Prod[at[u]] # t
    BY <2>1, <2>2, <2>3, StepFrame, LinkAssumption DEF FileAtHand
  <2>4. CASE Prod[at[u]] = t
    <3>1. pc[t] = "serve"
      BY <2>1, <2>4 DEF FileAtHand
    <3>2. EndServe(t)
      BY <3>1 DEF Step, OpenFile, scf_cb, FetchName, FetchNameRaises,
         OpenNamedFile, CloseReadFile, CloseWrittenFile, EndFirstRun, EndLaterRun,
         EndProducerDone, NextFile, NoMoreFiles, RestartFor, LeaveLoop, AtOp
    <3> QED BY <2>1, <2>4, <3>2 DEF FileAtHand, EndServe, AllDone
  <2> QED BY <2>3, <2>4
<1>2. CASE u = t
  <2>1. CASE OpenFile(t)
    <3> DEFINE l == NextOp(t).link
    <3>1. l \in Links /\ Con[l] = t /\ Prod[l] # t /\ Prod[l] \in Tasks
      BY <2>1, ReadLink, LinkAssumption DEF OpenFile
    <3>2. l \in serving[Prod[l]] \ acked /\ pc[Prod[l]] = "serve"
      BY <2>1, <3>1, AnsweringUnacked DEF OpenFile, FileOn
    <3>3. at'[t] = l /\ acked' = acked
      BY <2>1 DEF OpenFile, TypeOK
    <3> HIDE DEF l
    <3> QED BY <1>2, <3>1, <3>2, <3>3, StepFrame DEF FileAtHand
  <2>2. CASE scf_cb(t) /\ FetchName(t)
    <3> DEFINE l == wlk[t][idx[t]]
    <3>1. l \in Links /\ Con[l] = t /\ Prod[l] # t /\ Prod[l] \in Tasks
      BY <2>2, LinkAssumption DEF scf_cb, FetchName, LoopLinks, TypeOK
    <3>2. l \in serving[Prod[l]] \ acked
      BY <2>2, <3>1, AnsweringUnacked DEF FetchName, FileOn
    <3>3. FileOn(l) /\ at'[t] = l /\ acked' = acked
      BY <1>2, <2>2 DEF scf_cb, FetchName, TypeOK
    <3> HIDE DEF l
    <3> QED BY <1>2, <3>1, <3>2, <3>3, StepFrame DEF FileAtHand, FileOn
  <2>3. CASE OpenNamedFile(t)
    <3>1. FileAtHand(t)
      BY <2>3 DEF OpenNamedFile, OpenServed
    <3>2. at'[t] = at[t] /\ acked' = acked
      BY <2>3 DEF OpenNamedFile
    <3> QED BY <1>2, <3>1, <3>2, StepFrame, LinkAssumption DEF FileAtHand
  <2>4. OpenFile(t) \/ (scf_cb(t) /\ FetchName(t)) \/ OpenNamedFile(t)
    <3> USE <1>2 DEF TypeOK
    <3>1. CASE scf_cb(t) /\ FetchNameRaises(t)
      BY <3>1 DEF scf_cb, FetchNameRaises, AtOp
    <3>2. CASE CloseReadFile(t)
      BY <3>2 DEF CloseReadFile
    <3>3. CASE CloseWrittenFile(t)
      BY <3>3 DEF CloseWrittenFile, StartServe, AtOp
    <3>4. CASE EndServe(t)
      BY <3>4 DEF EndServe
    <3>5. CASE EndFirstRun(t)
      BY <3>5 DEF EndFirstRun, StartProducerDone
    <3>6. CASE EndLaterRun(t)
      BY <3>6 DEF EndLaterRun
    <3>7. CASE EndProducerDone(t)
      BY <3>7 DEF EndProducerDone
    <3>8. CASE NextFile(t)
      BY <3>8 DEF NextFile
    <3>9. CASE NoMoreFiles(t)
      BY <3>9 DEF NoMoreFiles, AtHand
    <3>10. CASE RestartFor(t)
      BY <3>10 DEF RestartFor, AtHand
    <3>11. CASE LeaveLoop(t)
      BY <3>11 DEF LeaveLoop, StartProducerDone
    <3> QED
      BY <3>1, <3>2, <3>3, <3>4, <3>5, <3>6, <3>7, <3>8, <3>9, <3>10, <3>11
         DEF Step, scf_cb
  <2> QED BY <2>1, <2>2, <2>3, <2>4
<1> QED BY <1>1, <1>2

(* A link gets its done from its consumer.                                 *)
LEMMA AckedByConsumer ==
  ASSUME TypeOK, Handshake, NEW t \in Tasks, Step(t),
         NEW l \in acked', l \notin acked
  PROVE  /\ Con[l] = t
         /\ CloseReadFile(t) \/ NoMoreFiles(t)
<1>1. CASE CloseReadFile(t) /\ l = at[t]
  BY <1>1 DEF CloseReadFile, Handshake, OpenServed, FileAtHand
<1>2. CASE NoMoreFiles(t)
  BY <1>2 DEF NoMoreFiles, Handshake, LoopLinks
<1> QED BY <1>1, <1>2, AckedFrame

(* A file at hand is one that the puppet is about to read.                 *)
LEMMA AtOpeningStep ==
  ASSUME TypeOK, AtHand, Handshake, NEW t \in Tasks, Step(t)
  PROVE  AtOpening'
<1> SUFFICES ASSUME NEW u \in Tasks, pc'[u] \in {"named", "reading"}
             PROVE  pos'[u] = pos[u] /\ ~RangeOver(u) /\ NextOp(u).op # "write"
  BY DEF AtOpening, RangeOver, NextOp
<1>1. CASE u # t
  BY <1>1, StepFrame DEF Handshake, AtOpening
<1>2. CASE u = t
  <2> USE <1>2 DEF TypeOK
  <2>1. CASE OpenFile(t)
    BY <2>1 DEF OpenFile, AtOp
  <2>2. CASE scf_cb(t)
    BY <2>2 DEF scf_cb, AtOp
  <2>3. CASE OpenNamedFile(t)
    BY <2>3 DEF OpenNamedFile, Handshake, AtOpening
  <2>4. CASE CloseReadFile(t)
    BY <2>4 DEF CloseReadFile
  <2>5. CASE CloseWrittenFile(t)
    BY <2>5 DEF CloseWrittenFile, StartServe, AtOp
  <2>6. CASE EndServe(t)
    BY <2>6 DEF EndServe
  <2>7. CASE EndFirstRun(t)
    BY <2>7 DEF EndFirstRun, StartProducerDone
  <2>8. CASE EndLaterRun(t)
    BY <2>8 DEF EndLaterRun
  <2>9. CASE EndProducerDone(t)
    BY <2>9 DEF EndProducerDone
  <2>10. CASE NextFile(t)
    BY <2>10 DEF NextFile
  <2>11. CASE NoMoreFiles(t)
    BY <2>11 DEF NoMoreFiles, AtHand
  <2>12. CASE RestartFor(t)
    BY <2>12 DEF RestartFor, AtHand
  <2>13. CASE LeaveLoop(t)
    BY <2>13 DEF LeaveLoop, StartProducerDone
  <2> QED
    BY <2>1, <2>2, <2>3, <2>4, <2>5, <2>6, <2>7, <2>8, <2>9, <2>10, <2>11,
       <2>12, <2>13 DEF Step
<1> QED BY <1>1, <1>2

(* A run starts with filenames from the only producer, after a sleep.      *)
LEMMA FirstUnackedStep ==
  ASSUME TypeOK, AtHand, Handshake, NEW t \in Tasks, Step(t)
  PROVE  FirstUnacked'
<1> SUFFICES ASSUME NEW l \in Links, Ensembles, SleepSuffices,
                    In(Con[l]) = {l}, Unopening(Con[l])'
             PROVE  l \notin acked'
  BY DEF FirstUnacked, In
<1>0. Con[l] \in Tasks
  BY LinkAssumption
<1>1. Unopening(Con[l]) => l \notin acked
  BY DEF Handshake, FirstUnacked
<1>2. CASE Con[l] # t
  <2>1. Unopening(Con[l])
    BY <1>0, <1>2, StepFrame DEF Unopening
  <2> QED BY <1>1, <1>2, <2>1, AckedByConsumer
<1>3. CASE Con[l] = t
  <2> USE <1>3 DEF TypeOK
  <2>0. /\ pc'[t] \in {"run", "serve"}
        /\ \A j \in 1 .. pos'[t] - 1 : Script[t][j].op = "write"
    BY DEF Unopening
  <2>1. CASE OpenFile(t)
    BY <2>0, <2>1 DEF OpenFile
  <2>2. CASE scf_cb(t)
    BY <2>0, <2>2 DEF scf_cb, FetchName, FetchNameRaises
  <2>3. CASE OpenNamedFile(t)
    BY <2>0, <2>3 DEF OpenNamedFile
  <2>4. CASE CloseReadFile(t)
    <3>1. pos'[t] = pos[t] + 1 /\ pc[t] = "reading" /\ pos[t] \in 1 .. pos'[t] - 1
      BY <2>4 DEF CloseReadFile
    <3>2. Script[t][pos[t]].op # "write"
      BY <3>1 DEF Handshake, AtOpening, NextOp
    <3> QED BY <2>0, <3>1, <3>2
  <2>5. CASE CloseWrittenFile(t)
    <3>1. pc[t] = "run" /\ pos' = pos /\ acked' = acked
      BY <2>5 DEF CloseWrittenFile, AtOp
    <3> QED BY <1>1, <2>0, <3>1 DEF Unopening
  <2>6. CASE EndServe(t)
    <3>1. pc[t] = "serve" /\ pos'[t] = pos[t] + 1 /\ acked' \subseteq acked
      BY <2>6 DEF EndServe
    <3>2. 1 .. pos[t] - 1 \subseteq 1 .. pos'[t] - 1
      BY <3>1
    <3> QED BY <1>1, <2>0, <3>1, <3>2 DEF Unopening
  <2>7. CASE EndFirstRun(t)
    BY <2>0, <2>7 DEF EndFirstRun, StartProducerDone
  <2>8. CASE EndLaterRun(t)
    BY <2>0, <2>8 DEF EndLaterRun
  <2>9. CASE EndProducerDone(t)
    BY <2>0, <2>9 DEF EndProducerDone
  <2>10. CASE NextFile(t)
    <3> DEFINE k == wlk[t][cur[t]]
    <3>1. k \in Links /\ Con[k] = t
      BY <2>10 DEF NextFile, Handshake, LoopLinks
    <3>2. k = l
      BY <3>1 DEF In
    <3> QED BY <2>10, <3>2 DEF NextFile, Slept
  <2>11. CASE NoMoreFiles(t)
    BY <2>0, <2>11 DEF NoMoreFiles
  <2>12. CASE RestartFor(t)
    BY <2>0, <2>12 DEF RestartFor
  <2>13. CASE LeaveLoop(t)
    BY <2>0, <2>13 DEF LeaveLoop, StartProducerDone
  <2> QED
    BY <2>1, <2>2, <2>3, <2>4, <2>5, <2>6, <2>7, <2>8, <2>9, <2>10, <2>11,
       <2>12, <2>13 DEF Step
<1> QED BY <1>2, <1>3

(* The two histories of a link.                                            *)
OnceOn(l) ==
  sent[l] = IF Unopened(l) THEN Append(got[l], serve_counter[Prod[l]])
                           ELSE got[l]

(* The actions that open no file and start no serve.                       *)
Quiet(t) ==
  \/ scf_cb(t) \/ CloseReadFile(t) \/ EndServe(t)
  \/ EndFirstRun(t) \/ EndLaterRun(t) \/ EndProducerDone(t)
  \/ NextFile(t) \/ NoMoreFiles(t) \/ RestartFor(t) \/ LeaveLoop(t)

(* A quiet step changes neither history.                                   *)
LEMMA QuietSame ==
  ASSUME NEW t \in Tasks, Quiet(t)
  PROVE  UNCHANGED <<sent, got, serve_counter>>
BY DEF Quiet, scf_cb, FetchName, FetchNameRaises, CloseReadFile, EndServe,
   EndFirstRun, EndLaterRun, EndProducerDone, NextFile, NoMoreFiles,
   RestartFor, LeaveLoop

(* A quiet step of its producer leaves a link without an unopened file.    *)
LEMMA QuietProd ==
  ASSUME TypeOK, NEW l \in Links, Quiet(Prod[l])
  PROVE  ~Unopened(l) /\ ~Unopened(l)'
<1> DEFINE t == Prod[l]
<1>1. t \in Tasks
  BY LinkAssumption
<1>2. pc[t] = "serve" => EndServe(t)
  BY DEF Quiet, scf_cb, FetchName, FetchNameRaises, CloseReadFile,
     EndFirstRun, EndLaterRun, EndProducerDone, NextFile, NoMoreFiles,
     RestartFor, LeaveLoop, AtOp
<1>3. ~Unopened(l)
  BY <1>2 DEF Unopened, EndServe, AllDone
<1>4. pc'[t] # "serve"
  <2> USE <1>1 DEF TypeOK
  <2> HIDE DEF t
  <2>1. CASE scf_cb(t) /\ FetchName(t)
    BY <2>1 DEF scf_cb, FetchName
  <2>2. CASE scf_cb(t) /\ FetchNameRaises(t)
    BY <2>2 DEF scf_cb, FetchNameRaises
  <2>3. CASE CloseReadFile(t)
    BY <2>3 DEF CloseReadFile
  <2>4. CASE EndServe(t)
    BY <2>4 DEF EndServe
  <2>5. CASE EndFirstRun(t)
    BY <2>5 DEF EndFirstRun, StartProducerDone
  <2>6. CASE EndLaterRun(t)
    BY <2>6 DEF EndLaterRun
  <2>7. CASE EndProducerDone(t)
    BY <2>7 DEF EndProducerDone
  <2>8. CASE NextFile(t)
    BY <2>8 DEF NextFile
  <2>9. CASE NoMoreFiles(t)
    BY <2>9 DEF NoMoreFiles
  <2>10. CASE RestartFor(t)
    BY <2>10 DEF RestartFor
  <2>11. CASE LeaveLoop(t)
    BY <2>11 DEF LeaveLoop, StartProducerDone
  <2> QED
    BY <2>1, <2>2, <2>3, <2>4, <2>5, <2>6, <2>7, <2>8, <2>9, <2>10, <2>11
       DEF Quiet, scf_cb, t
<1> QED BY <1>3, <1>4 DEF Unopened

(* A quiet step of any other task leaves the question as it was.           *)
LEMMA QuietOther ==
  ASSUME TypeOK, AtHand, Handshake, NEW l \in Links, NEW t \in Tasks,
         t # Prod[l], Step(t), Quiet(t)
  PROVE  Unopened(l)' = Unopened(l)
<1> DEFINE Reads == pc[Con[l]] = "reading" /\ at[Con[l]] = l
<1>1. Prod[l] \in Tasks /\ Con[l] \in Tasks
  BY LinkAssumption
<1>2. pc'[Prod[l]] = pc[Prod[l]] /\ serving'[Prod[l]] = serving[Prod[l]]
  BY <1>1, StepFrame
<1>3. CASE CloseReadFile(t)
  <2>1. FileAtHand(t) /\ acked' = acked \cup {at[t]}
    BY <1>3 DEF CloseReadFile, Handshake, OpenServed
  <2>2. CASE at[t] = l
    <3>1. l \in acked' /\ Con[l] = t
      BY <2>1, <2>2 DEF FileAtHand
    <3> QED BY <1>3, <2>2, <3>1 DEF Unopened, CloseReadFile
  <2>3. CASE at[t] # l
    <3>1. l \in acked' <=> l \in acked
      BY <2>1, <2>3
    <3>2. Reads' <=> Reads
      <4>1. CASE Con[l] = t
        BY <1>3, <2>3, <4>1 DEF CloseReadFile, TypeOK
      <4>2. CASE Con[l] # t
        BY <1>1, <4>2, StepFrame
      <4> QED BY <4>1, <4>2
    <3> QED BY <1>2, <3>1, <3>2 DEF Unopened
  <2> QED BY <2>2, <2>3
<1>4. CASE ~CloseReadFile(t)
  <2>1. Reads' <=> Reads
    <3>1. CASE Con[l] = t
      <4>1. pc[t] # "reading" /\ pc'[t] # "reading"
        <5> USE <1>4 DEF TypeOK
        <5>1. CASE scf_cb(t) /\ FetchName(t)
          BY <5>1 DEF scf_cb, FetchName, AtOp
        <5>2. CASE scf_cb(t) /\ FetchNameRaises(t)
          BY <5>2 DEF scf_cb, FetchNameRaises, AtOp
        <5>3. CASE EndServe(t)
          BY <5>3 DEF EndServe
        <5>4. CASE EndFirstRun(t)
          BY <5>4 DEF EndFirstRun, StartProducerDone
        <5>5. CASE EndLaterRun(t)
          BY <5>5 DEF EndLaterRun
        <5>6. CASE EndProducerDone(t)
          BY <5>6 DEF EndProducerDone
        <5>7. CASE NextFile(t)
          BY <5>7 DEF NextFile
        <5>8. CASE NoMoreFiles(t)
          BY <5>8 DEF NoMoreFiles
        <5>9. CASE RestartFor(t)
          BY <5>9 DEF RestartFor
        <5>10. CASE LeaveLoop(t)
          BY <5>10 DEF LeaveLoop, StartProducerDone
        <5> QED
          BY <5>1, <5>2, <5>3, <5>4, <5>5, <5>6, <5>7, <5>8, <5>9, <5>10 DEF
             Quiet, scf_cb
      <4> QED BY <3>1, <4>1
    <3>2. CASE Con[l] # t
      BY <1>1, <3>2, StepFrame
    <3> QED BY <3>1, <3>2
  <2>2. pc[Prod[l]] = "serve" => (l \in acked' <=> l \in acked)
    <3>1. CASE l \in acked' /\ l \notin acked
      BY <1>4, <3>1, AckedFrame
    <3>2. CASE l \in acked /\ l \notin acked'
      <4>1. l \in serving[t] /\ (EndServe(t) \/ EndProducerDone(t))
        BY <3>2 DEF Quiet, scf_cb, FetchName, FetchNameRaises,
           CloseReadFile, EndServe, EndFirstRun, EndLaterRun, EndProducerDone, NextFile, NoMoreFiles,
           RestartFor, LeaveLoop
      <4> QED BY <4>1 DEF EndServe, EndProducerDone, AllDone, Out
    <3> QED BY <3>1, <3>2
  <2> QED BY <1>2, <2>1, <2>2 DEF Unopened
<1> QED BY <1>3, <1>4

(* A file is opened: it was the unopened one of its link.                  *)
LEMMA OpenOnce ==
  ASSUME TypeOK, AtHand, NeverTwice, Handshake, EachFileOnce, NEW t \in Tasks,
         OpenFile(t) \/ OpenNamedFile(t), Step(t), NEW l \in Links
  PROVE  OnceOn(l)'
<1>1. PICK k \in Links :
        /\ k = at'[t] /\ Con[k] = t /\ k \in serving[Prod[k]] \ acked
        /\ pc[Prod[k]] = "serve" /\ pc[t] # "reading" /\ pc'[t] = "reading"
        /\ got' = [got EXCEPT ![k] = Append(@, serve_counter[Prod[k]])]
        /\ UNCHANGED <<sent, serve_counter, acked, serving>>
  <2>1. CASE OpenFile(t)
    <3>1. PICK k \in Links : k = NextOp(t).link /\ Con[k] = t
      BY <2>1, ReadLink DEF OpenFile
    <3>2. k = at'[t] /\ k \in serving[Prod[k]] \ acked
      BY <2>1, <3>1, AnsweringUnacked DEF OpenFile, FileOn, Handshake, TypeOK
    <3> QED BY <2>1, <3>1, <3>2 DEF OpenFile, FileOn, AtOp, TypeOK
  <2>2. CASE OpenNamedFile(t)
    <3>1. FileAtHand(t) /\ at'[t] = at[t]
      BY <2>2 DEF OpenNamedFile, Handshake, OpenServed
    <3> QED BY <2>2, <3>1 DEF OpenNamedFile, FileAtHand, TypeOK
  <2> QED BY <2>1, <2>2
<1>2. OnceOn(l) /\ Prod[l] \in Tasks /\ Con[l] \in Tasks /\ Prod[k] # t
  BY <1>1, LinkAssumption DEF EachFileOnce, OnceOn
<1>3. CASE l = k
  <2>1. Unopened(k) /\ ~Unopened(k)'
    BY <1>1 DEF Unopened
  <2> QED BY <1>1, <1>2, <1>3, <2>1 DEF OnceOn, TypeOK
<1>4. CASE l # k
  <2>1. Unopened(l)' <=> Unopened(l)
    <3>1. (pc'[Prod[l]] = "serve") <=> (pc[Prod[l]] = "serve")
      BY <1>1, <1>2, StepFrame
         DEF OpenFile, OpenNamedFile, AtOp
    <3>2. (pc'[Con[l]] = "reading" /\ at'[Con[l]] = l)
             <=> (pc[Con[l]] = "reading" /\ at[Con[l]] = l)
      BY <1>1, <1>2, <1>4, StepFrame
    <3> QED BY <1>1, <3>1, <3>2 DEF Unopened
  <2>2. got'[l] = got[l]
    BY <1>1, <1>4 DEF TypeOK
  <2> QED BY <1>1, <1>2, <2>1, <2>2 DEF OnceOn
<1> QED BY <1>3, <1>4

(* A file is closed by its writer: it becomes the unopened one of every    *)
(* link it is served on.                                                   *)
LEMMA CloseOnce ==
  ASSUME TypeOK, AtHand, Handshake, EachFileOnce, NEW t \in Tasks,
         CloseWrittenFile(t), Step(t), NEW l \in Links
  PROVE  OnceOn(l)'
<1>1. OnceOn(l) /\ Prod[l] \in Tasks /\ Con[l] \in Tasks /\ Prod[l] # Con[l]
  BY LinkAssumption DEF EachFileOnce, OnceOn
<1>2. /\ pc[t] = "run" /\ UNCHANGED <<at, acked, got>>
      /\ serve_counter' = [serve_counter EXCEPT ![t] = @ + 1]
      /\ pc'[t] \in {"error", "serve"}
  BY CloseWrittenCases DEF StartServe, TypeOK
<1>3. (pc'[Con[l]] = "reading" /\ at'[Con[l]] = l)
         <=> (pc[Con[l]] = "reading" /\ at[Con[l]] = l)
  BY <1>1, <1>2, StepFrame
<1>4. CASE Prod[l] # t
  <2>1. Unopened(l)' <=> Unopened(l)
    BY <1>1, <1>2, <1>3, <1>4, StepFrame DEF Unopened
  <2>2. sent'[l] = sent[l]
    BY <1>4, CloseWrittenCases DEF StartServe
  <2>3. serve_counter'[Prod[l]] = serve_counter[Prod[l]]
    BY <1>1, <1>2, <1>4 DEF TypeOK
  <2> QED BY <1>1, <1>2, <2>1, <2>2, <2>3 DEF OnceOn
<1>5. CASE Prod[l] = t
  <2>1. sent[l] = got[l]
    BY <1>1, <1>2, <1>5 DEF OnceOn, Unopened
  <2>2. CASE pc' = [pc EXCEPT ![t] = "error"] /\ UNCHANGED <<serving, sent>>
    BY <1>2, <1>5, <2>1, <2>2 DEF OnceOn, Unopened, TypeOK
  <2>3. ASSUME NEW n, NEW ready, StartServe(t, Served(t, n, ready))
        PROVE  OnceOn(l)'
    <3> DEFINE ls == Served(t, n, ready)
    <3>1. /\ pc'[t] = "serve" /\ serving'[t] = ls
          /\ sent'[l] = IF l \in ls THEN Append(sent[l], serve_counter'[t])
                                    ELSE sent[l]
      BY <1>5, <2>3 DEF StartServe, TypeOK
    <3>2. l \notin acked
      BY <1>2, <1>5 DEF Handshake, AckedServed, OneServed
    <3>3. ~(pc[Con[l]] = "reading" /\ at[Con[l]] = l)
      BY <1>1, <1>2, <1>5 DEF Handshake, OpenServed, FileAtHand
    <3> HIDE DEF ls
    <3>4. Unopened(l)' <=> l \in ls
      BY <1>2, <1>3, <1>5, <3>1, <3>2, <3>3 DEF Unopened
    <3> QED BY <1>2, <1>5, <2>1, <3>1, <3>4 DEF OnceOn
  <2> QED BY <2>2, <2>3, CloseWrittenCases
<1> QED BY <1>4, <1>5

(* Every step keeps EachFileOnce.                                          *)
LEMMA EachFileOnceStep ==
  ASSUME TypeOK, AtHand, NeverTwice, Handshake, EachFileOnce,
         NEW t \in Tasks, Step(t)
  PROVE  EachFileOnce'
<1> SUFFICES ASSUME NEW l \in Links PROVE OnceOn(l)'
  BY DEF EachFileOnce, OnceOn
<1>1. CASE Quiet(t)
  <2>1. OnceOn(l) /\ UNCHANGED <<sent, got, serve_counter>>
    BY <1>1, QuietSame DEF EachFileOnce, OnceOn
  <2>2. Unopened(l)' <=> Unopened(l)
    <3>1. CASE Prod[l] = t
      BY <1>1, <3>1, QuietProd
    <3>2. CASE Prod[l] # t
      BY <1>1, <3>2, QuietOther
    <3> QED BY <3>1, <3>2
  <2> QED BY <2>1, <2>2 DEF OnceOn
<1>2. CASE OpenFile(t) \/ OpenNamedFile(t)
  BY <1>2, OpenOnce
<1>3. CASE CloseWrittenFile(t)
  BY <1>3, CloseOnce
<1> QED BY <1>1, <1>2, <1>3 DEF Step, Quiet

-----------------------------------------------------------------------------
(* At first no file has been closed or opened.                             *)
LEMMA IInvInit == Init => IInv
<1> SUFFICES ASSUME Init PROVE IInv
  OBVIOUS
<1>1. TypeOK
  BY TypeInit
<1>2. AtHand /\ OneServed /\ AckedServed /\ OpenServed
  BY DEF Init, AtHand, OneServed, AckedServed, OpenServed
<1>3. LoopLinks
  BY ParameterAssumption DEF Init, LoopLinks, ToSet, In
<1>4. EachFileOnce
  BY LinkAssumption DEF Init, EachFileOnce, Unopened
<1>5. AtOpening /\ FirstUnacked
  BY DEF Init, AtOpening, FirstUnacked
<1> QED BY <1>1, <1>2, <1>3, <1>4, <1>5 DEF IInv, Handshake

LEMMA IInvStep == NeverTwice /\ IInv /\ [Next]_vars => IInv'
<1> SUFFICES ASSUME NeverTwice, IInv, [Next]_vars PROVE IInv'
  OBVIOUS
<1>1. CASE \E t \in Tasks : Step(t)
  <2>1. PICK t \in Tasks : Step(t)
    BY <1>1
  <2>2. TypeOK' /\ AtHand'
    BY <2>1, TypeStep, AtHandStep DEF IInv
  <2>3. Handshake'
    BY <2>1, OneServedStep, AckedServedStep, OpenServedStep, LoopLinksStep,
       AtOpeningStep, FirstUnackedStep
       DEF IInv, Handshake
  <2>4. EachFileOnce'
    BY <2>1, EachFileOnceStep DEF IInv
  <2> QED BY <2>2, <2>3, <2>4 DEF IInv
<1>2. CASE UNCHANGED vars
  <2> USE <1>2 DEF vars, IInv, Handshake
  <2>1. TypeOK' /\ AtHand' /\ OneServed' /\ AckedServed' /\ LoopLinks'
    BY DEF TypeOK, AtHand, OneServed, AckedServed, LoopLinks
  <2>2. OpenServed' /\ AtOpening'
    BY DEF OpenServed, FileAtHand, AtOpening, RangeOver, NextOp
  <2>3. FirstUnacked'
    BY DEF FirstUnacked, Unopening
  <2>4. EachFileOnce'
    BY DEF EachFileOnce, Unopened
  <2> QED BY <2>1, <2>2, <2>3, <2>4
<1> QED BY <1>1, <1>2 DEF Next

(* In every workflow where each task serves at most one link, or sleeping  *)
(* keeps its consumers from asking twice, a file that is served is opened  *)
(* exactly once by its consumer, in order, whatever the topology, the      *)
(* puppets, the flow control and the interleaving.                         *)
THEOREM EachFileOnceCorrect ==
  ASSUME NeverTwice
  PROVE  Spec => []EachFileOnce
<1>1. IInv => EachFileOnce
  BY DEF IInv
<1>2. IInv /\ [Next]_vars => IInv'
  BY IInvStep
<1> QED BY <1>1, <1>2, IInvInit, PTL DEF Spec

(* An opening takes the file its link's consumer has yet to open.          *)
LEMMA StreamTake ==
  ASSUME NeverTwice, IInv, NEW t \in Tasks,
         OpenFile(t) \/ OpenNamedFile(t), Step(t)
  PROVE  Stream!Next
<1> USE DEF IInv
<1>1. PICK k \in Links :
        /\ Unopened(k)
        /\ got' = [got EXCEPT ![k] = Append(@, serve_counter[Prod[k]])]
        /\ UNCHANGED sent
  <2>1. CASE OpenFile(t)
    <3>1. PICK k \in Links : k = NextOp(t).link /\ Con[k] = t
      BY <2>1, ReadLink DEF OpenFile
    <3>2. k \in serving[Prod[k]] \ acked
      BY <2>1, <3>1, AnsweringUnacked DEF OpenFile, FileOn, Handshake
    <3>3. Unopened(k)
      BY <2>1, <3>1, <3>2 DEF OpenFile, FileOn, AtOp, Unopened
    <3> QED BY <2>1, <3>1, <3>3 DEF OpenFile
  <2>2. CASE OpenNamedFile(t)
    <3>1. FileAtHand(t)
      BY <2>2 DEF OpenNamedFile, Handshake, OpenServed
    <3>2. Unopened(at[t])
      BY <2>2, <3>1 DEF OpenNamedFile, FileAtHand, Unopened
    <3> QED BY <2>2, <3>1, <3>2 DEF OpenNamedFile, FileAtHand
  <2> QED BY <2>1, <2>2
<1>2. sent[k] = Append(got[k], serve_counter[Prod[k]])
  BY <1>1 DEF EachFileOnce
<1>3. got[k] \in Seq(Nat) /\ serve_counter[Prod[k]] \in Nat
  BY LinkAssumption DEF TypeOK
<1>4. got[k] # sent[k]
  BY <1>2, <1>3, AppendProperties
<1>5. Stream!Take(k)
  BY <1>1, <1>2, <1>4 DEF Stream!Take, TypeOK
<1> QED BY <1>5 DEF Stream!Next

(* A serve publishes one file on its links, whose consumers are up to date.*)
LEMMA StreamPublish ==
  ASSUME IInv, NEW t \in Tasks, CloseWrittenFile(t)
  PROVE  [Stream!Next]_<<sent, got>>
<1> USE DEF IInv
<1>1. /\ pc[t] = "run" /\ UNCHANGED got
      /\ serve_counter' = [serve_counter EXCEPT ![t] = @ + 1]
  BY CloseWrittenCases
<1>2. CASE UNCHANGED sent
  BY <1>1, <1>2
<1>3. ASSUME NEW n, NEW ready, StartServe(t, Served(t, n, ready))
      PROVE  Stream!Next
  <2> DEFINE file == serve_counter'[t]
             ls == {l \in Links : l \in Served(t, n, ready) /\ Prod[l] = t}
  <2>1. file \in Nat
    BY <1>1 DEF TypeOK
  <2>2. \A l \in Links : sent'[l] = IF l \in ls THEN Append(sent[l], file)
                                                ELSE sent[l]
    BY <1>3 DEF StartServe
  <2> HIDE DEF file
  <2>3. ASSUME NEW l \in ls
        PROVE  got[l] = sent[l] /\ Stream!OneMore(sent[l], sent'[l])
    <3>1. sent[l] \in Seq(Nat) /\ sent'[l] = Append(sent[l], file)
      BY <2>2 DEF TypeOK
    <3>2. got[l] = sent[l]
      BY <1>1 DEF EachFileOnce, Unopened
    <3>3. /\ sent'[l] \in Seq(Nat) /\ Len(sent'[l]) = Len(sent[l]) + 1
          /\ sent'[l][Len(sent[l]) + 1] = file
      BY <2>1, <3>1, AppendProperties
    <3>4. Len(sent[l]) + 1 \in DOMAIN sent'[l]
      BY <3>1, <3>3
    <3> QED BY <3>1, <3>2, <3>3, <3>4 DEF Stream!OneMore
  <2>4. ls \in SUBSET Links
    OBVIOUS
  <2> HIDE DEF ls
  <2>5. Stream!Publish(ls)
    BY <1>1, <2>2, <2>3 DEF Stream!Publish
  <2> QED BY <2>4, <2>5 DEF Stream!Next
<1> QED BY <1>2, <1>3, CloseWrittenCases

(* In the same workflows every link is a stream of files: exec_task        *)
(* implements FileStream.                                                  *)
THEOREM StreamsCorrect ==
  ASSUME NeverTwice
  PROVE  Spec => Streams
<1>1. Init => Stream!Init
  BY DEF Init, Stream!Init
<1>2. IInv /\ [Next]_vars => [Stream!Next]_<<sent, got>>
  <2> SUFFICES ASSUME IInv, [Next]_vars PROVE [Stream!Next]_<<sent, got>>
    OBVIOUS
  <2>1. ASSUME NEW t \in Tasks, Step(t)
        PROVE  [Stream!Next]_<<sent, got>>
    <3>1. CASE Quiet(t)
      BY <3>1, QuietSame
    <3>2. CASE OpenFile(t) \/ OpenNamedFile(t)
      BY <2>1, <3>2, StreamTake
    <3>3. CASE CloseWrittenFile(t)
      BY <3>3, StreamPublish
    <3> QED BY <2>1, <3>1, <3>2, <3>3 DEF Step, Quiet
  <2>2. CASE UNCHANGED vars
    BY <2>2 DEF vars
  <2> QED BY <2>1, <2>2 DEF Next
<1>3. IInv /\ [Next]_vars => IInv'
  BY IInvStep
<1> QED BY <1>1, <1>2, <1>3, IInvInit, PTL DEF Spec, Streams, Stream!Spec

=============================================================================
