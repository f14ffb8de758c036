---------------------------- MODULE Launch_proofs ----------------------------
(***************************************************************************)
(* Theorems about a launch, for any workflow and any way to start it: on   *)
(* the ranks too, the tasks build their intercommunicators as Intercomms   *)
(* says; LowFive gets the communicator of the ranks that do I/O; and a     *)
(* puppet that waits for a file runs after the one that writes it.         *)
(***************************************************************************)
EXTENDS Launch, Intercomms_proofs

(***************************************************************************)
(* A launch implements Intercomms: building dataflows, the calls of        *)
(* exec_task and an abort leave its state alone.                           *)
(***************************************************************************)
LEMMA LaunchInit == LInit => Init
BY DEF LInit

(* Every step of a launch is one of Intercomms or leaves its state alone.  *)
LEMMA LaunchStep == [LNext]_lVars => [Next]_vars
<1> SUFFICES ASSUME LNext, ~UNCHANGED vars PROVE Next
  BY DEF lVars
<1>1. BuildIntercomms
  BY DEF LNext, CreateComm, Abort, RunPuppet, Meet, StrayCall
<1> QED BY <1>1 DEF BuildIntercomms, Next

(* What a task of a launched workflow has walked to and set up has the     *)
(* right types (TypeOK of Intercomms).                                     *)
THEOREM LaunchTypeCorrect == LSpec => []TypeOK
<1>1. Typed => TypeOK
  BY DEF Typed
<1>2. Typed /\ [LNext]_lVars => Typed'
  BY TypedStep, LaunchStep
<1>3. LInit => Typed
  BY TypedInit, LaunchInit
<1> QED BY <1>1, <1>2, <1>3, PTL DEF LSpec

(* A launch builds the intercommunicators without a circular wait, and the *)
(* two ends of each mean the same execution group.                         *)
THEOREM LaunchWalkCorrect ==
  ASSUME NothingHidden, NobodyAlone
  PROVE  LSpec => [](PeersAgree /\ NoDeadlock)
<1>1. WInv => PeersAgree /\ NoDeadlock
  BY NoDeadlockHolds DEF WInv
<1>2. WInv /\ [LNext]_lVars => WInv'
  BY WInvStep, LaunchStep
<1>3. LInit => WInv
  BY WInvInit, LaunchInit
<1> QED BY <1>1, <1>2, <1>3, PTL DEF LSpec

(* If links are as in ParametersCompleteCorrect and SourcesKnownCorrect,   *)
(* the parameters of exec_task are right on the ranks of a launch too.     *)
THEOREM LaunchParametersCorrect ==
  ASSUME NothingHidden, GroupsFollow, NamesApart, OnePolicy, OneFile
  PROVE  LSpec => [](IndexNamesGroup /\ ParametersComplete /\ SourcesKnown)
<1>1. SInv /\ LInv => IndexNamesGroup /\ ParametersComplete /\ SourcesKnown
  BY ParametersHold, SourcesHold DEF LInv, ListsRight, IndexNamesGroup
<1>2. SInv /\ LInv /\ [LNext]_lVars => SInv' /\ LInv'
  BY SInvStep, LInvStep, LaunchStep
<1>3. LInit => SInv /\ LInv
  BY SInvInit, LInvInit, LaunchInit
<1> QED BY <1>1, <1>2, <1>3, PTL DEF LSpec

-----------------------------------------------------------------------------
(* The ranks in build_dataflows.                                           *)
DataflowsTypeOK ==
  /\ launch \in Launches
  /\ dataflows \in [World -> 1 .. NumLinks + 1]

(* The smallest of a set of links.                                         *)
LEMMA MinOfLinks ==
  ASSUME NEW S \in SUBSET Nat, S # {}
  PROVE  Min(S) \in S /\ \A n \in S : Min(S) <= n
BY LeastNumber DEF Min

(* A rank that has not constructed all dataflows has a next one.           *)
LEMMA NextJoinType ==
  ASSUME NEW r, NEW l \in 1 .. NumLinks + 1
  PROVE  NextJoin(r, l) \in l .. NumLinks + 1
<1> DEFINE S == {k \in l .. NumLinks : Joins(r, k) # {}} \cup {NumLinks + 1}
<1>1. NumLinks \in Nat
  BY LinkAssumption
<1>2. S \in SUBSET Nat /\ S # {} /\ S \subseteq l .. NumLinks + 1
  BY <1>1
<1>3. NextJoin(r, l) = Min(S)
  BY DEF NextJoin
<1> HIDE DEF S
<1> QED BY <1>2, <1>3, MinOfLinks

(* At first every rank is before the first dataflow.                       *)
LEMMA DataflowsInit == LInit => DataflowsTypeOK
<1> SUFFICES ASSUME LInit PROVE DataflowsTypeOK
  OBVIOUS
<1>1. 1 \in 1 .. NumLinks + 1
  BY LinkAssumption
<1>2. \A r \in World : NextJoin(r, 1) \in 1 .. NumLinks + 1
  BY <1>1, NextJoinType
<1> QED BY <1>2 DEF LInit, DataflowsTypeOK

LEMMA DataflowsStep == DataflowsTypeOK /\ [LNext]_lVars => DataflowsTypeOK'
<1> SUFFICES ASSUME DataflowsTypeOK, [LNext]_lVars PROVE DataflowsTypeOK'
  OBVIOUS
<1>1. CASE UNCHANGED setting
  BY <1>1 DEF DataflowsTypeOK, setting, World
<1>2. ASSUME NEW l \in Links, NEW group, CreateComm(l, group)
      PROVE  DataflowsTypeOK'
  <2>1. l + 1 \in 1 .. NumLinks + 1 /\ \A n \in l + 1 .. NumLinks + 1 :
                                           n \in 1 .. NumLinks + 1
    BY LinkAssumption DEF Links
  <2>2. \A r : NextJoin(r, l + 1) \in 1 .. NumLinks + 1
    BY <2>1, NextJoinType
  <2>3. launch' = launch /\ World' = World
    BY <1>2 DEF CreateComm, World
  <2>4. dataflows' = [r \in World |-> IF r \in group THEN NextJoin(r, l + 1)
                                                     ELSE dataflows[r]]
    BY <1>2 DEF CreateComm
  <2> QED BY <2>2, <2>3, <2>4 DEF DataflowsTypeOK
<1>3. LNext \/ UNCHANGED setting
  BY DEF lVars
<1> QED
  BY <1>1, <1>2, <1>3
  DEF LNext, BuildIntercomms, Abort, RunPuppet, Meet, StrayCall

(* The ranks of a task that write are ranks of the task, and two tasks     *)
(* have no rank in common.                                                 *)
LEMMA ProcsApart ==
  ASSUME NEW s \in Tasks, NEW t \in Tasks, s # t
  PROVE  Procs(s) \cap Procs(t) = {}
<1>1. /\ start_proc[s] \in Nat /\ start_proc[t] \in Nat
      /\ nprocs[s] \in Nat /\ nprocs[t] \in Nat
      /\ \/ start_proc[s] + nprocs[s] <= start_proc[t]
         \/ start_proc[t] + nprocs[t] <= start_proc[s]
  BY LaunchAssumption
<1> QED BY <1>1 DEF Procs

(* The ranks that write on a link are ranks of its producer.               *)
LEMMA WritersAreProcs ==
  ASSUME DataflowsTypeOK, NEW t \in Tasks
  PROVE  Writers(t) \subseteq Procs(t)
<1>1. /\ start_proc[t] \in Nat /\ nprocs[t] \in Nat
      /\ launch.nwriters[t] \in 0 .. nprocs[t]
  BY LaunchAssumption DEF DataflowsTypeOK
<1> QED BY <1>1 DEF Writers, Procs

(* A rank belongs to one task.                                             *)
LEMMA TaskOfRank ==
  ASSUME NEW t \in Tasks, NEW r \in Procs(t)
  PROVE  TaskOf(r) = t
BY ProcsApart DEF TaskOf

(* The ranks of a task that do I/O, if its links fit in the world: those   *)
(* that write if the task is a producer, and otherwise all.                *)
LEMMA IoProcsAre ==
  ASSUME DataflowsTypeOK, NEW t \in Tasks, Procs(t) \subseteq World,
         \A l \in Links : t \in {Prod[l], Con[l]} => Fits(l)
  PROVE  IoProcs(t) = IF \E l \in Links : Prod[l] = t THEN Writers(t)
                                                       ELSE Procs(t)
<1>1. \A l \in Links : Prod[l] \in Tasks
  BY LinkAssumption
<1>2. ASSUME NEW r \in Procs(t),
             r \in Writers(t) \/ \A l \in Links : Prod[l] # t
      PROVE  r \in IoProcs(t)
  <2>1. ASSUME NEW l \in Links
        PROVE  r \notin Procs(Prod[l]) \ Writers(Prod[l])
    BY <1>1, <1>2, ProcsApart
  <2> QED BY <2>1 DEF IoProcs, io_proc
<1>3. ASSUME NEW r \in IoProcs(t), NEW l \in Links, Prod[l] = t
      PROVE  r \in Writers(t)
  BY <1>3 DEF IoProcs, io_proc
<1>4. IoProcs(t) \subseteq Procs(t)
  BY DEF IoProcs
<1> QED BY <1>2, <1>3, <1>4, WritersAreProcs

(* The communicator a rank that has constructed all dataflows has for one. *)
LEMMA CommIsJoins ==
  ASSUME DataflowsTypeOK, NEW r \in World, Constructed(r), NEW l \in Links
  PROVE  comm(r, l) = Joins(r, l)
<1>1. dataflows[r] \in Int /\ l \in Int /\ NumLinks \in Nat
  BY LinkAssumption DEF DataflowsTypeOK, Links
<1> QED BY <1>1 DEF comm, Constructed, Links

(* Every task has a link.                                                  *)
Linked == \A t \in Tasks : \E l \in Links : t \in {Prod[l], Con[l]}

(* The communicators of a task's links are those of its ranks that do I/O. *)
LEMMA LocalCommHolds ==
  ASSUME NothingHidden, Linked, DataflowsTypeOK
  PROVE  LocalCommRight
<1> SUFFICES ASSUME NEW t \in Tasks, Procs(t) \subseteq World,
                    \A r \in Procs(t) : Constructed(r),
                    \A l \in Links : t \in {Prod[l], Con[l]} => Fits(l),
                    NEW r \in IoProcs(t)
             PROVE  local_comm(r) = IoProcs(t)
  BY DEF LocalCommRight
<1> DEFINE outs == {l \in Links : Prod[l] = t}
           ins  == {l \in Links : Con[l] = t}
<1>1. r \in Procs(t) /\ r \in World /\ Constructed(r)
  BY DEF IoProcs
<1>2. local_comm(r) = IF outs # {} THEN comm(r, Min(outs))
                      ELSE IF ins # {} THEN comm(r, Min(ins)) ELSE World
  <2>1. TaskOf(r) = t /\ {l \in Links : Prod[l] = t /\ Mine(t, l)} = outs
    BY <1>1, TaskOfRank DEF NothingHidden, Mine
  <2> QED BY <2>1 DEF local_comm
<1>3. outs \in SUBSET Nat /\ ins \in SUBSET Nat
  BY LinkAssumption DEF Links
<1>4. CASE outs # {}
  <2>1. PICK l \in Links : l = Min(outs) /\ Prod[l] = t
    BY <1>3, <1>4, MinOfLinks
  <2>2. IoProcs(t) = Writers(t)
    BY <1>4, IoProcsAre
  <2>3. Joins(r, l) = Writers(t)
    BY <2>1, <2>2 DEF Joins
  <2> QED BY <1>1, <1>2, <1>4, <2>1, <2>2, <2>3, CommIsJoins
<1>5. CASE outs = {}
  <2>1. ins # {}
    BY <1>5 DEF Linked
  <2>2. PICK l \in Links : l = Min(ins) /\ Con[l] = t
    BY <1>3, <2>1, MinOfLinks
  <2>3. IoProcs(t) = Procs(t)
    BY <1>5, IoProcsAre
  <2>4. Prod[l] \in Tasks /\ Prod[l] # t
    BY <2>2, LinkAssumption
  <2>5. r \notin Writers(Prod[l])
    BY <1>1, <2>4, ProcsApart, WritersAreProcs
  <2>6. Joins(r, l) = Procs(t)
    BY <1>1, <2>2, <2>5 DEF Joins
  <2> QED BY <1>1, <1>2, <1>5, <2>1, <2>2, <2>3, <2>6, CommIsJoins
<1> QED BY <1>4, <1>5

(* If no link name hides its producer and every task has a link, the       *)
(* communicator given to LowFive is, on each rank of a task that does I/O, *)
(* that of exactly these ranks, whatever nwriters and the order of links.  *)
THEOREM LocalCommRightCorrect ==
  ASSUME NothingHidden, Linked
  PROVE  LSpec => []LocalCommRight
<1>1. DataflowsTypeOK => LocalCommRight
  BY LocalCommHolds
<1> QED BY <1>1, DataflowsInit, DataflowsStep, PTL DEF LSpec

-----------------------------------------------------------------------------
(***************************************************************************)
(* What a task still has to do in exec_task: barriers on links to it, then *)
(* the puppet, then barriers on links from it.  A group it waits for is    *)
(* among these barriers, or its producer's puppet has run.                 *)
(***************************************************************************)
InOrder(t, s) ==
  /\ \A i, j \in DOMAIN s : s[i] = 0 /\ j < i => s[j] # 0 /\ Con[s[j]] = t
  /\ \A i, j \in DOMAIN s : s[i] = 0 /\ i < j => s[j] # 0 /\ Prod[s[j]] = t
  /\ 0 \notin ToSet(s) => \A i \in DOMAIN s : Prod[s[i]] = t

WaitsOrRan(t) ==
  launch.passthruSupport =>
    \A l \in Waits(t) : l \in ToSet(calls[t]) \/ Ran(Prod[l])

CallsInv ==
  /\ calls \in [Tasks -> Seq(Links \cup {0})]
  /\ \A t \in Tasks : InOrder(t, calls[t]) /\ WaitsOrRan(t)

(* Barriers lists the links it is given.                                   *)
LEMMA BarriersAre ==
  ASSUME NEW ls \in SUBSET Links
  PROVE  Barriers(ls) \in Seq(Links) /\ ToSet(Barriers(ls)) = ls
<1> DEFINE list == [l \in Links |-> l]
           taken == Taken(list, ls, {})
<1>1. list \in Seq(Links) /\ ToSet(list) = Links
  <2>1. NumLinks \in Nat
    BY LinkAssumption
  <2>2. list \in Seq(Links)
    BY <2>1 DEF Links
  <2> QED BY <2>2 DEF ToSet
<1>2. taken \in Seq(Links) /\ TakesRight(list, ls, {}, taken)
  <2> HIDE DEF list
  <2> QED BY <1>1, TakenProperties
<1>3. \A e \in ToSet(taken) : e \in ls
  BY <1>2 DEF TakesRight
<1>4. \A e \in ls : e \in ToSet(taken)
  BY <1>1, <1>2 DEF TakesRight
<1>5. ToSet(taken) = ls
  <2> HIDE DEF taken
  <2> QED BY <1>3, <1>4
<1> QED BY <1>2, <1>5 DEF Barriers

(* The elements of a sequence of links around the puppet.                  *)
LEMMA AroundPuppet ==
  ASSUME NEW w \in Seq(Links), NEW c \in Seq(Links)
  PROVE  LET s == w \o <<0>> \o c IN
         /\ s \in Seq(Links \cup {0})
         /\ DOMAIN s = 1 .. Len(w) + 1 + Len(c)
         /\ \A i \in 1 .. Len(w) : s[i] = w[i]
         /\ s[Len(w) + 1] = 0
         /\ \A i \in Len(w) + 2 .. Len(w) + 1 + Len(c) :
               s[i] = c[i - Len(w) - 1] /\ i - Len(w) - 1 \in 1 .. Len(c)
OBVIOUS

(* Before anything runs, all calls are in their order.                     *)
LEMMA CallsInit == LInit => CallsInv
<1> SUFFICES ASSUME LInit PROVE CallsInv
  OBVIOUS
<1>1. ASSUME NEW t \in Tasks
      PROVE  /\ calls[t] \in Seq(Links \cup {0})
             /\ InOrder(t, calls[t]) /\ WaitsOrRan(t)
  <2>0. calls[t] = Calls(t)
    BY DEF LInit
  <2>1. CASE ~launch.passthruSupport
    <3>1. calls[t] = <<0>>
      BY <2>0, <2>1 DEF Calls
    <3>2. 0 \in ToSet(calls[t])
      BY <3>1 DEF ToSet
    <3>3. calls[t] \in Seq(Links \cup {0}) /\ DOMAIN calls[t] = {1}
      BY <3>1
    <3> QED BY <2>1, <3>2, <3>3 DEF InOrder, WaitsOrRan, Ran
  <2>2. CASE launch.passthruSupport
    <3> DEFINE w == Barriers(Waits(t))
               c == Barriers(Commits(t))
    <3>1. /\ Waits(t) \subseteq {l \in Links : Con[l] = t}
          /\ Commits(t) \subseteq {l \in Links : Prod[l] = t}
      BY DEF Waits, Commits, FirstLinks
    <3>2. /\ w \in Seq(Links) /\ ToSet(w) = Waits(t)
          /\ c \in Seq(Links) /\ ToSet(c) = Commits(t)
      BY <3>1, BarriersAre
    <3>3. calls[t] = w \o <<0>> \o c
      BY <2>0, <2>2 DEF Calls
    <3> HIDE DEF w, c
    <3>4. /\ calls[t] \in Seq(Links \cup {0})
          /\ DOMAIN calls[t] = 1 .. Len(w) + 1 + Len(c)
          /\ \A i \in 1 .. Len(w) : calls[t][i] = w[i]
          /\ calls[t][Len(w) + 1] = 0
          /\ \A i \in Len(w) + 2 .. Len(w) + 1 + Len(c) :
               /\ calls[t][i] = c[i - Len(w) - 1]
               /\ i - Len(w) - 1 \in 1 .. Len(c)
      BY <3>2, <3>3, AroundPuppet
    <3>5. /\ \A i \in 1 .. Len(w) : w[i] \in Waits(t)
          /\ \A i \in 1 .. Len(c) : c[i] \in Commits(t)
          /\ Len(w) \in Nat /\ Len(c) \in Nat
      BY <3>2 DEF ToSet
    <3>6. \A i \in 1 .. Len(w) : calls[t][i] # 0 /\ Con[calls[t][i]] = t
      BY <3>1, <3>4, <3>5 DEF Links
    <3>7. \A i \in Len(w) + 2 .. Len(w) + 1 + Len(c) :
             calls[t][i] # 0 /\ Prod[calls[t][i]] = t
      BY <3>1, <3>4, <3>5 DEF Links
    <3>8. \A i \in DOMAIN calls[t] : calls[t][i] = 0 => i = Len(w) + 1
      BY <3>4, <3>5, <3>6, <3>7
    <3>9. Len(w) + 1 \in DOMAIN calls[t] /\ ~Ran(t)
      BY <3>4, <3>5 DEF Ran, ToSet
    <3>10. InOrder(t, calls[t])
      <4>1. \A i, j \in DOMAIN calls[t] : calls[t][i] = 0 /\ j < i =>
                calls[t][j] # 0 /\ Con[calls[t][j]] = t
        BY <3>4, <3>5, <3>6, <3>8
      <4>2. \A i, j \in DOMAIN calls[t] : calls[t][i] = 0 /\ i < j =>
                calls[t][j] # 0 /\ Prod[calls[t][j]] = t
        BY <3>4, <3>5, <3>7, <3>8
      <4> QED BY <4>1, <4>2, <3>9 DEF InOrder, Ran
    <3>11. WaitsOrRan(t)
      <4>1. \A l \in Waits(t) : \E i \in 1 .. Len(w) : l = w[i]
        BY <3>2 DEF ToSet
      <4>2. 1 .. Len(w) \subseteq DOMAIN calls[t]
        BY <3>4, <3>5
      <4> QED BY <3>4, <4>1, <4>2 DEF WaitsOrRan, ToSet
    <3> QED BY <3>4, <3>10, <3>11
  <2> QED BY <2>1, <2>2
<1>2. calls = [t \in Tasks |-> calls[t]]
  BY DEF LInit
<1> QED BY <1>1, <1>2 DEF CallsInv

(* A call that is made leaves the list; what comes after it stays.         *)
LEMMA CallMade ==
  ASSUME NEW S, NEW s \in Seq(S), s # <<>>
  PROVE  /\ Tail(s) \in Seq(S) /\ Head(s) = s[1] /\ 1 \in DOMAIN s
         /\ \A i \in DOMAIN Tail(s) :
              i + 1 \in DOMAIN s /\ Tail(s)[i] = s[i + 1]
         /\ ToSet(s) = {Head(s)} \cup ToSet(Tail(s))
<1>1. /\ Tail(s) \in Seq(S) /\ Head(s) = s[1] /\ Len(s) \in Nat \ {0}
      /\ DOMAIN s = 1 .. Len(s) /\ DOMAIN Tail(s) = 1 .. Len(s) - 1
      /\ \A i \in 1 .. Len(s) - 1 : Tail(s)[i] = s[i + 1]
  OBVIOUS
<1>2. \A i \in DOMAIN s : i # 1 => i - 1 \in DOMAIN Tail(s) /\ s[i] = Tail(s)[i - 1]
  BY <1>1
<1>3. \A e \in ToSet(s) : e = Head(s) \/ e \in ToSet(Tail(s))
  BY <1>1, <1>2 DEF ToSet
<1>4. Head(s) \in ToSet(s) /\ \A e \in ToSet(Tail(s)) : e \in ToSet(s)
  BY <1>1 DEF ToSet
<1>5. \A i \in DOMAIN Tail(s) : i + 1 \in DOMAIN s
  BY <1>1
<1> QED BY <1>1, <1>3, <1>4, <1>5

(* Task t makes its first call.                                            *)
Makes(t) == calls[t] # <<>> /\ calls'[t] = Tail(calls[t])

(* Making the first call keeps the order of the others.                    *)
LEMMA MadeInOrder ==
  ASSUME CallsInv, NEW t \in Tasks, Makes(t)
  PROVE  InOrder(t, calls'[t])
<1> DEFINE s == calls[t]
           r == calls'[t]
<1>1. s \in Seq(Links \cup {0}) /\ InOrder(t, calls[t])
  BY DEF CallsInv
<1>2. /\ 1 \in DOMAIN s /\ Head(s) = s[1]
      /\ \A i \in DOMAIN r : i + 1 \in DOMAIN s /\ r[i] = s[i + 1]
      /\ ToSet(s) = {Head(s)} \cup ToSet(r)
      /\ \A i \in DOMAIN r : i \in Nat /\ 1 < i + 1
  <2>1. r = Tail(s) /\ s # <<>>
    BY DEF Makes
  <2>2. r \in Seq(Links \cup {0})
    BY <1>1, <2>1, CallMade
  <2>3. \A i \in DOMAIN r : i \in Nat /\ 1 < i + 1
    <3> HIDE DEF r
    <3> QED BY <2>2
  <2> QED BY <1>1, <2>1, <2>3, CallMade
<1>3. /\ \A i, j \in DOMAIN s : s[i] = 0 /\ j < i => s[j] # 0 /\ Con[s[j]] = t
      /\ \A i, j \in DOMAIN s : s[i] = 0 /\ i < j => s[j] # 0 /\ Prod[s[j]] = t
      /\ 0 \notin ToSet(s) => \A i \in DOMAIN s : Prod[s[i]] = t
  BY <1>1 DEF InOrder, Ran
<1> HIDE DEF s, r
<1>4. \A i, j \in DOMAIN r : r[i] = 0 /\ j < i => r[j] # 0 /\ Con[r[j]] = t
  <2> SUFFICES ASSUME NEW i \in DOMAIN r, NEW j \in DOMAIN r, r[i] = 0, j < i
               PROVE  r[j] # 0 /\ Con[r[j]] = t
    OBVIOUS
  <2>1. j + 1 < i + 1
    BY <1>2
  <2> QED BY <1>2, <1>3, <2>1
<1>5. \A i, j \in DOMAIN r : r[i] = 0 /\ i < j => r[j] # 0 /\ Prod[r[j]] = t
  <2> SUFFICES ASSUME NEW i \in DOMAIN r, NEW j \in DOMAIN r, r[i] = 0, i < j
               PROVE  r[j] # 0 /\ Prod[r[j]] = t
    OBVIOUS
  <2>1. i + 1 < j + 1
    BY <1>2
  <2> QED BY <1>2, <1>3, <2>1
<1>6. 0 \notin ToSet(r) => \A i \in DOMAIN r : Prod[r[i]] = t
  <2>1. CASE s[1] = 0
    BY <1>2, <1>3, <2>1
  <2>2. CASE s[1] # 0
    BY <1>2, <1>3, <2>2
  <2> QED BY <2>1, <2>2
<1> QED BY <1>4, <1>5, <1>6 DEF InOrder, Ran, r

(* A step makes the calls of some tasks; a puppet that has run stays so.   *)
LEMMA CallsStep ==
  ASSUME CallsInv, NEW U \in SUBSET Tasks, launch' = launch,
         \A t \in U : Makes(t),
         calls' = [t \in Tasks |-> IF t \in U THEN Tail(calls[t]) ELSE calls[t]],
         \A t \in U : \A l \in Waits(t) :
            launch.passthruSupport /\ l = Head(calls[t]) => Ran(Prod[l])'
  PROVE  CallsInv'
<1>1. calls' \in [Tasks -> Seq(Links \cup {0})]
  <2>1. \A t \in U : Tail(calls[t]) \in Seq(Links \cup {0})
    BY CallMade DEF CallsInv, Makes
  <2> QED BY <2>1 DEF CallsInv
<1>2. \A t \in U : ToSet(calls[t]) = {Head(calls[t])} \cup ToSet(calls'[t])
  <2> SUFFICES ASSUME NEW t \in U
               PROVE  ToSet(calls[t]) = {Head(calls[t])} \cup ToSet(calls'[t])
    OBVIOUS
  <2>1. calls[t] \in Seq(Links \cup {0}) /\ calls[t] # <<>>
    BY DEF CallsInv, Makes
  <2>2. calls'[t] = Tail(calls[t])
    BY DEF Makes
  <2> QED BY <2>1, <2>2, CallMade
<1>3. \A t \in Tasks \ U : calls'[t] = calls[t]
  OBVIOUS
<1>4. \A t \in Tasks : Ran(t) => Ran(t)'
  BY <1>2, <1>3 DEF Ran
<1>5. ASSUME NEW t \in Tasks PROVE InOrder(t, calls'[t])
  <2>1. CASE t \in U
    BY <2>1, MadeInOrder
  <2>2. CASE t \notin U
    <3>1. calls'[t] = calls[t] /\ InOrder(t, calls[t])
      BY <1>3, <2>2 DEF CallsInv
    <3> QED BY <3>1
  <2> QED BY <2>1, <2>2
<1>6. ASSUME NEW t \in Tasks PROVE WaitsOrRan(t)'
  <2> SUFFICES ASSUME launch.passthruSupport, NEW l \in Waits(t)
               PROVE  l \in ToSet(calls'[t]) \/ Ran(Prod[l])'
    BY DEF WaitsOrRan, Waits
  <2>1. l \in ToSet(calls[t]) \/ Ran(Prod[l])
    BY DEF CallsInv, WaitsOrRan
  <2>2. Prod[l] \in Tasks
    BY LinkAssumption DEF Waits, FirstLinks
  <2>3. CASE t \in U
    BY <1>2, <1>4, <2>1, <2>2, <2>3
  <2>4. CASE t \notin U
    BY <1>3, <1>4, <2>1, <2>2, <2>4
  <2> QED BY <2>3, <2>4
<1> QED BY <1>1, <1>5, <1>6 DEF CallsInv

(* A puppet runs.                                                          *)
LEMMA CallsPuppet ==
  ASSUME CallsInv, NEW t \in Tasks, RunPuppet(t)
  PROVE  CallsInv'
<1> DEFINE U == {t}
<1>1. /\ calls[t] # <<>> /\ Head(calls[t]) = 0 /\ launch' = launch
      /\ calls' = [calls EXCEPT ![t] = Tail(@)]
  BY DEF RunPuppet, Calling, Call, setting
<1>2. calls' = [u \in Tasks |-> IF u \in U THEN Tail(calls[u]) ELSE calls[u]]
  BY <1>1 DEF CallsInv
<1>3. \A u \in U : Makes(u)
  BY <1>1, <1>2 DEF Makes
<1>4. \A u \in U : \A l \in Waits(u) : l # Head(calls[u])
  BY <1>1, LinkAssumption DEF Waits, FirstLinks, Links
<1> HIDE DEF U
<1>5. U \in SUBSET Tasks
  BY DEF U
<1> QED BY <1>1, <1>2, <1>3, <1>4, <1>5, CallsStep

(* A producer and a consumer of a group pass its barrier.                  *)
Pass(s, t) ==
  /\ calls[s] # <<>> /\ Call(s) # 0 /\ Prod[Call(s)] = s
  /\ calls[t] # <<>> /\ Call(t) # 0 /\ Con[Call(t)] = t
  /\ Group[Call(s)] = Group[Call(t)] /\ launch' = launch
  /\ calls' = [u \in Tasks |-> IF u \in {s, t} THEN Tail(calls[u]) ELSE calls[u]]

LEMMA CallsPass ==
  ASSUME CallsInv, NEW s \in Tasks, NEW t \in Tasks, Pass(s, t)
  PROVE  CallsInv'
<1> DEFINE U == {s, t}
           k == Call(s)
           l == Call(t)
<1>1. /\ calls[s] # <<>> /\ k # 0 /\ Prod[k] = s
      /\ calls[t] # <<>> /\ l # 0 /\ Con[l] = t
      /\ Group[k] = Group[l] /\ launch' = launch
      /\ calls' = [u \in Tasks |-> IF u \in U THEN Tail(calls[u]) ELSE calls[u]]
  BY DEF Pass
<1>2. /\ k = calls[s][1] /\ 1 \in DOMAIN calls[s] /\ k = Head(calls[s])
      /\ l = calls[t][1] /\ 1 \in DOMAIN calls[t] /\ l = Head(calls[t])
      /\ ToSet(calls[s]) = {k} \cup ToSet(Tail(calls[s]))
      /\ k \in Links /\ l \in Links
  <2>1. calls[s] \in Seq(Links \cup {0}) /\ calls[t] \in Seq(Links \cup {0})
    BY DEF CallsInv
  <2>2. k \in Links \cup {0} /\ l \in Links \cup {0}
    BY <1>1, <2>1 DEF Call
  <2> QED BY <1>1, <2>1, <2>2, CallMade DEF Call
<1>3. Prod[l] = s /\ Con[k] = t /\ s # t
  BY <1>1, <1>2, GroupAssumption, LinkAssumption
(* The producer is past its puppet, as its barrier is on an outgoing link. *)
<1>4. Ran(s)
  <2> SUFFICES ASSUME 0 \in ToSet(calls[s]) PROVE FALSE
    BY DEF Ran
  <2>1. PICK i \in DOMAIN calls[s] : calls[s][i] = 0
    BY DEF ToSet
  <2>2. 1 < i
    <3>1. i \in Nat \ {0} /\ i # 1
      BY <1>1, <1>2, <2>1 DEF CallsInv
    <3> QED BY <3>1
  <2>3. Con[calls[s][1]] = s
    BY <1>2, <2>1, <2>2 DEF CallsInv, InOrder
  <2> QED BY <1>2, <1>3, <2>3
<1>5. calls'[s] = Tail(calls[s]) /\ calls'[t] = Tail(calls[t])
  BY <1>1
<1>6. Ran(s)'
  BY <1>2, <1>4, <1>5 DEF Ran
<1>7. \A u \in U : Makes(u)
  BY <1>1, <1>5 DEF Makes
<1>8. \A u \in U : \A e \in Waits(u) :
        launch.passthruSupport /\ e = Head(calls[u]) => Ran(Prod[e])'
  <2>1. \A u \in Tasks : \A e \in Waits(u) : e \in Links /\ Con[e] = u
    BY DEF Waits, FirstLinks
  <2>2. \A e \in Waits(s) : e # Head(calls[s])
    BY <1>2, <1>3, <2>1
  <2>3. \A e \in Waits(t) : e = Head(calls[t]) => Prod[e] = s
    BY <1>2, <1>3
  <2> QED BY <1>6, <2>2, <2>3
<1> HIDE DEF U, k, l
<1>9. U \in SUBSET Tasks
  BY DEF U
<1> QED BY <1>1, <1>7, <1>8, <1>9, CallsStep

(* When a task has walked all links, the intercommunicator it uses for one *)
(* of its own was created by both ends for the link's group.               *)
LEMMA HandleMeans ==
  ASSUME WInv, NEW t \in Tasks, ~Walking(t), NEW l \in Links, Mine(t, l)
  PROVE  /\ Group[Handle(t, l).mine] = Group[l]
         /\ Group[Handle(t, l).theirs] = Group[l]
<1>1. l < at[t]
  <2>1. at[t] \in 1 .. NumLinks + 1 /\ NumLinks \in Nat
    BY LinkAssumption DEF WInv, WalkTypeOK
  <2> QED BY <2>1 DEF Walking, Links
<1>2. PICK i \in DOMAIN comms[t] : Group[comms[t][i].mine] = Group[l]
  BY <1>1 DEF WInv, Covered
<1>3. /\ Handle(t, l) \in ToSet(comms[t])
      /\ Group[Handle(t, l).mine] = Group[l]
  <2>1. comms[t][i] \in ToSet(comms[t])
    BY DEF ToSet
  <2>2. \E c \in ToSet(comms[t]) : Group[c.mine] = Group[l]
    BY <1>2, <2>1
  <2> QED BY <2>2 DEF Handle
<1>4. PICK j \in DOMAIN comms[t] : Handle(t, l) = comms[t][j]
  BY <1>3 DEF ToSet
<1>5. Group[comms[t][j].mine] = Group[comms[t][j].theirs]
  BY DEF WInv, PeersAgree
<1> QED BY <1>3, <1>4, <1>5

(* What a task calls is a barrier on a link of its own, or the puppet.     *)
LEMMA CallIsOwn ==
  ASSUME CallsInv, NEW t \in Tasks, calls[t] # <<>>, Call(t) # 0
  PROVE  Call(t) \in Links /\ t \in {Prod[Call(t)], Con[Call(t)]}
<1> DEFINE s == calls[t]
<1>1. s \in Seq(Links \cup {0}) /\ InOrder(t, calls[t])
  BY DEF CallsInv
<1>2. s[1] = Call(t) /\ 1 \in DOMAIN s /\ Call(t) \in Links
  <2>1. s[1] = Call(t) /\ 1 \in DOMAIN s
    BY <1>1, CallMade DEF Call
  <2>2. s[1] \in Links \cup {0}
    BY <1>1, <2>1
  <2> QED BY <2>1, <2>2
<1>3. CASE 0 \in ToSet(s)
  <2>1. PICK i \in DOMAIN s : s[i] = 0
    BY <1>3 DEF ToSet
  <2>2. 1 < i
    <3>1. i \in Nat \ {0} /\ i # 1
      BY <1>1, <1>2, <2>1
    <3> QED BY <3>1
  <2> QED BY <1>1, <1>2, <2>1, <2>2 DEF InOrder
<1>4. CASE 0 \notin ToSet(s)
  BY <1>1, <1>2, <1>4 DEF InOrder
<1> QED BY <1>2, <1>3, <1>4

(* Two tasks that meet are the producer and the consumer of a group.       *)
LEMMA CallsMeet ==
  ASSUME NothingHidden, WInv, SInv, CallsInv,
         NEW s \in Tasks, NEW t \in Tasks, Meet(s, t)
  PROVE  CallsInv'
<1>1. /\ calls[s] # <<>> /\ Call(s) # 0 /\ ready[s]
      /\ calls[t] # <<>> /\ Call(t) # 0 /\ ready[t] /\ s # t
      /\ launch' = launch
      /\ calls' = [u \in Tasks |-> IF u \in {s, t} THEN Tail(calls[u]) ELSE calls[u]]
      /\ Handle(s, Call(s)).theirs = Handle(t, Call(t)).mine
  BY DEF Meet, Calling, setting
<1>2. /\ Call(s) \in Links /\ s \in {Prod[Call(s)], Con[Call(s)]}
      /\ Call(t) \in Links /\ t \in {Prod[Call(t)], Con[Call(t)]}
  BY <1>1, CallIsOwn
<1>3. Mine(s, Call(s)) /\ Mine(t, Call(t))
  BY <1>2 DEF Mine, NothingHidden
<1>4. ~Walking(s) /\ ~Walking(t)
  BY <1>1 DEF SInv, SetUpRight
<1>5. /\ Group[Handle(s, Call(s)).theirs] = Group[Call(s)]
      /\ Group[Handle(t, Call(t)).mine] = Group[Call(t)]
  BY <1>2, <1>3, <1>4, HandleMeans
<1>6. Group[Call(s)] = Group[Call(t)]
  BY <1>1, <1>5
<1>7. Prod[Call(s)] = Prod[Call(t)] /\ Con[Call(s)] = Con[Call(t)]
  BY <1>2, <1>6, GroupAssumption
<1>8. CASE Prod[Call(s)] = s
  <2>1. Pass(s, t)
    BY <1>1, <1>2, <1>6, <1>7, <1>8 DEF Pass
  <2> QED BY <2>1, CallsPass
<1>9. CASE Prod[Call(s)] # s
  <2>1. Prod[Call(t)] = t /\ Con[Call(s)] = s
    BY <1>1, <1>2, <1>7, <1>9
  <2>2. calls' = [u \in Tasks |-> IF u \in {t, s} THEN Tail(calls[u]) ELSE calls[u]]
    BY <1>1
  <2>3. Pass(t, s)
    BY <1>1, <1>6, <2>1, <2>2 DEF Pass
  <2> QED BY <2>3, CallsPass
<1> QED BY <1>8, <1>9

(* Every step keeps CallsInv.                                              *)
LEMMA CallsInvStep ==
  NothingHidden /\ WInv /\ SInv /\ CallsInv /\ [LNext]_lVars => CallsInv'
<1> SUFFICES ASSUME NothingHidden, WInv, SInv, CallsInv, [LNext]_lVars
             PROVE  CallsInv'
  OBVIOUS
<1>1. CASE UNCHANGED <<launch, calls>>
  <2>1. \A t \in Tasks : Ran(t)' <=> Ran(t)
    BY <1>1 DEF Ran
  <2>2. \A t \in Tasks : \A l \in Waits(t) : Prod[l] \in Tasks
    BY LinkAssumption DEF Waits, FirstLinks
  <2>3. \A t \in Tasks : Waits(t)' = Waits(t)
    BY DEF Waits, FirstLinks, FileOnly
  <2>4. \A t \in Tasks : InOrder(t, calls'[t])
    BY <1>1 DEF CallsInv
  <2>5. \A t \in Tasks : WaitsOrRan(t)'
    BY <1>1, <2>1, <2>2, <2>3 DEF CallsInv, WaitsOrRan
  <2> QED BY <1>1, <2>4, <2>5 DEF CallsInv
<1>2. CASE \E t \in Tasks : RunPuppet(t)
  BY <1>2, CallsPuppet
<1>3. CASE \E s, t \in Tasks : Meet(s, t)
  BY <1>3, CallsMeet
<1>4. CASE UNCHANGED lVars
  BY <1>1, <1>4 DEF lVars, setting
<1> QED
  BY <1>1, <1>2, <1>3, <1>4
  DEF LNext, CreateComm, BuildIntercomms, Abort, StrayCall, setting

(* With -p 1, a puppet that reads a file in file mode only runs after the  *)
(* puppet that writes it, if no link name contains the func of its         *)
(* producer: commit() comes after the producer's puppet, and its barrier   *)
(* is on the intercommunicator of the consumer's wait(), as both ends mean *)
(* the same group by it.                                                   *)
THEOREM ReadsAfterRunCorrect ==
  ASSUME NothingHidden
  PROVE  LSpec => []ReadsAfterRun
<1>1. CallsInv => ReadsAfterRun
  <2> SUFFICES ASSUME CallsInv, launch.passthruSupport,
                      NEW t \in Tasks, Ran(t), NEW l \in Waits(t)
               PROVE  Ran(Prod[l])
    BY DEF ReadsAfterRun
  <2>1. l \in Links /\ Con[l] = t /\ Prod[l] # t
    BY LinkAssumption DEF Waits, FirstLinks
  <2>2. l \notin ToSet(calls[t])
    BY <2>1 DEF CallsInv, InOrder, Ran, ToSet
  <2> QED BY <2>2 DEF CallsInv, WaitsOrRan
<1>2. LInit => WInv /\ SInv /\ CallsInv
  BY WInvInit, SInvInit, CallsInit, LaunchInit
<1>3. WInv /\ SInv /\ CallsInv /\ [LNext]_lVars => WInv' /\ SInv' /\ CallsInv'
  BY WInvStep, SInvStep, CallsInvStep, LaunchStep
<1> QED BY <1>1, <1>2, <1>3, PTL DEF LSpec
=============================================================================
