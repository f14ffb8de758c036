-------------------------- MODULE Intercomms_proofs --------------------------
(***************************************************************************)
(* Theorems about build_intercomms, for any workflow whose link names do   *)
(* not hide their producers: no deadlock, and the two ends of every        *)
(* intercommunicator mean the same execution group.  If moreover the links *)
(* of each group follow one another, indices name their own group, and the *)
(* lists that main makes of the LowFive properties are those that exec_task*)
(* and the passthru callbacks rely on.                                     *)
(***************************************************************************)
EXTENDS Intercomms, Induction_proofs

(* Where a task can be.                                                    *)
LEMMA AtType ==
  ASSUME WalkTypeOK
  PROVE  /\ NumLinks \in Nat
         /\ at \in [Tasks -> 1 .. NumLinks + 1]
         /\ \A t \in Tasks : at[t] \in Nat
<1>1. NumLinks \in Nat /\ at \in [Tasks -> 1 .. NumLinks + 1]
  BY LinkAssumption DEF WalkTypeOK
<1> QED BY <1>1

(* A step moves one or two tasks one link further.                         *)
LEMMA MoveOne ==
  ASSUME WalkTypeOK, NEW t \in Tasks, Walking(t),
         at' = [at EXCEPT ![t] = @ + 1]
  PROVE  /\ at[t] \in Links
         /\ at' \in [Tasks -> 1 .. NumLinks + 1]
         /\ at'[t] = at[t] + 1
         /\ \A u \in Tasks : u # t => at'[u] = at[u]
<1>1. at[t] \in Links
  BY AtType DEF Walking, Links
<1> QED BY <1>1, AtType DEF Links

LEMMA MoveTwo ==
  ASSUME WalkTypeOK, NEW s \in Tasks, NEW t \in Tasks, Walking(s), Walking(t),
         at' = [u \in Tasks |-> IF u \in {s, t} THEN at[u] + 1 ELSE at[u]]
  PROVE  /\ at[s] \in Links /\ at[t] \in Links
         /\ at' \in [Tasks -> 1 .. NumLinks + 1]
         /\ at'[s] = at[s] + 1 /\ at'[t] = at[t] + 1
         /\ \A u \in Tasks : u \notin {s, t} => at'[u] = at[u]
<1>1. at[s] \in Links /\ at[t] \in Links
  BY AtType DEF Walking, Links
<1>2. \A u \in Tasks : at'[u] \in 1 .. NumLinks + 1
  BY <1>1, AtType DEF Links
<1> QED BY <1>1, <1>2, AtType

(* A task walks along the links, and its lists stay lists of links.        *)
LEMMA WalkTypeStep == WalkTypeOK /\ [Next]_vars => WalkTypeOK'
<1> SUFFICES ASSUME WalkTypeOK, [Next]_vars PROVE WalkTypeOK'
  OBVIOUS
<1>0. /\ comms \in [Tasks -> Seq(Comm)]
      /\ props \in [Tasks -> Seq([link : Links, index : Nat])]
  BY DEF WalkTypeOK
<1>1. ASSUME NEW t \in Tasks, PassLink(t) PROVE WalkTypeOK'
  <2>1. at' \in [Tasks -> 1 .. NumLinks + 1]
    BY <1>1, MoveOne DEF PassLink, Passing
  <2> QED BY <1>0, <1>1, <2>1 DEF WalkTypeOK, PassLink
<1>2. ASSUME NEW t \in Tasks, ReuseIntercomm(t) PROVE WalkTypeOK'
  <2>1. at[t] \in Links /\ at' \in [Tasks -> 1 .. NumLinks + 1]
    BY <1>2, MoveOne DEF ReuseIntercomm, Reusing
  <2>2. LastIndex(t) \in Nat
    <3>1. comms[t] \in Seq(Comm)
      BY <1>0
    <3>2. PICK i \in DOMAIN comms[t] : TRUE
      BY <1>2 DEF ReuseIntercomm, Reusing, Known
    <3>3. i \in 1 .. Len(comms[t]) /\ Len(comms[t]) \in Nat
      BY <3>1, <3>2, LenProperties
    <3> QED BY <3>3 DEF LastIndex
  <2>3. props' \in [Tasks -> Seq([link : Links, index : Nat])]
    <3> DEFINE Prop == [link : Links, index : Nat]
    <3>1. [link |-> Here(t), index |-> LastIndex(t)] \in Prop
      BY <2>1, <2>2 DEF Here
    <3>2. ASSUME NEW u \in Tasks PROVE props[u] \in Seq(Prop)
      BY <1>0
    <3> HIDE DEF Prop
    <3>3. Append(props[t], [link |-> Here(t), index |-> LastIndex(t)])
            \in Seq(Prop)
      BY <3>1, <3>2, AppendProperties
    <3>4. props' \in [Tasks -> Seq(Prop)]
      <4>1. props \in [Tasks -> Seq(Prop)]
        BY <1>0 DEF Prop
      <4> QED BY <1>2, <3>3, <4>1 DEF ReuseIntercomm
    <3> QED BY <3>4 DEF Prop
  <2> QED BY <1>0, <1>2, <2>1, <2>3 DEF WalkTypeOK, ReuseIntercomm
<1>3. ASSUME NEW s \in Tasks, NEW t \in Tasks, CreateIntercomm(s, t)
      PROVE  WalkTypeOK'
  <2>1. /\ at[s] \in Links /\ at[t] \in Links
        /\ at' \in [Tasks -> 1 .. NumLinks + 1]
    BY <1>3, MoveTwo DEF CreateIntercomm, Meeting, Asking
  <2>2. comms' \in [Tasks -> Seq(Comm)]
    <3>1. ASSUME NEW u \in {s, t}
          PROVE  [mine |-> Here(u), theirs |-> Here(IF u = s THEN t ELSE s)]
                   \in Comm
      BY <2>1 DEF Comm, Here
    <3>2. ASSUME NEW u \in Tasks PROVE comms[u] \in Seq(Comm)
      BY <1>0
    <3>3. ASSUME NEW u \in {s, t}
          PROVE  Append(comms[u], [mine |-> Here(u),
                        theirs |-> Here(IF u = s THEN t ELSE s)]) \in Seq(Comm)
      BY <3>1, <3>2, AppendProperties
    <3> QED BY <1>3, <3>2, <3>3 DEF CreateIntercomm
  <2>3. props' \in [Tasks -> Seq([link : Links, index : Nat])]
    <3>1. ASSUME NEW u \in {s, t}
          PROVE  [link |-> Here(u), index |-> NextIndex(u)]
                   \in [link : Links, index : Nat]
      <4>1. comms[u] \in Seq(Comm)
        BY <1>0
      <4>2. Len(comms[u]) \in Nat
        BY <4>1, LenProperties
      <4> QED BY <2>1, <4>2 DEF NextIndex, Here
    <3> DEFINE Prop == [link : Links, index : Nat]
    <3>2. ASSUME NEW u \in Tasks PROVE props[u] \in Seq(Prop)
      BY <1>0
    <3>3. ASSUME NEW u \in {s, t}
          PROVE  Append(props[u], [link |-> Here(u), index |-> NextIndex(u)])
                   \in Seq(Prop)
      <4> HIDE DEF Prop
      <4>1. [link |-> Here(u), index |-> NextIndex(u)] \in Prop
        BY <3>1 DEF Prop
      <4> QED BY <3>2, <4>1, AppendProperties
    <3> HIDE DEF Prop
    <3>4. props' \in [Tasks -> Seq(Prop)]
      BY <1>3, <3>2, <3>3 DEF CreateIntercomm
    <3> QED BY <3>4 DEF Prop
  <2> QED BY <2>1, <2>2, <2>3 DEF WalkTypeOK
<1>4. ASSUME NEW t \in Tasks, SetUp(t) PROVE WalkTypeOK'
  BY <1>4 DEF SetUp, walk, WalkTypeOK
<1>5. CASE UNCHANGED vars
  BY <1>5 DEF vars, WalkTypeOK
<1> QED BY <1>1, <1>2, <1>3, <1>4, <1>5 DEF Next

(* The walk is well typed in every workflow.                               *)
THEOREM WalkTypeCorrect == Spec => []WalkTypeOK
<1>1. Init => WalkTypeOK
  BY LinkAssumption DEF Init, WalkTypeOK
<1> QED BY <1>1, WalkTypeStep, PTL DEF Spec

-----------------------------------------------------------------------------
(* The inductive invariant.                                                *)

(* The intercommunicators of a task are for links of its own behind it.    *)
Behind == \A t \in Tasks : \A i \in DOMAIN comms[t] :
            /\ comms[t][i].mine < at[t]
            /\ Mine(t, comms[t][i].mine)

(* And every link of its own behind it has one.                            *)
Covered == \A t \in Tasks : \A l \in Links :
             l < at[t] /\ Mine(t, l) =>
               \E i \in DOMAIN comms[t] : Group[comms[t][i].mine] = Group[l]

(* The two ends pass the first link of a group together.                   *)
First(l) == \A k \in Links : k < l => Group[k] # Group[l]

Together == \A l \in Links : First(l) =>
              (at[Prod[l]] > l <=> at[Con[l]] > l)

(* The inductive invariant of the walk.                                    *)
WInv == WalkTypeOK /\ Behind /\ Covered /\ Together /\ PeersAgree

(* No link has a name in which its producer's func occurs.                 *)
NothingHidden == Hidden = {}

(* A task asks for an intercommunicator at the first link of a group only. *)
LEMMA AskingFirst ==
  ASSUME NothingHidden, WInv, NEW t \in Tasks, Asking(t)
  PROVE  /\ at[t] \in Links /\ First(at[t])
         /\ Prod[at[t]] = t \/ Con[at[t]] = t
<1>1. at[t] \in Links
  BY AtType DEF WInv, Asking, Walking, Links
<1>2. ASSUME NEW k \in Links, k < at[t], Group[k] = Group[at[t]]
      PROVE  FALSE
  <2>1. Mine(t, k)
    BY <1>1, <1>2, GroupAssumption DEF Asking, Mine, Here, NothingHidden
  <2>2. Known(t)
    BY <1>2, <2>1 DEF WInv, Covered, Known, Here
  <2> QED BY <2>2 DEF Asking
<1> QED BY <1>1, <1>2 DEF First, Asking, Mine, Here

(* Two tasks that meet are at the same link.                               *)
LEMMA MeetingSame ==
  ASSUME NothingHidden, WInv, NEW s \in Tasks, NEW t \in Tasks, Meeting(s, t)
  PROVE  at[s] = at[t]
<1>1. /\ at[s] \in Links /\ First(at[s])
      /\ at[t] \in Links /\ First(at[t])
      /\ Prod[at[s]] = s \/ Con[at[s]] = s
      /\ Prod[at[t]] = t \/ Con[at[t]] = t
  BY AskingFirst DEF Meeting
<1>2. /\ {Prod[at[s]], Con[at[s]]} = {s, t}
      /\ {Prod[at[t]], Con[at[t]]} = {s, t}
  BY <1>1 DEF Meeting, Remote, Here
<1>3. ~(at[t] > at[s])
  BY <1>1, <1>2 DEF WInv, Together, Links
<1>4. ~(at[s] > at[t])
  BY <1>1, <1>2 DEF WInv, Together, Links
<1> QED BY <1>1, <1>3, <1>4, LinkAssumption DEF Links

(* An intercommunicator was created for a link.                            *)
LEMMA CommLink ==
  ASSUME WalkTypeOK, NEW t \in Tasks, NEW i \in DOMAIN comms[t]
  PROVE  comms[t][i].mine \in Links /\ comms[t][i].theirs \in Links
<1>1. comms[t] \in Seq(Comm)
  BY DEF WalkTypeOK
<1>2. comms[t][i] \in Comm
  BY <1>1, ElementOfSeq, LenProperties
<1> QED BY <1>2 DEF Comm

(* Moving a task on leaves its intercommunicators behind.                  *)
LEMMA BehindMoved ==
  ASSUME WalkTypeOK, Behind, NEW t \in Tasks, comms' = comms,
         at'[t] = at[t] + 1,
         \A u \in Tasks : at[u] \in Nat /\ (u # t => at'[u] = at[u])
  PROVE  Behind'
<1> SUFFICES ASSUME NEW u \in Tasks, NEW i \in DOMAIN comms[u]
             PROVE  comms[u][i].mine < at'[u] /\ Mine(u, comms[u][i].mine)
  BY DEF Behind, Mine
<1>1. comms[u][i].mine < at[u] /\ Mine(u, comms[u][i].mine)
  BY DEF Behind
<1>2. comms[u][i].mine \in Int
  BY CommLink DEF Links
<1> QED BY <1>1, <1>2

(* Passing or reusing moves one task past a link that is not the first of  *)
(* a group it belongs to.                                                  *)
LEMMA WInvPass ==
  ASSUME NothingHidden, WInv, NEW t \in Tasks, PassLink(t)
  PROVE  WInv'
<1> USE DEF WInv
<1>1. WalkTypeOK'
  BY WalkTypeStep DEF Next
<1>2. at[t] \in Links /\ ~Mine(t, at[t]) /\ comms' = comms
  BY MoveOne DEF PassLink, Passing, Here
<1>3. /\ at'[t] = at[t] + 1
      /\ \A u \in Tasks : at[u] \in Nat /\ (u # t => at'[u] = at[u])
  BY AtType, MoveOne DEF PassLink, Passing
<1>4. Behind'
  BY <1>2, <1>3, BehindMoved
<1>5. Covered'
  <2> SUFFICES ASSUME NEW u \in Tasks, NEW l \in Links,
                      l < at'[u], Mine(u, l)
               PROVE  \E i \in DOMAIN comms[u] :
                        Group[comms[u][i].mine] = Group[l]
    BY <1>2 DEF Covered, Mine
  <2>1. l < at[u]
    BY <1>2, <1>3 DEF Links
  <2> QED BY <2>1 DEF Covered
<1>6. Together'
  <2> SUFFICES ASSUME NEW l \in Links, First(l)
               PROVE  at'[Prod[l]] > l <=> at'[Con[l]] > l
    BY DEF Together, First
  <2>1. at[t] = l => Prod[l] # t /\ Con[l] # t
    BY <1>2 DEF Mine, NothingHidden
  <2>2. ASSUME NEW u \in Tasks, u = Prod[l] \/ u = Con[l]
        PROVE  at'[u] > l <=> at[u] > l
    BY <1>2, <1>3, <2>1, <2>2 DEF Links
  <2>3. Prod[l] \in Tasks /\ Con[l] \in Tasks
    BY LinkAssumption
  <2> QED BY <2>2, <2>3 DEF Together
<1>7. PeersAgree'
  BY <1>2 DEF PeersAgree
<1> QED BY <1>1, <1>4, <1>5, <1>6, <1>7

LEMMA WInvReuse ==
  ASSUME NothingHidden, WInv, NEW t \in Tasks, ReuseIntercomm(t)
  PROVE  WInv'
<1> USE DEF WInv
<1>1. WalkTypeOK'
  BY WalkTypeStep DEF Next
<1>2. at[t] \in Links /\ Known(t) /\ comms' = comms
  BY MoveOne DEF ReuseIntercomm, Reusing, Here
<1>3. /\ at'[t] = at[t] + 1
      /\ \A u \in Tasks : at[u] \in Nat /\ (u # t => at'[u] = at[u])
  BY AtType, MoveOne DEF ReuseIntercomm, Reusing
<1>4. Behind'
  BY <1>2, <1>3, BehindMoved
<1>5. Covered'
  <2> SUFFICES ASSUME NEW u \in Tasks, NEW l \in Links,
                      l < at'[u], Mine(u, l)
               PROVE  \E i \in DOMAIN comms[u] :
                        Group[comms[u][i].mine] = Group[l]
    BY <1>2 DEF Covered, Mine
  <2>1. CASE l < at[u]
    BY <2>1 DEF Covered
  <2>2. CASE ~(l < at[u])
    <3>1. u = t /\ l = at[t]
      BY <1>2, <1>3, <2>2 DEF Links
    <3> QED BY <1>2, <3>1 DEF Known, Here
  <2> QED BY <2>1, <2>2
<1>6. Together'
  <2> SUFFICES ASSUME NEW l \in Links, First(l)
               PROVE  at'[Prod[l]] > l <=> at'[Con[l]] > l
    BY DEF Together, First
  <2>1. at[t] # l
    <3>1. PICK i \in DOMAIN comms[t] : Group[comms[t][i].mine] = Group[at[t]]
      BY <1>2 DEF Known, Here
    <3>2. comms[t][i].mine \in Links /\ comms[t][i].mine < at[t]
      BY CommLink DEF Behind
    <3> QED BY <3>1, <3>2 DEF First
  <2>2. ASSUME NEW u \in Tasks
        PROVE  at'[u] > l <=> at[u] > l
    BY <1>2, <1>3, <2>1 DEF Links
  <2>3. Prod[l] \in Tasks /\ Con[l] \in Tasks
    BY LinkAssumption
  <2> QED BY <2>2, <2>3 DEF Together
<1>7. PeersAgree'
  BY <1>2 DEF PeersAgree
<1> QED BY <1>1, <1>4, <1>5, <1>6, <1>7

LEMMA WInvCreate ==
  ASSUME NothingHidden, WInv, NEW s \in Tasks, NEW t \in Tasks,
         CreateIntercomm(s, t)
  PROVE  WInv'
<1>1. WalkTypeOK'
  BY WalkTypeStep DEF Next, WInv
<1>2. /\ at[s] \in Links /\ at[t] = at[s] /\ First(at[s])
      /\ Prod[at[s]] = s \/ Con[at[s]] = s
      /\ Prod[at[s]] = t \/ Con[at[s]] = t
      /\ s # t
  <2>1. at[s] = at[t]
    BY MeetingSame DEF CreateIntercomm
  <2>2. /\ at[s] \in Links /\ First(at[s])
        /\ Prod[at[s]] = s \/ Con[at[s]] = s
        /\ Prod[at[t]] = t \/ Con[at[t]] = t
    BY AskingFirst DEF CreateIntercomm, Meeting
  <2>3. s # t
    BY <2>1, <2>2, LinkAssumption DEF CreateIntercomm, Meeting, Remote, Here
  <2> QED BY <2>1, <2>2, <2>3
<1>3. /\ at'[s] = at[s] + 1 /\ at'[t] = at[s] + 1
      /\ \A u \in Tasks : at[u] \in Nat /\ (u \notin {s, t} => at'[u] = at[u])
  BY <1>2, AtType, MoveTwo DEF CreateIntercomm, Meeting, Asking, WInv
<1> DEFINE new == [mine |-> at[s], theirs |-> at[s]]
<1>4. \A u \in Tasks : comms'[u] = IF u \in {s, t} THEN Append(comms[u], new)
                                                   ELSE comms[u]
  BY <1>2 DEF CreateIntercomm, Here
<1>5. \A u \in Tasks : comms[u] \in Seq(Comm)
  BY DEF WInv, WalkTypeOK
<1>6. new \in Comm /\ new.mine = at[s] /\ new.theirs = at[s]
  BY <1>2 DEF Comm
<1> HIDE DEF new
<1>7. ASSUME NEW u \in Tasks, NEW i \in DOMAIN comms'[u]
      PROVE  \/ i \in DOMAIN comms[u] /\ comms'[u][i] = comms[u][i]
             \/ u \in {s, t} /\ comms'[u][i] = new
  <2>1. CASE u \in {s, t}
    <3>1. comms'[u] = Append(comms[u], new)
      BY <1>4, <2>1
    <3>2. comms[u] \in Seq(Comm)
      BY <1>5
    <3>3. i \in DOMAIN comms[u] \/ Append(comms[u], new)[i] = new
      BY <1>6, <1>7, <3>1, <3>2, AppendDomain
    <3>4. i \in DOMAIN comms[u] => Append(comms[u], new)[i] = comms[u][i]
      BY <1>6, <3>2, AppendDomain
    <3> QED BY <2>1, <3>1, <3>3, <3>4
  <2>2. CASE u \notin {s, t}
    BY <1>4, <2>2
  <2> QED BY <2>1, <2>2
<1>8. ASSUME NEW u \in Tasks, NEW i \in DOMAIN comms[u]
      PROVE  i \in DOMAIN comms'[u] /\ comms'[u][i] = comms[u][i]
  <2>1. comms[u] \in Seq(Comm)
    BY <1>5
  <2>2. /\ i \in DOMAIN Append(comms[u], new)
        /\ Append(comms[u], new)[i] = comms[u][i]
    BY <1>6, <2>1, AppendDomain
  <2> QED BY <1>4, <2>2
<1>9. ASSUME NEW u \in {s, t}
      PROVE  \E i \in DOMAIN comms'[u] : comms'[u][i] = new
  <2>1. comms'[u] = Append(comms[u], new) /\ comms[u] \in Seq(Comm)
    BY <1>4, <1>5
  <2>2. /\ Append(comms[u], new)[Len(comms[u]) + 1] = new
        /\ Len(comms[u]) + 1 \in DOMAIN Append(comms[u], new)
    BY <2>1, <1>6, AppendProperties, LenProperties
  <2> QED BY <2>1, <2>2
<1>10. Behind'
  <2> SUFFICES ASSUME NEW u \in Tasks, NEW i \in DOMAIN comms'[u]
               PROVE  comms'[u][i].mine < at'[u] /\ Mine(u, comms'[u][i].mine)
    BY DEF Behind, Mine
  <2>1. CASE i \in DOMAIN comms[u] /\ comms'[u][i] = comms[u][i]
    <3>1. comms[u][i].mine < at[u] /\ Mine(u, comms[u][i].mine)
      BY <2>1 DEF WInv, Behind
    <3>2. comms[u][i].mine \in Int
      BY <2>1, CommLink DEF WInv, Links
    <3> QED BY <1>2, <1>3, <2>1, <3>1, <3>2
  <2>2. CASE u \in {s, t} /\ comms'[u][i] = new
    BY <1>2, <1>3, <1>6, <2>2 DEF Mine, NothingHidden, Links
  <2> QED BY <1>7, <2>1, <2>2
<1>11. Covered'
  <2> SUFFICES ASSUME NEW u \in Tasks, NEW l \in Links,
                      l < at'[u], Mine(u, l)
               PROVE  \E i \in DOMAIN comms'[u] :
                        Group[comms'[u][i].mine] = Group[l]
    BY DEF Covered, Mine
  <2>1. CASE l < at[u]
    <3>1. PICK i \in DOMAIN comms[u] : Group[comms[u][i].mine] = Group[l]
      BY <2>1 DEF WInv, Covered
    <3> QED BY <1>8, <3>1
  <2>2. CASE ~(l < at[u])
    <3>1. u \in {s, t} /\ l = at[s]
      BY <1>2, <1>3, <2>2 DEF Links
    <3> QED BY <1>6, <1>9, <3>1
  <2> QED BY <2>1, <2>2
<1>12. Together'
  <2> SUFFICES ASSUME NEW l \in Links, First(l)
               PROVE  at'[Prod[l]] > l <=> at'[Con[l]] > l
    BY DEF Together, First
  <2>1. Prod[l] \in Tasks /\ Con[l] \in Tasks
    BY LinkAssumption
  <2>2. CASE l = at[s]
    <3>1. {Prod[l], Con[l]} = {s, t}
      BY <1>2, <2>2
    <3> QED BY <1>2, <1>3, <2>2, <3>1 DEF Links
  <2>3. CASE l # at[s]
    <3>1. ASSUME NEW u \in Tasks PROVE at'[u] > l <=> at[u] > l
      BY <1>2, <1>3, <2>3 DEF Links
    <3> QED BY <2>1, <3>1 DEF WInv, Together
  <2> QED BY <2>2, <2>3
<1>13. PeersAgree'
  <2> SUFFICES ASSUME NEW u \in Tasks, NEW i \in DOMAIN comms'[u]
               PROVE  Group[comms'[u][i].mine] = Group[comms'[u][i].theirs]
    BY DEF PeersAgree
  <2>1. CASE i \in DOMAIN comms[u] /\ comms'[u][i] = comms[u][i]
    BY <2>1 DEF WInv, PeersAgree
  <2>2. CASE u \in {s, t} /\ comms'[u][i] = new
    BY <1>6, <2>2
  <2> QED BY <1>7, <2>1, <2>2
<1> QED BY <1>1, <1>10, <1>11, <1>12, <1>13 DEF WInv

LEMMA WInvStep == NothingHidden /\ WInv /\ [Next]_vars => WInv'
<1> SUFFICES ASSUME NothingHidden, WInv, [Next]_vars PROVE WInv'
  OBVIOUS
<1>1. ASSUME NEW t \in Tasks, SetUp(t) PROVE UNCHANGED <<at, comms, props>>
  BY <1>1 DEF SetUp, walk
<1>2. CASE UNCHANGED <<at, comms, props>>
  BY <1>2 DEF WInv, WalkTypeOK, Behind, Covered, Together, PeersAgree
<1>3. CASE UNCHANGED vars
  BY <1>2, <1>3 DEF vars
<1> QED BY <1>1, <1>2, <1>3, WInvPass, WInvReuse, WInvCreate DEF Next

LEMMA WInvInit == Init => WInv
<1> SUFFICES ASSUME Init PROVE WInv
  OBVIOUS
<1>1. WalkTypeOK
  BY LinkAssumption DEF Init, WalkTypeOK
<1>2. \A t \in Tasks : at[t] = 1 /\ DOMAIN comms[t] = {}
  BY DEF Init
<1>3. Behind /\ PeersAgree
  BY <1>2 DEF Behind, PeersAgree
<1>4. Covered /\ Together
  BY <1>2, LinkAssumption DEF Covered, Together, Links
<1> QED BY <1>1, <1>3, <1>4 DEF WInv

(* If no link name contains the func of its producer, the two ends of an   *)
(* intercommunicator created it for the same execution group: the common   *)
(* order of build_intercomms keeps the meetings of two tasks apart.        *)
THEOREM PeersAgreeCorrect ==
  ASSUME NothingHidden
  PROVE  Spec => []PeersAgree
<1>1. WInv => PeersAgree
  BY DEF WInv
<1>2. WInv /\ [Next]_vars => WInv'
  BY WInvStep
<1> QED BY <1>1, <1>2, WInvInit, PTL DEF Spec

-----------------------------------------------------------------------------
(* Every task has a link, or there are none.                               *)
NobodyAlone == \A t \in Tasks : ~DupsWorld(t)

(* A task at the smallest link any task is still at can go on, alone or    *)
(* with the task at the other end.                                         *)
LEMMA SmallestMoves ==
  ASSUME NothingHidden, NobodyAlone, WInv, NEW t \in Tasks, Walking(t),
         \A u \in Tasks : Walking(u) => ~(at[u] < at[t])
  PROVE  Passing(t) \/ Reusing(t) \/ \E u \in Tasks : Meeting(t, u)
<1> SUFFICES ASSUME Asking(t) PROVE \E u \in Tasks : Meeting(t, u)
  BY DEF Passing, Reusing, Asking, NobodyAlone
<1> DEFINE l == at[t]
<1>1. /\ l \in Links /\ First(l)
      /\ Prod[l] = t \/ Con[l] = t
  BY AskingFirst
<1>2. PICK u \in Tasks : /\ {Prod[l], Con[l]} = {t, u} /\ u # t
  BY <1>1, LinkAssumption
<1>3. at[t] \in Nat /\ at[u] \in Nat /\ NumLinks \in Nat
  BY AtType DEF WInv
<1>4. ~(at[u] > l)
  <2>1. at[Prod[l]] > l <=> at[Con[l]] > l
    BY <1>1 DEF WInv, Together
  <2> QED BY <1>2, <1>3, <2>1
<1>5. Walking(u)
  BY <1>1, <1>3, <1>4 DEF Walking, Links
<1>6. at[u] = l
  BY <1>3, <1>4, <1>5
<1>7. Mine(u, l)
  BY <1>2 DEF Mine, NothingHidden
<1>8. ~Known(u)
  <2> SUFFICES ASSUME NEW i \in DOMAIN comms[u],
                      Group[comms[u][i].mine] = Group[l]
               PROVE  FALSE
    BY <1>6 DEF Known, Here
  <2>1. comms[u][i].mine \in Links /\ comms[u][i].mine < l
    BY <1>6, CommLink DEF WInv, Behind
  <2> QED BY <1>1, <2>1 DEF First
<1>9. Remote(t, l) = u /\ Remote(u, l) = t
  BY <1>2 DEF Remote
<1> QED BY <1>5, <1>6, <1>7, <1>8, <1>9 DEF Meeting, Asking, Here

LEMMA NoDeadlockHolds == NothingHidden /\ NobodyAlone /\ WInv => NoDeadlock
<1> SUFFICES ASSUME NothingHidden, NobodyAlone, WInv,
                    NEW t \in Tasks, ~ready[t], Walking(t)
             PROVE  NoDeadlock
  BY DEF NoDeadlock
<1> DEFINE places == {at[u] : u \in {u \in Tasks : Walking(u)}}
<1>1. places \subseteq Nat /\ places # {}
  BY AtType DEF WInv
<1>2. PICK m \in places : \A n \in places : <<n, m>> \notin OpToRel(<, Nat)
  BY <1>1, NatLessThanWellFounded, WFMin
<1>3. \A n \in places : ~(n < m)
  BY <1>1, <1>2 DEF OpToRel
<1>4. PICK u \in Tasks : Walking(u) /\ at[u] = m
  OBVIOUS
<1>5. \A v \in Tasks : Walking(v) => ~(at[v] < at[u])
  BY <1>3, <1>4
<1> QED BY <1>4, <1>5, SmallestMoves DEF NoDeadlock

(* Building the intercommunicators never ends in a circular wait, whatever *)
(* the topology: some task or some pair of tasks can always go on.         *)
THEOREM NoDeadlockCorrect ==
  ASSUME NothingHidden, NobodyAlone
  PROVE  Spec => []NoDeadlock
<1>1. WInv => NoDeadlock
  BY NoDeadlockHolds
<1>2. WInv /\ [Next]_vars => WInv'
  BY WInvStep
<1> QED BY <1>1, <1>2, WInvInit, PTL DEF Spec

-----------------------------------------------------------------------------
(* The links of an execution group follow one another among those of a     *)
(* task, as in a workflow whose file names are grouped by coupling.        *)
GroupsFollow ==
  \A t \in Tasks : \A j, k, l \in Links :
    j < k /\ k < l /\ Mine(t, j) /\ Mine(t, k) /\ Group[j] = Group[l]
      => Group[k] = Group[j]

(* The LowFive properties of a task.                                       *)
Prop == [link : Links, index : Nat]

(* The intercommunicators of a task are for links of its own behind it, in *)
(* their order; it has a property for exactly the links of its own behind  *)
(* it, which names an intercommunicator of the link's group.               *)
ListsRight(t) ==
  /\ \A i \in DOMAIN comms[t] :
       /\ comms[t][i].mine < at[t] /\ Mine(t, comms[t][i].mine)
       /\ comms[t][i].mine <= comms[t][Len(comms[t])].mine
  /\ \A l \in Links : l < at[t] /\ Mine(t, l) =>
       \E i \in DOMAIN props[t] : props[t][i].link = l
  /\ \A i \in DOMAIN props[t] :
       /\ props[t][i].link < at[t] /\ Mine(t, props[t][i].link)
       /\ props[t][i].index + 1 \in DOMAIN comms[t]
       /\ Group[comms[t][props[t][i].index + 1].mine] = Group[props[t][i].link]

(* The inductive invariant of the lists.                                   *)
LInv == WalkTypeOK /\ \A t \in Tasks : ListsRight(t)

(* The elements of the lists of a task.                                    *)
LEMMA ListTypes ==
  ASSUME WalkTypeOK, NEW t \in Tasks
  PROVE  /\ comms[t] \in Seq(Comm) /\ DOMAIN comms[t] = 1 .. Len(comms[t])
         /\ Len(comms[t]) \in Nat
         /\ \A i \in DOMAIN comms[t] : comms[t][i].mine \in Links
         /\ props[t] \in Seq(Prop) /\ DOMAIN props[t] = 1 .. Len(props[t])
         /\ Len(props[t]) \in Nat
         /\ \A i \in DOMAIN props[t] : /\ props[t][i] \in Prop
                                       /\ props[t][i].link \in Links
                                       /\ props[t][i].index \in Nat
<1>1. comms[t] \in Seq(Comm) /\ props[t] \in Seq(Prop)
  BY DEF WalkTypeOK, Prop
<1>2. /\ DOMAIN comms[t] = 1 .. Len(comms[t]) /\ Len(comms[t]) \in Nat
      /\ DOMAIN props[t] = 1 .. Len(props[t]) /\ Len(props[t]) \in Nat
  BY <1>1, LenProperties
<1>3. /\ \A i \in DOMAIN comms[t] : comms[t][i] \in Comm
      /\ \A i \in DOMAIN props[t] : props[t][i] \in Prop
  BY <1>1, <1>2, ElementOfSeq
<1> QED BY <1>1, <1>2, <1>3 DEF Comm, Prop

(* A task passes a link that is not its own.                               *)
LEMMA ListsPass ==
  ASSUME WalkTypeOK, NEW t \in Tasks, ListsRight(t), at[t] \in Links,
         ~Mine(t, at[t]), at'[t] = at[t] + 1,
         comms'[t] = comms[t], props'[t] = props[t]
  PROVE  ListsRight(t)'
<1>1. \A l \in Links : l < at[t] + 1 => l < at[t] \/ l = at[t]
  BY DEF Links
<1>2. \A l \in Links : l < at[t] => l < at[t] + 1
  BY DEF Links
<1> QED BY <1>1, <1>2, ListTypes DEF ListsRight, Mine

(* A task takes the last of its intercommunicators for a known group.      *)
LEMMA ListsReuse ==
  ASSUME GroupsFollow, WalkTypeOK, NEW t \in Tasks, ListsRight(t),
         at[t] \in Links, Mine(t, at[t]), Known(t), at'[t] = at[t] + 1,
         comms'[t] = comms[t],
         NEW p, p = [link |-> at[t], index |-> Len(comms[t]) - 1],
         props'[t] = Append(props[t], p)
  PROVE  ListsRight(t)'
<1> DEFINE n == Len(comms[t])
<1>1. PICK i \in DOMAIN comms[t] : Group[comms[t][i].mine] = Group[at[t]]
  BY DEF Known, Here
<1>2. /\ n \in Nat /\ n \in DOMAIN comms[t] /\ n - 1 \in Nat
      /\ comms[t][i].mine \in Links /\ comms[t][n].mine \in Links
  BY <1>1, ListTypes
<1>3. /\ comms[t][i].mine <= comms[t][n].mine /\ comms[t][n].mine < at[t]
      /\ Mine(t, comms[t][i].mine) /\ Mine(t, comms[t][n].mine)
  BY <1>1, <1>2 DEF ListsRight
<1>4. Group[comms[t][n].mine] = Group[at[t]]
  <2>1. CASE comms[t][i].mine = comms[t][n].mine
    BY <1>1, <2>1
  <2>2. CASE comms[t][i].mine < comms[t][n].mine
    BY <1>1, <1>2, <1>3, <2>2 DEF GroupsFollow
  <2> QED BY <1>2, <1>3, <2>1, <2>2 DEF Links
<1>5. p \in Prop /\ p.link = at[t] /\ p.index = n - 1
  BY <1>2 DEF Prop
<1>6. /\ \A k \in DOMAIN props[t] : /\ k \in DOMAIN props'[t]
                                    /\ props'[t][k] = props[t][k]
      /\ \A k \in DOMAIN props'[t] : k \in DOMAIN props[t] \/ props'[t][k] = p
      /\ Len(props[t]) + 1 \in DOMAIN props'[t]
      /\ props'[t][Len(props[t]) + 1] = p
  BY <1>5, ListTypes, AppendDomain, AppendProperties
<1>7. \A l \in Links : /\ l < at[t] + 1 => l < at[t] \/ l = at[t]
                       /\ l < at[t] => l < at[t] + 1
  BY DEF Links
<1>8. \A k \in DOMAIN comms'[t] :
        /\ comms'[t][k].mine < at'[t] /\ Mine(t, comms'[t][k].mine)
        /\ comms'[t][k].mine <= comms'[t][Len(comms'[t])].mine
  BY <1>7, ListTypes DEF ListsRight
<1>9. ASSUME NEW l \in Links, l < at'[t], Mine(t, l)
      PROVE  \E k \in DOMAIN props'[t] : props'[t][k].link = l
  BY <1>5, <1>6, <1>7, <1>9 DEF ListsRight
<1>10. ASSUME NEW k \in DOMAIN props'[t]
       PROVE  LET q == props'[t][k] IN
              /\ q.link < at'[t] /\ Mine(t, q.link)
              /\ q.index + 1 \in DOMAIN comms'[t]
              /\ Group[comms'[t][q.index + 1].mine] = Group[q.link]
  <2>1. CASE k \in DOMAIN props[t]
    BY <1>6, <1>7, <2>1, ListTypes DEF ListsRight
  <2>2. CASE props'[t][k] = p
    <3>1. props'[t][k].link = at[t] /\ props'[t][k].index + 1 = n
      BY <1>2, <1>5, <2>2
    <3>2. at[t] < at'[t]
      BY DEF Links
    <3> HIDE DEF n
    <3> QED BY <1>2, <1>4, <3>1, <3>2
  <2> QED BY <1>6, <2>1, <2>2
<1> QED BY <1>8, <1>9, <1>10 DEF ListsRight, Mine

(* A task gets an intercommunicator for the link it is at.                 *)
LEMMA ListsCreate ==
  ASSUME WalkTypeOK, NEW t \in Tasks, ListsRight(t),
         at[t] \in Links, Mine(t, at[t]), at'[t] = at[t] + 1,
         NEW c \in Comm, c.mine = at[t], comms'[t] = Append(comms[t], c),
         NEW p, p = [link |-> at[t], index |-> Len(comms[t])],
         props'[t] = Append(props[t], p)
  PROVE  ListsRight(t)'
<1> DEFINE n == Len(comms[t])
<1>5. p \in Prop /\ p.link = at[t] /\ p.index = n /\ n \in Nat
  BY ListTypes DEF Prop
<1>6. /\ \A k \in DOMAIN props[t] : /\ k \in DOMAIN props'[t]
                                    /\ props'[t][k] = props[t][k]
      /\ \A k \in DOMAIN props'[t] : k \in DOMAIN props[t] \/ props'[t][k] = p
      /\ Len(props[t]) + 1 \in DOMAIN props'[t]
      /\ props'[t][Len(props[t]) + 1] = p
  BY <1>5, ListTypes, AppendDomain, AppendProperties
<1>7. \A l \in Links : /\ l < at[t] + 1 => l < at[t] \/ l = at[t]
                       /\ l < at[t] => l < at[t] + 1 /\ l <= at[t]
                       /\ l <= l
  BY DEF Links
<1>8. /\ \A k \in DOMAIN comms[t] : /\ k \in DOMAIN comms'[t]
                                    /\ comms'[t][k] = comms[t][k]
      /\ \A k \in DOMAIN comms'[t] : k \in DOMAIN comms[t] \/ comms'[t][k] = c
      /\ n + 1 \in DOMAIN comms'[t] /\ comms'[t][n + 1] = c
      /\ Len(comms'[t]) = n + 1
  BY ListTypes, AppendDomain, AppendProperties
<1>9. ASSUME NEW k \in DOMAIN comms'[t]
      PROVE  /\ comms'[t][k].mine < at'[t] /\ Mine(t, comms'[t][k].mine)
             /\ comms'[t][k].mine <= comms'[t][Len(comms'[t])].mine
  <2>1. CASE k \in DOMAIN comms[t]
    <3>1. /\ comms[t][k].mine < at[t] /\ Mine(t, comms[t][k].mine)
          /\ comms[t][k].mine \in Links
      BY <2>1, ListTypes DEF ListsRight
    <3> QED BY <1>7, <1>8, <2>1, <3>1
  <2>2. CASE comms'[t][k] = c
    <3>1. comms'[t][Len(comms'[t])] = c
      BY <1>8
    <3>2. at[t] < at'[t] /\ at[t] <= at[t]
      BY DEF Links
    <3> QED BY <2>2, <3>1, <3>2
  <2> QED BY <1>8, <2>1, <2>2
<1>10. ASSUME NEW l \in Links, l < at'[t], Mine(t, l)
       PROVE  \E k \in DOMAIN props'[t] : props'[t][k].link = l
  BY <1>5, <1>6, <1>7, <1>10 DEF ListsRight
<1>11. ASSUME NEW k \in DOMAIN props'[t]
       PROVE  LET q == props'[t][k] IN
              /\ q.link < at'[t] /\ Mine(t, q.link)
              /\ q.index + 1 \in DOMAIN comms'[t]
              /\ Group[comms'[t][q.index + 1].mine] = Group[q.link]
  <2>1. CASE k \in DOMAIN props[t]
    <3>1. /\ props[t][k].link < at[t] /\ props[t][k].link \in Links
          /\ Mine(t, props[t][k].link)
          /\ props[t][k].index + 1 \in DOMAIN comms[t]
          /\ Group[comms[t][props[t][k].index + 1].mine] = Group[props[t][k].link]
      BY <2>1, ListTypes DEF ListsRight
    <3> QED BY <1>6, <1>7, <1>8, <2>1, <3>1
  <2>2. CASE props'[t][k] = p
    <3>1. props'[t][k].link = at[t] /\ props'[t][k].index = n
      BY <1>5, <2>2
    <3>2. at[t] < at'[t]
      BY DEF Links
    <3>3. n + 1 \in DOMAIN comms'[t] /\ comms'[t][n + 1].mine = at[t]
      BY <1>8
    <3> HIDE DEF n
    <3> QED BY <3>1, <3>2, <3>3
  <2> QED BY <1>6, <2>1, <2>2
<1> QED BY <1>9, <1>10, <1>11 DEF ListsRight, Mine

(* What creating an intercommunicator does to one of the two tasks.        *)
LEMMA CreateEffect ==
  ASSUME WalkTypeOK, NEW s \in Tasks, NEW t \in Tasks, CreateIntercomm(s, t),
         NEW u \in {s, t}
  PROVE  /\ at[u] \in Links /\ Mine(u, at[u]) /\ at'[u] = at[u] + 1
         /\ \E c \in Comm : c.mine = at[u] /\ comms'[u] = Append(comms[u], c)
         /\ props'[u] = Append(props[u],
                               [link |-> at[u], index |-> Len(comms[u])])
<1>1. /\ at[s] \in Links /\ at[t] \in Links
      /\ at'[s] = at[s] + 1 /\ at'[t] = at[t] + 1
  BY MoveTwo DEF CreateIntercomm, Meeting, Asking
<1>2. Mine(s, at[s]) /\ Mine(t, at[t])
  BY DEF CreateIntercomm, Meeting, Asking, Here
<1> DEFINE c == [mine |-> Here(u), theirs |-> Here(IF u = s THEN t ELSE s)]
<1>3. c \in Comm /\ c.mine = at[u]
  BY <1>1 DEF Comm, Here
<1>4. u \in Tasks /\ comms'[u] = Append(comms[u], c)
  BY DEF CreateIntercomm
<1>5. props'[u] = Append(props[u], [link |-> at[u], index |-> Len(comms[u])])
  BY <1>4 DEF CreateIntercomm, Here, NextIndex
<1> HIDE DEF c
<1> QED BY <1>1, <1>2, <1>3, <1>4, <1>5

LEMMA LInvStep == GroupsFollow /\ LInv /\ [Next]_vars => LInv'
<1> SUFFICES ASSUME GroupsFollow, LInv, [Next]_vars PROVE LInv'
  OBVIOUS
<1>0. WalkTypeOK /\ \A u \in Tasks : ListsRight(u)
  BY DEF LInv
<1>1. WalkTypeOK'
  BY <1>0, WalkTypeStep
<1>2. ASSUME NEW u \in Tasks, at'[u] = at[u], comms'[u] = comms[u],
             props'[u] = props[u]
      PROVE  ListsRight(u)'
  BY <1>0, <1>2 DEF ListsRight, Mine
<1>3. ASSUME NEW u \in Tasks PROVE ListsRight(u)'
  <2>1. ASSUME NEW t \in Tasks, PassLink(t) PROVE ListsRight(u)'
    <3>1. /\ at[t] \in Links /\ ~Mine(t, at[t]) /\ at'[t] = at[t] + 1
          /\ \A v \in Tasks : v # t => at'[v] = at[v]
          /\ comms' = comms /\ props' = props
      BY <1>0, <2>1, MoveOne DEF PassLink, Passing, Here
    <3> QED BY <1>0, <1>2, <3>1, ListsPass
  <2>2. ASSUME NEW t \in Tasks, ReuseIntercomm(t) PROVE ListsRight(u)'
    <3>1. /\ at[t] \in Links /\ Mine(t, at[t]) /\ Known(t)
          /\ at'[t] = at[t] + 1
          /\ \A v \in Tasks : v # t => at'[v] = at[v]
          /\ comms' = comms
      BY <1>0, <2>2, MoveOne DEF ReuseIntercomm, Reusing, Here
    <3> DEFINE p == [link |-> at[t], index |-> Len(comms[t]) - 1]
    <3>2. /\ props'[t] = Append(props[t], p)
          /\ \A v \in Tasks : v # t => props'[v] = props[v]
      BY <1>0, <2>2 DEF ReuseIntercomm, Here, LastIndex, WalkTypeOK
    <3>3. ListsRight(t)'
      BY <1>0, <3>1, <3>2, ListsReuse
    <3> QED BY <1>2, <3>1, <3>2, <3>3
  <2>3. ASSUME NEW s \in Tasks, NEW t \in Tasks, CreateIntercomm(s, t)
        PROVE  ListsRight(u)'
    <3>1. CASE u \in {s, t}
      <4>1. /\ at[u] \in Links /\ Mine(u, at[u]) /\ at'[u] = at[u] + 1
            /\ \E c \in Comm : c.mine = at[u] /\ comms'[u] = Append(comms[u], c)
            /\ props'[u] = Append(props[u],
                                  [link |-> at[u], index |-> Len(comms[u])])
        BY <1>0, <2>3, <3>1, CreateEffect
      <4>2. PICK c \in Comm : c.mine = at[u] /\ comms'[u] = Append(comms[u], c)
        BY <4>1
      <4> QED BY <1>0, <4>1, <4>2, ListsCreate
    <3>2. CASE u \notin {s, t}
      <4>1. at'[u] = at[u] /\ comms'[u] = comms[u] /\ props'[u] = props[u]
        BY <2>3, <3>2 DEF CreateIntercomm
      <4> QED BY <1>2, <4>1
    <3> QED BY <3>1, <3>2
  <2>4. ASSUME NEW t \in Tasks, SetUp(t) PROVE ListsRight(u)'
    BY <1>2, <2>4 DEF SetUp, walk
  <2>5. CASE UNCHANGED vars
    BY <1>2, <2>5 DEF vars
  <2> QED BY <2>1, <2>2, <2>3, <2>4, <2>5 DEF Next
<1> QED BY <1>1, <1>3 DEF LInv

LEMMA LInvInit == Init => LInv
<1> SUFFICES ASSUME Init PROVE LInv
  OBVIOUS
<1>1. WalkTypeOK
  BY LinkAssumption DEF Init, WalkTypeOK
<1>2. ASSUME NEW t \in Tasks
      PROVE  at[t] = 1 /\ DOMAIN comms[t] = {} /\ DOMAIN props[t] = {}
  BY DEF Init
<1>3. \A l \in Links : ~(l < 1)
  BY LinkAssumption DEF Links
<1> QED BY <1>1, <1>2, <1>3 DEF LInv, ListsRight

(* If the links of a group follow one another among those of each of its   *)
(* tasks, prodIndex and conIndex of every link name the intercommunicator  *)
(* of the link's own group.  (Run interleaved: otherwise they need not.)   *)
THEOREM IndexNamesGroupCorrect ==
  ASSUME GroupsFollow
  PROVE  Spec => []IndexNamesGroup
<1>1. LInv => IndexNamesGroup
  BY DEF LInv, ListsRight, IndexNamesGroup
<1>2. LInv /\ [Next]_vars => LInv'
  BY LInvStep
<1> QED BY <1>1, <1>2, LInvInit, PTL DEF Spec
-----------------------------------------------------------------------------
(* A task that is ready has walked along all links, and the parameters of  *)
(* its exec_task are still what main made of its properties.               *)
SetUpRight(t) ==
  ready[t] =>
    /\ ~Walking(t)
    /\ wlk_consumer[t] = Consumers(t) /\ serve_indices[t] = Servers(t)
    /\ flow_policies[t] = Policies(t)
    /\ pl_prod[t] = PassthruProd(t) /\ pl_con[t] = PassthruCon(t)

(* A step that leaves the parameters of a ready task alone keeps this.     *)
LEMMA SetUpStays ==
  ASSUME NEW t \in Tasks, SetUpRight(t), ready'[t] = ready[t],
         wlk_consumer'[t] = wlk_consumer[t],
         serve_indices'[t] = serve_indices[t],
         flow_policies'[t] = flow_policies[t], pl_prod'[t] = pl_prod[t],
         pl_con'[t] = pl_con[t],
         ready[t] => at'[t] = at[t] /\ props'[t] = props[t]
  PROVE  SetUpRight(t)'
<1> SUFFICES ASSUME ready[t], props'[t] = props[t], at'[t] = at[t]
             PROVE  SetUpRight(t)'
  BY DEF SetUpRight
<1>1. Consumers(t)' = Consumers(t)
  BY DEF Consumers, NameClashes, Pairs, Collected
<1>2. Servers(t)' = Servers(t)
  BY DEF Servers, Pairs, Collected
<1>3. Policies(t)' = Policies(t)
  BY DEF Policies, NameClashes, Pairs, Collected
<1>4. Passthru(t)' = Passthru(t)
  BY DEF Passthru, Pairs, Collected, OnPassthru
<1>5. PassthruProd(t)' = PassthruProd(t)
  BY <1>4 DEF PassthruProd, Collected
<1>6. PassthruCon(t)' = PassthruCon(t)
  BY <1>4 DEF PassthruCon
<1> QED BY <1>1, <1>2, <1>3, <1>5, <1>6 DEF SetUpRight, Walking

(* The lists that SetUp makes hold positions.                              *)
LEMMA ListType ==
  ASSUME NEW S, NEW s \in Seq(S), NEW T, NEW r, DOMAIN r = DOMAIN s,
         r = [k \in DOMAIN s |-> r[k]], \A k \in DOMAIN s : r[k] \in T
  PROVE  r \in Seq(T)
<1>1. DOMAIN s = 1 .. Len(s) /\ Len(s) \in Nat
  BY LenProperties
<1>2. r \in [1 .. Len(s) -> T]
  BY <1>1
<1> QED BY <1>1, <1>2, IsASeq

(* The positions of the properties in a list.                              *)
LEMMA IndicesType ==
  ASSUME NEW s \in Seq(Prop)
  PROVE  /\ Indices(s) \in Seq(Nat)
         /\ DOMAIN Indices(s) = DOMAIN s
         /\ \A k \in DOMAIN s : s[k] \in Prop /\ Indices(s)[k] = s[k].index
<1>1. /\ DOMAIN Indices(s) = DOMAIN s
      /\ Indices(s) = [k \in DOMAIN s |-> Indices(s)[k]]
      /\ \A k \in DOMAIN s : Indices(s)[k] = s[k].index
  BY DEF Indices
<1>2. \A k \in DOMAIN s : s[k] \in Prop
  BY ElementOfSeq, LenProperties
<1>3. \A k \in DOMAIN s : Indices(s)[k] \in Nat
  BY <1>1, <1>2 DEF Prop
<1>4. Indices(s) \in Seq(Nat)
  BY <1>1, <1>3, ListType
<1> QED BY <1>1, <1>2, <1>4

(* What Taken leaves is a list of the same elements.                       *)
LEMMA TakenType ==
  ASSUME NEW S, NEW list \in Seq(S), NEW wanted, NEW clashes
  PROVE  Taken(list, wanted, clashes) \in Seq(S)
BY TakenProperties

(* The parameters that main computes have the right types.                 *)
LEMMA SetUpType ==
  ASSUME WalkTypeOK, NEW t \in Tasks
  PROVE  /\ Consumers(t) \in Seq(Nat) /\ Servers(t) \in Seq(Nat)
         /\ Policies(t) \in Seq(Int \X Nat)
         /\ Passthru(t) \in Seq(Prop) /\ PassthruProd(t) \in Seq(Nat)
<1>1. props[t] \in Seq(Prop)
  BY ListTypes
<1>2. Consumers(t) \in Seq(Nat) /\ Servers(t) \in Seq(Nat)
  BY <1>1, TakenType, IndicesType DEF Consumers, Servers
<1>3. Passthru(t) \in Seq(Prop)
  BY <1>1, TakenType DEF Passthru
<1>4. PassthruProd(t) \in Seq(Nat)
  BY <1>3, TakenType, IndicesType DEF PassthruProd
<1>5. Policies(t) \in Seq(Int \X Nat)
  <2> DEFINE wanted == {p \in Collected(t) :
                          Prod[p.link] = t /\ Policy[p.link] # 1}
             list == Taken(props[t], wanted, NameClashes(t))
             res == [k \in DOMAIN list |->
                       <<Policy[list[k].link], list[k].index>>]
  <2>1. list \in Seq(Prop)
    BY <1>1, TakenType
  <2>2. Policies(t) = res
    BY DEF Policies
  <2> HIDE DEF list
  <2>3. \A k \in DOMAIN list : list[k] \in Prop
    BY <2>1, ElementOfSeq, LenProperties
  <2>4. \A k \in DOMAIN list : res[k] \in Int \X Nat
    BY <2>3, LinkAssumption DEF Prop
  <2>5. DOMAIN res = DOMAIN list /\ res = [k \in DOMAIN list |-> res[k]]
    OBVIOUS
  <2> HIDE DEF res
  <2>6. res \in Seq(Int \X Nat)
    BY <2>1, <2>4, <2>5, ListType
  <2> QED BY <2>2, <2>6
<1> QED BY <1>2, <1>3, <1>4, <1>5

(* The inductive form of TypeOK: pl_con is a function over the tasks.      *)
Typed == TypeOK /\ pl_con = [t \in Tasks |-> pl_con[t]]

LEMMA TypedStep == Typed /\ [Next]_vars => Typed'
<1> SUFFICES ASSUME Typed, [Next]_vars PROVE Typed'
  OBVIOUS
<1>1. WalkTypeOK /\ WalkTypeOK'
  BY WalkTypeStep DEF Typed, TypeOK
<1>2. CASE UNCHANGED parameters
  BY <1>1, <1>2 DEF Typed, TypeOK, parameters
<1>3. ASSUME NEW t \in Tasks, SetUp(t) PROVE Typed'
  <2>1. /\ Consumers(t) \in Seq(Nat) /\ Servers(t) \in Seq(Nat)
        /\ Policies(t) \in Seq(Int \X Nat) /\ PassthruProd(t) \in Seq(Nat)
    BY <1>1, SetUpType
  <2> QED BY <1>1, <1>3, <2>1 DEF Typed, TypeOK, SetUp
<1>4. ASSUME NEW t \in Tasks, PassLink(t) \/ ReuseIntercomm(t)
      PROVE  UNCHANGED parameters
  BY <1>4 DEF PassLink, ReuseIntercomm
<1>5. ASSUME NEW s \in Tasks, NEW t \in Tasks, CreateIntercomm(s, t)
      PROVE  UNCHANGED parameters
  BY <1>5 DEF CreateIntercomm
<1>6. CASE UNCHANGED vars
  BY <1>2, <1>6 DEF vars, parameters
<1> QED BY <1>2, <1>3, <1>4, <1>5, <1>6 DEF Next

LEMMA TypedInit == Init => Typed
<1> SUFFICES ASSUME Init PROVE Typed
  OBVIOUS
<1>1. WalkTypeOK
  BY LinkAssumption DEF Init, WalkTypeOK
<1> QED BY <1>1 DEF Init, Typed, TypeOK

(* In every workflow, all lists hold what they should: no position is      *)
(* negative, whatever the order of the links.                              *)
THEOREM TypeCorrect == Spec => []TypeOK
<1>1. Typed => TypeOK
  BY DEF Typed
<1>2. Typed /\ [Next]_vars => Typed'
  BY TypedStep
<1> QED BY <1>1, <1>2, TypedInit, PTL DEF Spec

(* The inductive invariant of the parameters.                              *)
SInv == Typed /\ \A t \in Tasks : SetUpRight(t)

LEMMA SInvStep == SInv /\ [Next]_vars => SInv'
<1> SUFFICES ASSUME SInv, [Next]_vars PROVE SInv'
  OBVIOUS
<1>0. /\ Typed /\ Typed' /\ WalkTypeOK
      /\ \A u \in Tasks : SetUpRight(u)
  BY TypedStep DEF SInv, Typed, TypeOK
<1>1. ASSUME NEW u \in Tasks, UNCHANGED parameters,
             ready[u] => at'[u] = at[u] /\ props'[u] = props[u]
      PROVE  SetUpRight(u)'
  BY <1>0, <1>1, SetUpStays DEF parameters
<1>2. ASSUME NEW u \in Tasks PROVE SetUpRight(u)'
  <2>1. ASSUME NEW t \in Tasks, PassLink(t) \/ ReuseIntercomm(t)
        PROVE  SetUpRight(u)'
    <3>1. ready[u] => u # t
      BY <1>0, <2>1 DEF SetUpRight, PassLink, ReuseIntercomm, Passing, Reusing
    <3>2. u # t => at'[u] = at[u] /\ props'[u] = props[u]
      BY <1>0, <2>1 DEF PassLink, ReuseIntercomm, WalkTypeOK
    <3> QED BY <1>1, <2>1, <3>1, <3>2 DEF PassLink, ReuseIntercomm
  <2>2. ASSUME NEW s \in Tasks, NEW t \in Tasks, CreateIntercomm(s, t)
        PROVE  SetUpRight(u)'
    <3>1. ready[u] => u \notin {s, t}
      BY <1>0, <2>2 DEF SetUpRight, CreateIntercomm, Meeting, Asking
    <3>2. u \notin {s, t} => at'[u] = at[u] /\ props'[u] = props[u]
      BY <2>2 DEF CreateIntercomm
    <3> QED BY <1>1, <2>2, <3>1, <3>2 DEF CreateIntercomm
  <2>3. ASSUME NEW t \in Tasks, SetUp(t) PROVE SetUpRight(u)'
    <3>1. UNCHANGED <<at, comms, props>>
      BY <2>3 DEF SetUp, walk
    <3>2. CASE u # t
      <4>1. /\ ready'[u] = ready[u] /\ wlk_consumer'[u] = wlk_consumer[u]
            /\ serve_indices'[u] = serve_indices[u]
            /\ flow_policies'[u] = flow_policies[u]
            /\ pl_prod'[u] = pl_prod[u] /\ pl_con'[u] = pl_con[u]
        BY <1>0, <2>3, <3>2 DEF SetUp, Typed, TypeOK
      <4> QED BY <1>0, <3>1, <4>1, SetUpStays
    <3>3. CASE u = t
      <4>1. /\ ~Walking(t) /\ wlk_consumer'[t] = Consumers(t)
            /\ serve_indices'[t] = Servers(t)
            /\ flow_policies'[t] = Policies(t)
            /\ pl_prod'[t] = PassthruProd(t) /\ pl_con'[t] = PassthruCon(t)
        BY <1>0, <2>3 DEF SetUp, Typed, TypeOK
      <4>2. Consumers(t)' = Consumers(t)
        BY <3>1 DEF Consumers, NameClashes, Pairs, Collected
      <4>3. Servers(t)' = Servers(t)
        BY <3>1 DEF Servers, Pairs, Collected
      <4>4. Policies(t)' = Policies(t)
        BY <3>1 DEF Policies, NameClashes, Pairs, Collected
      <4>5. Passthru(t)' = Passthru(t)
        BY <3>1 DEF Passthru, Pairs, Collected, OnPassthru
      <4>6. PassthruProd(t)' = PassthruProd(t) /\ PassthruCon(t)' = PassthruCon(t)
        BY <3>1, <4>5 DEF PassthruProd, PassthruCon, Collected
      <4> QED BY <3>1, <3>3, <4>1, <4>2, <4>3, <4>4, <4>6
              DEF SetUpRight, Walking
    <3> QED BY <3>2, <3>3
  <2>4. CASE UNCHANGED vars
    BY <1>1, <2>4 DEF vars, parameters
  <2> QED BY <2>1, <2>2, <2>3, <2>4 DEF Next
<1> QED BY <1>0, <1>2 DEF SInv

LEMMA SInvInit == Init => SInv
BY TypedInit DEF SInv, SetUpRight, Init
-----------------------------------------------------------------------------
(* No name of an execution group occurs in another, and the links of a     *)
(* group have one io_freq.                                                 *)
NamesApart == \A m, n \in Names : m \in NamesIn[n] => m = n

OnePolicy == \A k, l \in Links : Group[k] = Group[l] => Policy[k] = Policy[l]

(* When a task is ready, it has a property for each of its links, whose    *)
(* index names an intercommunicator of the link's group.                   *)
LEMMA ReadyProps ==
  ASSUME NothingHidden, SInv, LInv, NEW t \in Tasks, ready[t]
  PROVE  /\ props[t] \in Seq(Prop)
         /\ \A l \in Links : Prod[l] = t \/ Con[l] = t =>
              \E p \in Collected(t) : p.link = l
         /\ \A p \in Collected(t) : /\ p \in Prop /\ p.link \in Links
                                    /\ GroupAt(t, p.index) = Group[p.link]
<1>1. WalkTypeOK /\ ListsRight(t) /\ SetUpRight(t)
  BY DEF LInv, SInv
<1>2. \A l \in Links : l < at[t]
  BY <1>1, AtType DEF SetUpRight, Walking, Links
<1>3. \A l \in Links : Prod[l] = t \/ Con[l] = t => Mine(t, l)
  BY DEF NothingHidden, Mine
<1>4. ASSUME NEW l \in Links, Prod[l] = t \/ Con[l] = t
      PROVE  \E p \in Collected(t) : p.link = l
  <2>1. PICK i \in DOMAIN props[t] : props[t][i].link = l
    BY <1>1, <1>2, <1>3, <1>4 DEF ListsRight
  <2> QED BY <2>1 DEF Collected, ToSet
<1>5. ASSUME NEW p \in Collected(t)
      PROVE  /\ p \in Prop /\ p.link \in Links
             /\ GroupAt(t, p.index) = Group[p.link]
  <2>1. PICK i \in DOMAIN props[t] : p = props[t][i]
    BY DEF Collected, ToSet
  <2> QED BY <1>1, <2>1, ListTypes DEF ListsRight, GroupAt
<1> QED BY <1>1, <1>4, <1>5, ListTypes

(* The positions of a list of properties.                                  *)
LEMMA IndicesSet ==
  ASSUME NEW s \in Seq(Prop)
  PROVE  ToSet(Indices(s)) = {p.index : p \in ToSet(s)}
BY IndicesType DEF ToSet

(* They differ if those of any two properties do.                          *)
LEMMA IndicesInjective ==
  ASSUME NEW s \in Seq(Prop),
         \A a, b \in DOMAIN s : a < b => s[a].index # s[b].index
  PROVE  IsInjective(Indices(s))
<1>1. DOMAIN s \subseteq Int
  BY LenProperties
<1> SUFFICES ASSUME NEW a \in DOMAIN s, NEW b \in DOMAIN s, a # b
             PROVE  s[a].index # s[b].index
  BY IndicesType DEF IsInjective
<1>2. a < b \/ b < a
  BY <1>1
<1> QED BY <1>2

(* The positions in a list name exactly the groups of the links ls.        *)
NamesGroups(t, indices, ls) ==
  {GroupAt(t, i) : i \in ToSet(indices)} = {Group[l] : l \in ls}

(* A list with a property for each group of ls, and only for these, does   *)
(* so.                                                                     *)
LEMMA GroupsOf ==
  ASSUME NEW t \in Tasks, NEW s \in Seq(Prop), NEW ls \in SUBSET Links,
         \A p \in ToSet(s) : p.link \in ls /\ GroupAt(t, p.index) = Group[p.link],
         \A l \in ls : \E p \in ToSet(s) : Group[p.link] = Group[l]
  PROVE  NamesGroups(t, Indices(s), ls)
<1>1. ASSUME NEW i \in ToSet(Indices(s))
      PROVE  GroupAt(t, i) \in {Group[l] : l \in ls}
  <2>1. PICK p \in ToSet(s) : i = p.index
    BY IndicesSet
  <2> QED BY <2>1
<1>2. ASSUME NEW l \in ls
      PROVE  Group[l] \in {GroupAt(t, i) : i \in ToSet(Indices(s))}
  <2>1. PICK p \in ToSet(s) : Group[p.link] = Group[l]
    OBVIOUS
  <2>2. p.index \in ToSet(Indices(s)) /\ GroupAt(t, p.index) = Group[p.link]
    BY IndicesSet
  <2> QED BY <2>1, <2>2
<1> QED BY <1>1, <1>2 DEF NamesGroups

(* Two links whose names clash are of one group.                           *)
LEMMA ClashSameGroup ==
  ASSUME NamesApart, NEW t \in Tasks, \A p \in Collected(t) : p.link \in Links,
         NEW d \in Collected(t), NEW e \in Collected(t)
  PROVE  <<d, e>> \in NameClashes(t) <=> Group[d.link] = Group[e.link]
<1>1. Group[d.link] \in Names /\ Group[e.link] \in Names
  BY DEF Names
<1>2. <<d, e>> \in NameClashes(t) <=> Group[d.link] \in NamesIn[Group[e.link]]
  BY DEF NameClashes, Pairs
<1>3. Group[e.link] \in NamesIn[Group[e.link]]
  BY <1>1, GroupAssumption
<1> QED BY <1>1, <1>2, <1>3 DEF NamesApart

(* wlk_consumer.                                                           *)
LEMMA ConsumersComplete ==
  ASSUME NothingHidden, NamesApart, SInv, LInv, NEW t \in Tasks, ready[t]
  PROVE  /\ IsInjective(Consumers(t))
         /\ {GroupAt(t, i) : i \in ToSet(Consumers(t))}
              = {Group[l] : l \in {l \in Links : Con[l] = t}}
<1> DEFINE wanted == {p \in Collected(t) : Con[p.link] = t}
           list == Taken(props[t], wanted, NameClashes(t))
<1>1. /\ props[t] \in Seq(Prop)
      /\ \A l \in Links : Con[l] = t => \E p \in Collected(t) : p.link = l
      /\ \A p \in Collected(t) : /\ p \in Prop /\ p.link \in Links
                                 /\ GroupAt(t, p.index) = Group[p.link]
  BY ReadyProps
<1>2. /\ list \in Seq(Prop)
      /\ \A e \in ToSet(list) : e \in wanted
      /\ \A a, b \in DOMAIN list : a < b => <<list[a], list[b]>> \notin NameClashes(t)
      /\ \A e \in Collected(t) : e \in wanted =>
           \/ e \in ToSet(list)
           \/ \E d \in ToSet(list) : <<d, e>> \in NameClashes(t)
  <2> HIDE DEF wanted
  <2>1. list \in Seq(Prop) /\ TakesRight(props[t], wanted, NameClashes(t), list)
    BY <1>1, TakenProperties
  <2> HIDE DEF list
  <2> QED BY <2>1 DEF TakesRight, Collected
<1>3. Consumers(t) = Indices(list)
  BY DEF Consumers
<1> HIDE DEF list
<1>4. ASSUME NEW a \in DOMAIN list, NEW b \in DOMAIN list, a < b
      PROVE  list[a].index # list[b].index
  <2>1. list[a] \in Collected(t) /\ list[b] \in Collected(t)
    BY <1>2 DEF ToSet
  <2>2. <<list[a], list[b]>> \notin NameClashes(t)
    BY <1>2, <1>4
  <2>3. Group[list[a].link] # Group[list[b].link]
    BY <1>1, <2>1, <2>2, ClashSameGroup
  <2> QED BY <1>1, <2>1, <2>3
<1>5. ASSUME NEW l \in Links, Con[l] = t
      PROVE  \E p \in ToSet(list) : Group[p.link] = Group[l]
  <2>1. PICK p \in Collected(t) : p.link = l
    BY <1>1, <1>5
  <2>2. p \in wanted
    BY <1>5, <2>1
  <2>3. CASE p \in ToSet(list)
    BY <2>1, <2>3
  <2>4. ASSUME NEW d \in ToSet(list), <<d, p>> \in NameClashes(t)
        PROVE  \E q \in ToSet(list) : Group[q.link] = Group[l]
    <3>1. d \in Collected(t)
      BY <1>2
    <3> QED BY <1>1, <2>1, <2>4, <3>1, ClashSameGroup
  <2> QED BY <1>2, <2>2, <2>3, <2>4
<1> DEFINE ls == {l \in Links : Con[l] = t}
<1>6. /\ ls \in SUBSET Links
      /\ \A p \in ToSet(list) : p.link \in ls /\ GroupAt(t, p.index) = Group[p.link]
      /\ \A l \in ls : \E p \in ToSet(list) : Group[p.link] = Group[l]
  BY <1>1, <1>2, <1>5
<1>7. NamesGroups(t, Indices(list), ls)
  <2> HIDE DEF ls
  <2> QED BY <1>2, <1>6, GroupsOf
<1>8. IsInjective(Indices(list))
  BY <1>2, <1>4, IndicesInjective
<1> QED BY <1>3, <1>7, <1>8 DEF NamesGroups

(* serve_indices.                                                          *)
LEMMA ServersComplete ==
  ASSUME NothingHidden, SInv, LInv, NEW t \in Tasks, ready[t]
  PROVE  /\ IsInjective(Servers(t))
         /\ {GroupAt(t, i) : i \in ToSet(Servers(t))}
              = {Group[l] : l \in {l \in Links : Prod[l] = t}}
<1> DEFINE wanted == {p \in Collected(t) : Prod[p.link] = t}
           same == {e \in Pairs(t) : e[1].index = e[2].index}
           list == Taken(props[t], wanted, same)
<1>1. /\ props[t] \in Seq(Prop)
      /\ \A l \in Links : Prod[l] = t => \E p \in Collected(t) : p.link = l
      /\ \A p \in Collected(t) : /\ p \in Prop /\ p.link \in Links
                                 /\ GroupAt(t, p.index) = Group[p.link]
  BY ReadyProps
<1>2. /\ list \in Seq(Prop)
      /\ \A e \in ToSet(list) : e \in wanted
      /\ \A a, b \in DOMAIN list : a < b => <<list[a], list[b]>> \notin same
      /\ \A e \in Collected(t) : e \in wanted =>
           \/ e \in ToSet(list)
           \/ \E d \in ToSet(list) : <<d, e>> \in same
  <2> HIDE DEF wanted, same
  <2>1. list \in Seq(Prop) /\ TakesRight(props[t], wanted, same, list)
    BY <1>1, TakenProperties
  <2> HIDE DEF list
  <2> QED BY <2>1 DEF TakesRight, Collected
<1>3. Servers(t) = Indices(list)
  BY DEF Servers
<1> HIDE DEF list
<1>4. ASSUME NEW a \in DOMAIN list, NEW b \in DOMAIN list, a < b
      PROVE  list[a].index # list[b].index
  <2>1. list[a] \in Collected(t) /\ list[b] \in Collected(t)
    BY <1>2 DEF ToSet
  <2>2. <<list[a], list[b]>> \notin same
    BY <1>2, <1>4
  <2> QED BY <2>1, <2>2 DEF Pairs
<1>5. ASSUME NEW l \in Links, Prod[l] = t
      PROVE  \E p \in ToSet(list) : Group[p.link] = Group[l]
  <2>1. PICK p \in Collected(t) : p.link = l
    BY <1>1, <1>5
  <2>2. p \in wanted
    BY <1>5, <2>1
  <2>3. CASE p \in ToSet(list)
    BY <2>1, <2>3
  <2>4. ASSUME NEW d \in ToSet(list), <<d, p>> \in same
        PROVE  \E q \in ToSet(list) : Group[q.link] = Group[l]
    <3>1. d \in Collected(t) /\ d.index = p.index
      BY <1>2, <2>4
    <3>2. Group[d.link] = Group[p.link]
      <4>1. GroupAt(t, d.index) = Group[d.link] /\ GroupAt(t, p.index) = Group[p.link]
        BY <1>1, <3>1
      <4> QED BY <3>1, <4>1
    <3> QED BY <2>1, <3>2
  <2> QED BY <1>2, <2>2, <2>3, <2>4
<1> DEFINE ls == {l \in Links : Prod[l] = t}
<1>6. /\ ls \in SUBSET Links
      /\ \A p \in ToSet(list) : p.link \in ls /\ GroupAt(t, p.index) = Group[p.link]
      /\ \A l \in ls : \E p \in ToSet(list) : Group[p.link] = Group[l]
  BY <1>1, <1>2, <1>5
<1>7. NamesGroups(t, Indices(list), ls)
  <2> HIDE DEF ls
  <2> QED BY <1>2, <1>6, GroupsOf
<1>8. IsInjective(Indices(list))
  BY <1>2, <1>4, IndicesInjective
<1> QED BY <1>3, <1>7, <1>8 DEF NamesGroups

(* flow_policies.                                                          *)
LEMMA PoliciesComplete ==
  ASSUME NothingHidden, NamesApart, OnePolicy, SInv, LInv,
         NEW t \in Tasks, ready[t]
  PROVE  {<<f[1], GroupAt(t, f[2])>> : f \in ToSet(Policies(t))}
           = {<<Policy[l], Group[l]>> :
                l \in {l \in Links : Prod[l] = t /\ Policy[l] # 1}}
<1> DEFINE wanted == {p \in Collected(t) : Prod[p.link] = t /\ Policy[p.link] # 1}
           list == Taken(props[t], wanted, NameClashes(t))
           Of(p) == <<Policy[p.link], p.index>>
           ls == {l \in Links : Prod[l] = t /\ Policy[l] # 1}
<1>1. /\ props[t] \in Seq(Prop)
      /\ \A l \in Links : Prod[l] = t => \E p \in Collected(t) : p.link = l
      /\ \A p \in Collected(t) : /\ p \in Prop /\ p.link \in Links
                                 /\ GroupAt(t, p.index) = Group[p.link]
  BY ReadyProps
<1>2. /\ list \in Seq(Prop)
      /\ \A e \in ToSet(list) : e \in wanted
      /\ \A e \in Collected(t) : e \in wanted =>
           \/ e \in ToSet(list)
           \/ \E d \in ToSet(list) : <<d, e>> \in NameClashes(t)
  <2> HIDE DEF wanted
  <2>1. list \in Seq(Prop) /\ TakesRight(props[t], wanted, NameClashes(t), list)
    BY <1>1, TakenProperties
  <2> HIDE DEF list
  <2> QED BY <2>1 DEF TakesRight, Collected
<1>3. Policies(t) = [k \in DOMAIN list |-> Of(list[k])]
  BY DEF Policies
<1> HIDE DEF list
<1>4. ToSet(Policies(t)) = {Of(p) : p \in ToSet(list)}
  BY <1>3 DEF ToSet
<1>5. \A p \in ToSet(list) : p \in Collected(t) /\ p.link \in ls
  BY <1>1, <1>2
<1>6. ASSUME NEW f \in ToSet(Policies(t))
      PROVE  \E l \in ls : <<f[1], GroupAt(t, f[2])>> = <<Policy[l], Group[l]>>
  <2>1. PICK p \in ToSet(list) : f = Of(p)
    BY <1>4
  <2>2. f[1] = Policy[p.link] /\ f[2] = p.index
    BY <2>1
  <2> QED BY <1>1, <1>5, <2>1, <2>2
<1>7. ASSUME NEW l \in ls
      PROVE  \E f \in ToSet(Policies(t)) :
                <<f[1], GroupAt(t, f[2])>> = <<Policy[l], Group[l]>>
  <2>1. PICK p \in Collected(t) : p.link = l
    BY <1>1
  <2>2. p \in wanted
    BY <2>1
  <2>3. \E q \in ToSet(list) : Group[q.link] = Group[l]
    <3>1. CASE p \in ToSet(list)
      BY <2>1, <3>1
    <3>2. ASSUME NEW d \in ToSet(list), <<d, p>> \in NameClashes(t)
          PROVE  \E q \in ToSet(list) : Group[q.link] = Group[l]
      <4>1. d \in Collected(t)
        BY <1>2
      <4> QED BY <1>1, <2>1, <3>2, <4>1, ClashSameGroup
    <3> QED BY <1>2, <2>2, <3>1, <3>2
  <2>4. PICK q \in ToSet(list) : Group[q.link] = Group[l]
    BY <2>3
  <2>5. q.link \in Links /\ Policy[q.link] = Policy[l]
    BY <1>5, <2>4 DEF OnePolicy
  <2>6. Of(q) \in ToSet(Policies(t))
    BY <1>4
  <2>7. GroupAt(t, q.index) = Group[l]
    BY <1>1, <1>5, <2>4
  <2> QED BY <2>5, <2>6, <2>7
<1> HIDE DEF ls
<1>8. {<<f[1], GroupAt(t, f[2])>> : f \in ToSet(Policies(t))}
        = {<<Policy[l], Group[l]>> : l \in ls}
  BY <1>6, <1>7
<1> QED BY <1>8 DEF ls

(* The parameters of a ready task are complete.                            *)
LEMMA ParametersHold ==
  ASSUME NothingHidden, GroupsFollow, NamesApart, OnePolicy,
         SInv, LInv
  PROVE  ParametersComplete
<1> SUFFICES ASSUME NEW t \in Tasks, ready[t]
             PROVE
  /\ IsInjective(wlk_consumer[t]) /\ IsInjective(serve_indices[t])
  /\ {GroupAt(t, i) : i \in ToSet(wlk_consumer[t])}
       = {Group[l] : l \in {l \in Links : Con[l] = t}}
  /\ {GroupAt(t, i) : i \in ToSet(serve_indices[t])}
       = {Group[l] : l \in {l \in Links : Prod[l] = t}}
  /\ {<<f[1], GroupAt(t, f[2])>> : f \in ToSet(flow_policies[t])}
       = {<<Policy[l], Group[l]>> :
            l \in {l \in Links : Prod[l] = t /\ Policy[l] # 1}}
  BY DEF ParametersComplete
<1>1. /\ wlk_consumer[t] = Consumers(t) /\ serve_indices[t] = Servers(t)
      /\ flow_policies[t] = Policies(t)
  BY DEF SInv, SetUpRight
<1> QED BY <1>1, ConsumersComplete, ServersComplete, PoliciesComplete

(* If no name hides a producer or occurs in another and the links of a     *)
(* group follow one another, exec_task gets the parameters it relies on:   *)
(* each producer and each consumer of the task once, each io_freq.         *)
THEOREM ParametersCompleteCorrect ==
  ASSUME NothingHidden, GroupsFollow, NamesApart, OnePolicy
  PROVE  Spec => []ParametersComplete
<1>1. SInv /\ LInv => ParametersComplete
  BY ParametersHold
<1>2. SInv /\ LInv /\ [Next]_vars => SInv' /\ LInv'
  BY SInvStep, LInvStep
<1>3. Init => SInv /\ LInv
  BY SInvInit, LInvInit
<1> QED BY <1>1, <1>2, <1>3, PTL DEF Spec

-----------------------------------------------------------------------------
(* The file-mode links of a group at a consumer are of one file.           *)
OneFile ==
  \A k, l \in Links : Group[k] = Group[l] /\ In[k].passthru /\ In[l].passthru
    => File[k] = File[l]

(* passthru_list holds a property of each group with a link in file mode.  *)
LEMMA PassthruComplete ==
  ASSUME NothingHidden, SInv, LInv, NEW t \in Tasks, ready[t]
  PROVE  /\ Passthru(t) \in Seq(Prop)
         /\ \A p \in ToSet(Passthru(t)) : p \in Collected(t) /\ OnPassthru(t, p)
         /\ \A p \in Collected(t) : OnPassthru(t, p) =>
              \E q \in ToSet(Passthru(t)) : Group[q.link] = Group[p.link]
<1> DEFINE wanted == {p \in Collected(t) : OnPassthru(t, p)}
           same == {e \in Pairs(t) : Group[e[1].link] = Group[e[2].link]}
           list == Taken(props[t], wanted, same)
<1>1. props[t] \in Seq(Prop)
  BY ReadyProps
<1>2. /\ list \in Seq(Prop)
      /\ \A e \in ToSet(list) : e \in wanted
      /\ \A e \in Collected(t) : e \in wanted =>
           \/ e \in ToSet(list)
           \/ \E d \in ToSet(list) : <<d, e>> \in same
  <2> HIDE DEF wanted, same
  <2>1. list \in Seq(Prop) /\ TakesRight(props[t], wanted, same, list)
    BY <1>1, TakenProperties
  <2> HIDE DEF list
  <2> QED BY <2>1 DEF TakesRight, Collected
<1>3. Passthru(t) = list
  BY DEF Passthru
<1> HIDE DEF list
<1>4. \A d, e : <<d, e>> \in same => Group[d.link] = Group[e.link]
  BY DEF Pairs
<1> QED BY <1>2, <1>3, <1>4

(* pl_prod.                                                                *)
LEMMA PassthruProdComplete ==
  ASSUME NothingHidden, SInv, LInv, NEW t \in Tasks, ready[t]
  PROVE  NamesGroups(t, PassthruProd(t),
                     {l \in Links : Prod[l] = t /\ Out[l].passthru})
<1> DEFINE wanted == {p \in Collected(t) : Prod[p.link] = t}
           list == Taken(Passthru(t), wanted, {})
           ls == {l \in Links : Prod[l] = t /\ Out[l].passthru}
<1>1. /\ \A l \in Links : Prod[l] = t => \E p \in Collected(t) : p.link = l
      /\ \A p \in Collected(t) : /\ p \in Prop /\ p.link \in Links
                                 /\ GroupAt(t, p.index) = Group[p.link]
  BY ReadyProps
<1>2. /\ Passthru(t) \in Seq(Prop)
      /\ \A p \in ToSet(Passthru(t)) : p \in Collected(t) /\ OnPassthru(t, p)
      /\ \A p \in Collected(t) : OnPassthru(t, p) =>
           \E q \in ToSet(Passthru(t)) : Group[q.link] = Group[p.link]
  BY PassthruComplete
<1>3. /\ list \in Seq(Prop)
      /\ \A e \in ToSet(list) : e \in wanted /\ e \in ToSet(Passthru(t))
      /\ \A e \in ToSet(Passthru(t)) : e \in wanted => e \in ToSet(list)
  <2> HIDE DEF wanted
  <2>1. list \in Seq(Prop) /\ TakesRight(Passthru(t), wanted, {}, list)
    BY <1>2, TakenProperties
  <2> HIDE DEF list
  <2> QED BY <2>1 DEF TakesRight
<1>4. PassthruProd(t) = Indices(list)
  BY DEF PassthruProd
<1> HIDE DEF list
<1>5. ASSUME NEW p \in ToSet(list)
      PROVE  p.link \in ls /\ GroupAt(t, p.index) = Group[p.link]
  BY <1>1, <1>2, <1>3 DEF OnPassthru
<1>6. ASSUME NEW l \in ls PROVE \E p \in ToSet(list) : Group[p.link] = Group[l]
  <2>1. PICK p \in Collected(t) : p.link = l
    BY <1>1
  <2>2. OnPassthru(t, p)
    BY <2>1 DEF OnPassthru
  <2>3. PICK q \in ToSet(Passthru(t)) : Group[q.link] = Group[l]
    BY <1>2, <2>1, <2>2
  <2>4. Prod[q.link] = t
    BY <1>1, <1>2, <2>3, GroupAssumption
  <2> QED BY <1>2, <1>3, <2>3, <2>4
<1>7. NamesGroups(t, Indices(list), ls)
  <2> HIDE DEF ls
  <2>1. ls \in SUBSET Links
    BY DEF ls
  <2> QED BY <1>3, <1>5, <1>6, <2>1, GroupsOf
<1> QED BY <1>4, <1>7

(* pl_con: each file of a consumer's properties in passthru_list has the   *)
(* position of such a property.                                            *)
LEMMA PassthruConEntry ==
  ASSUME NEW t, Passthru(t) \in Seq(Prop), NEW p \in ToSet(Passthru(t)),
         Con[p.link] = t
  PROVE  /\ File[p.link] \in DOMAIN PassthruCon(t)
         /\ \E q \in ToSet(Passthru(t)) :
              /\ Con[q.link] = t /\ File[q.link] = File[p.link]
              /\ PassthruCon(t)[File[p.link]] = q.index
<1> DEFINE list == Passthru(t)
           f == File[p.link]
           Of(g) == {k \in DOMAIN list :
                       Con[list[k].link] = t /\ File[list[k].link] = g}
           files == {File[q.link] : q \in {q \in ToSet(list) : Con[q.link] = t}}
<1>1. PassthruCon(t) = [g \in files |-> list[Max(Of(g))].index]
  BY DEF PassthruCon
<1>2. DOMAIN list = 1 .. Len(list) /\ Len(list) \in Nat
  BY LenProperties
<1>3. \E i \in DOMAIN list : p = list[i]
  BY DEF ToSet
<1>4. Of(f) # {} /\ Of(f) \in SUBSET (0 .. Len(list))
  BY <1>2, <1>3
<1>5. f \in files
  OBVIOUS
<1> DEFINE set == Of(f)
<1> HIDE DEF files
<1>6. Max(set) \in set
  <2> HIDE DEF set
  <2>1. \E m \in set : \A k \in set : k <= m
    BY <1>2, <1>4, GreatestNumber DEF set
  <2>2. \E m \in set : \A k \in set : m >= k
    <3>1. \A k \in set : k \in Int
      BY <1>4 DEF set
    <3> QED BY <2>1, <3>1
  <2> QED BY <2>2 DEF Max
<1>7. f \in DOMAIN PassthruCon(t) /\ PassthruCon(t)[f] = list[Max(set)].index
  BY <1>1, <1>5
<1>8. list[Max(set)] \in ToSet(list)
  BY <1>6 DEF ToSet
<1> QED BY <1>6, <1>7, <1>8

(* The lists given to actions name the right groups.                       *)
LEMMA SourcesHold ==
  ASSUME NothingHidden, GroupsFollow, OneFile,
         SInv, LInv
  PROVE  SourcesKnown
<1> SUFFICES ASSUME NEW t \in Tasks, ready[t]
             PROVE
  /\ \A l \in Links : Con[l] = t /\ In[l].passthru =>
       /\ File[l] \in DOMAIN pl_con[t]
       /\ \E k \in Links : /\ Con[k] = t /\ File[k] = File[l]
                           /\ GroupAt(t, pl_con[t][File[l]]) = Group[k]
  /\ {GroupAt(t, i) : i \in ToSet(pl_prod[t])}
       = {Group[l] : l \in {l \in Links : Prod[l] = t /\ Out[l].passthru}}
  BY DEF SourcesKnown
<1>1. pl_con[t] = PassthruCon(t) /\ pl_prod[t] = PassthruProd(t)
  BY DEF SInv, SetUpRight
<1>2. /\ \A l \in Links : Con[l] = t => \E p \in Collected(t) : p.link = l
      /\ \A p \in Collected(t) : /\ p \in Prop /\ p.link \in Links
                                 /\ GroupAt(t, p.index) = Group[p.link]
  BY ReadyProps
<1>3. /\ Passthru(t) \in Seq(Prop)
      /\ \A p \in ToSet(Passthru(t)) : p \in Collected(t) /\ OnPassthru(t, p)
      /\ \A p \in Collected(t) : OnPassthru(t, p) =>
           \E q \in ToSet(Passthru(t)) : Group[q.link] = Group[p.link]
  BY PassthruComplete
<1>4. ASSUME NEW l \in Links, Con[l] = t, In[l].passthru
      PROVE  /\ File[l] \in DOMAIN pl_con[t]
             /\ \E k \in Links : /\ Con[k] = t /\ File[k] = File[l]
                                 /\ GroupAt(t, pl_con[t][File[l]]) = Group[k]
  <2>1. PICK p \in Collected(t) : p.link = l
    BY <1>2, <1>4
  <2>2. Prod[l] # t
    BY <1>4, LinkAssumption
  <2>3. PICK q \in ToSet(Passthru(t)) : Group[q.link] = Group[l]
    BY <1>3, <1>4, <2>1, <2>2 DEF OnPassthru
  <2>4. /\ q.link \in Links /\ Con[q.link] = t /\ Prod[q.link] # t
        /\ In[q.link].passthru
    BY <1>2, <1>3, <1>4, <2>2, <2>3, GroupAssumption DEF OnPassthru
  <2>5. File[q.link] = File[l]
    BY <1>4, <2>3, <2>4 DEF OneFile
  <2>6. /\ File[l] \in DOMAIN PassthruCon(t)
        /\ \E e \in ToSet(Passthru(t)) :
             /\ Con[e.link] = t /\ File[e.link] = File[l]
             /\ PassthruCon(t)[File[l]] = e.index
    BY <1>3, <2>4, <2>5, PassthruConEntry
  <2>7. PICK e \in ToSet(Passthru(t)) :
             /\ Con[e.link] = t /\ File[e.link] = File[l]
             /\ PassthruCon(t)[File[l]] = e.index
    BY <2>6
  <2>8. e.link \in Links /\ GroupAt(t, e.index) = Group[e.link]
    BY <1>2, <1>3
  <2> QED BY <1>1, <2>6, <2>7, <2>8
<1>5. NamesGroups(t, pl_prod[t], {l \in Links : Prod[l] = t /\ Out[l].passthru})
  BY <1>1, PassthruProdComplete
<1> QED BY <1>4, <1>5 DEF NamesGroups

(* If moreover a consumer's links of a group are of one file, its callback *)
(* knows an intercommunicator for every file it may open in file mode.     *)
THEOREM SourcesKnownCorrect ==
  ASSUME NothingHidden, GroupsFollow, OneFile
  PROVE  Spec => []SourcesKnown
<1>1. SInv /\ LInv => SourcesKnown
  BY SourcesHold
<1>2. SInv /\ LInv /\ [Next]_vars => SInv' /\ LInv'
  BY SInvStep, LInvStep
<1>3. Init => SInv /\ LInv
  BY SInvInit, LInvInit
<1> QED BY <1>1, <1>2, <1>3, PTL DEF Spec
=============================================================================
