----------------------------- MODULE Intercomms -----------------------------
(***************************************************************************)
(* How the tasks of a workflow get their intercommunicators: every task    *)
(* walks the links of the workflow in their global order                   *)
(* (Wilkins::build_intercomms, wilkins.cpp) and meets the other end of     *)
(* each execution group in MPI_Intercomm_create; the properties collected  *)
(* on the way then become the parameters of exec_task (main of             *)
(* wilkins-master.py).                                                     *)
(*                                                                         *)
(* The ranks of a task act as one: they walk the same links, and creating  *)
(* an intercommunicator is collective over them.  No two tasks of a        *)
(* workflow made from YAML start at the same rank, so the branches of      *)
(* build_intercomms for tasks that share their processes are left out.     *)
(***************************************************************************)
EXTENDS Integers, Sequences, SequencesExt, Lists

CONSTANTS
  Tasks,      \* the tasks (nodes) of the workflow
  NumLinks,   \* the number of links, which are numbered from 1
  Prod, Con,  \* [Links -> Tasks], the two ends of a link
  Group,      \* [Links -> names], execGroup, "<producer>:<consumer>"
  Policy,     \* [Links -> Int], flowPolicy
  File,       \* [Links -> names], the file of the link
  In, Out,    \* [Links -> [passthru, metadata : BOOLEAN]], its two modes
  Hidden,     \* the links whose name contains the func of their producer
  NamesIn     \* [names -> SUBSET names], the names that occur in a name

Links == 1 .. NumLinks
Names == {Group[l] : l \in Links}

ASSUME LinkAssumption ==
  /\ NumLinks \in Nat
  /\ Prod \in [Links -> Tasks]
  /\ Con \in [Links -> Tasks]
  /\ \A l \in Links : Prod[l] # Con[l]
  /\ Policy \in [Links -> Int]
  /\ In \in [Links -> [passthru : BOOLEAN, metadata : BOOLEAN]]
  /\ Out \in [Links -> [passthru : BOOLEAN, metadata : BOOLEAN]]
  /\ Hidden \subseteq Links

(* The comment on execGroup (workflow.hpp) asks for unique names.          *)
ASSUME GroupAssumption ==
  /\ \A k, l \in Links :
        Group[k] = Group[l] <=> Prod[k] = Prod[l] /\ Con[k] = Con[l]
  /\ \A n \in Names : n \in NamesIn[n]

VARIABLES
  at,              \* the link a task is at, i of build_intercomms
  comms,           \* the intercommunicators a task has created, in order
  props,           \* the LowFive properties it has collected, vec_l5
  ready,           \* the task has set up the parameters of exec_task
  wlk_consumer,
  serve_indices,
  flow_policies,   \* <<policy, position of an intercommunicator>>
  pl_prod, pl_con  \* the file-mode links, for callback actions

vars == <<at, comms, props, ready, wlk_consumer, serve_indices, flow_policies,
          pl_prod, pl_con>>
walk == <<at, comms, props>>
parameters == <<ready, wlk_consumer, serve_indices, flow_policies, pl_prod,
                pl_con>>

(* An intercommunicator as one task sees it: the link this task created it *)
(* for, and the link for which the task at the other end did.              *)
Comm == [mine : Links, theirs : Links]

(***************************************************************************)
(* Every task is at some link, and its lists hold what they should; no     *)
(* position is negative.                                                   *)
(***************************************************************************)
WalkTypeOK ==
  /\ at \in [Tasks -> 1 .. NumLinks + 1]
  /\ comms \in [Tasks -> Seq(Comm)]
  /\ props \in [Tasks -> Seq([link : Links, index : Nat])]

TypeOK ==
  /\ WalkTypeOK
  /\ ready \in [Tasks -> BOOLEAN]
  /\ wlk_consumer \in [Tasks -> Seq(Nat)]
  /\ serve_indices \in [Tasks -> Seq(Nat)]
  /\ flow_policies \in [Tasks -> Seq(Int \X Nat)]
  /\ pl_prod \in [Tasks -> Seq(Nat)]

Init ==
  /\ at = [t \in Tasks |-> 1]
  /\ comms = [t \in Tasks |-> <<>>]
  /\ props = [t \in Tasks |-> <<>>]
  /\ ready = [t \in Tasks |-> FALSE]
  /\ wlk_consumer = [t \in Tasks |-> <<>>]
  /\ serve_indices = [t \in Tasks |-> <<>>]
  /\ flow_policies = [t \in Tasks |-> <<>>]
  /\ pl_prod = [t \in Tasks |-> <<>>] /\ pl_con = [t \in Tasks |-> <<>>]

-----------------------------------------------------------------------------
(* build_intercomms.                                                       *)

(* my_in_link and my_out_link: the latter does not recognise a link whose  *)
(* name, "<file>/<dataset>:<consumer>", contains the producer's func.      *)
Mine(t, l) == \/ Con[l] = t
              \/ Prod[l] = t /\ l \notin Hidden

Remote(t, l) == IF Prod[l] = t THEN Con[l] ELSE Prod[l]

(* The link a task visits next: "here we do in the order of links, rather  *)
(* than each task going thru their order".  The mutant has every task go   *)
(* through its outgoing links before the others.                           *)
HereOutFirst(t) ==
  LET Outgoing == {l \in Links : Prod[l] = t}
  IN (SetToSortSeq(Outgoing, <) \o SetToSortSeq(Links \ Outgoing, <))[at[t]]

Here(t) == at[t]

Walking(t) == at[t] <= NumLinks

(* The execution group of the link has an intercommunicator already.       *)
Known(t) == \E i \in DOMAIN comms[t] : Group[comms[t][i].mine] = Group[Here(t)]

(* prodIndex or conIndex of a link whose group is known: index - 1, index  *)
(* being the number of intercommunicators so far.  The mutants exchange    *)
(* what the two branches of the code assign.                               *)
NextIndexSwapped(t) == Len(comms[t]) - 1

NextIndex(t) == Len(comms[t])

LastIndex(t) == Len(comms[t]) - 1

(* MPI_Comm_dup of local_comm_handle comes before the loop.  A task that   *)
(* recognises none of the links would duplicate the world, alone, as the   *)
(* consumer of a link recognises it and duplicates a communicator of its   *)
(* own.                                                                    *)
DupsWorld(t) == NumLinks > 0 /\ \A l \in Links : ~Mine(t, l)

Passing(t) == Walking(t) /\ ~Mine(t, Here(t)) /\ ~DupsWorld(t)
Reusing(t) == Walking(t) /\ Mine(t, Here(t)) /\ Known(t)
Asking(t)  == Walking(t) /\ Mine(t, Here(t)) /\ ~Known(t)

PassLink(t) ==
  /\ Passing(t)
  /\ at' = [at EXCEPT ![t] = @ + 1]
  /\ UNCHANGED <<comms, props>> /\ UNCHANGED parameters

ReuseIntercomm(t) ==
  /\ Reusing(t)
  /\ at' = [at EXCEPT ![t] = @ + 1]
  /\ props' = [props EXCEPT ![t] =
                 Append(@, [link |-> Here(t), index |-> LastIndex(t)])]
  /\ UNCHANGED comms /\ UNCHANGED parameters

(* MPI_Intercomm_create returns when both ends have called it with each    *)
(* other's leader; which execution group they mean is not compared.        *)
Meeting(s, t) ==
  /\ Asking(s) /\ Remote(s, Here(s)) = t
  /\ Asking(t) /\ Remote(t, Here(t)) = s

CreateIntercomm(s, t) ==
  /\ Meeting(s, t)
  /\ at' = [u \in Tasks |-> IF u \in {s, t} THEN at[u] + 1 ELSE at[u]]
  /\ comms' = [u \in Tasks |->
       IF u \in {s, t}
       THEN Append(comms[u], [mine |-> Here(u),
                              theirs |-> Here(IF u = s THEN t ELSE s)])
       ELSE comms[u]]
  /\ props' = [u \in Tasks |->
       IF u \in {s, t}
       THEN Append(props[u], [link |-> Here(u), index |-> NextIndex(u)])
       ELSE props[u]]
  /\ UNCHANGED parameters

-----------------------------------------------------------------------------
(* main of wilkins-master.py goes through the properties in order.         *)

Indices(list) == [k \in DOMAIN list |-> list[k].index]

Collected(t) == ToSet(props[t])

Pairs(t) == Collected(t) \X Collected(t)

(* any(x in prop.execGroup for x in ...): the name of the first occurs in  *)
(* the name of the second.                                                 *)
NameClashes(t) ==
  {e \in Pairs(t) : Group[e[1].link] \in NamesIn[Group[e[2].link]]}

(* One position per producer, unless the name of a group taken before      *)
(* occurs in the name of this one.                                         *)
Consumers(t) ==
  Indices(Taken(props[t], {p \in Collected(t) : Con[p.link] = t},
                NameClashes(t)))

(* Mutant of Servers: a position once per dataset.                         *)
ServersPerDataset(t) ==
  Indices(Taken(props[t], {p \in Collected(t) : Prod[p.link] = t}, {}))

Servers(t) ==
  Indices(Taken(props[t], {p \in Collected(t) : Prod[p.link] = t},
                {e \in Pairs(t) : e[1].index = e[2].index}))

Policies(t) ==
  LET limited == {p \in Collected(t) : Prod[p.link] = t /\ Policy[p.link] # 1}
      list == Taken(props[t], limited, NameClashes(t))
  IN [k \in DOMAIN list |-> <<Policy[list[k].link], list[k].index>>]

(* passthru_list: of every execution group, the first property that is not *)
(* in memory mode.  The mutant takes one property in all.                  *)
OnPassthru(t, p) ==
  IF Prod[p.link] = t THEN Out[p.link].passthru ELSE In[p.link].passthru

PassthruOfOne(t) ==
  Taken(props[t], {p \in Collected(t) : OnPassthru(t, p)}, Pairs(t))

Passthru(t) ==
  Taken(props[t], {p \in Collected(t) : OnPassthru(t, p)},
        {e \in Pairs(t) : Group[e[1].link] = Group[e[2].link]})

(* get_passthru_lists: the positions of the producer's links, and for the  *)
(* consumer a dictionary from file names, in which a later group replaces  *)
(* an earlier one.                                                         *)
PassthruProd(t) ==
  Indices(Taken(Passthru(t), {p \in Collected(t) : Prod[p.link] = t}, {}))

PassthruCon(t) ==
  LET list == Passthru(t)
      Of(f) == {k \in DOMAIN list : Con[list[k].link] = t /\ File[list[k].link] = f}
  IN [f \in {File[p.link] : p \in {p \in ToSet(list) : Con[p.link] = t}} |->
        list[Max(Of(f))].index]

SetUp(t) ==
  /\ ~Walking(t) /\ ~ready[t]
  /\ ready' = [ready EXCEPT ![t] = TRUE]
  /\ wlk_consumer' = [wlk_consumer EXCEPT ![t] = Consumers(t)]
  /\ serve_indices' = [serve_indices EXCEPT ![t] = Servers(t)]
  /\ flow_policies' = [flow_policies EXCEPT ![t] = Policies(t)]
  /\ pl_prod' = [pl_prod EXCEPT ![t] = PassthruProd(t)]
  /\ pl_con' = [pl_con EXCEPT ![t] = PassthruCon(t)]
  /\ UNCHANGED walk

-----------------------------------------------------------------------------
Next == \/ \E t \in Tasks : PassLink(t) \/ ReuseIntercomm(t) \/ SetUp(t)
        \/ \E s, t \in Tasks : CreateIntercomm(s, t)

(* Every task goes on when it can, and two that ask for each other meet.   *)
Fairness ==
  /\ \A t \in Tasks : WF_vars(PassLink(t) \/ ReuseIntercomm(t) \/ SetUp(t))
  /\ \A s, t \in Tasks : WF_vars(CreateIntercomm(s, t))

Spec == Init /\ [][Next]_vars /\ Fairness

-----------------------------------------------------------------------------
(* Properties.                                                             *)

(***************************************************************************)
(* The two ends of an intercommunicator created it for the same execution  *)
(* group.  Two tasks that are each other's producer meet twice, and        *)
(* nothing but the common order of the links keeps the meetings apart.     *)
(***************************************************************************)
PeersAgree ==
  \A t \in Tasks : \A i \in DOMAIN comms[t] :
    Group[comms[t][i].mine] = Group[comms[t][i].theirs]

(***************************************************************************)
(* prodIndex and conIndex of a link are the position of the                *)
(* intercommunicator of the link's own execution group: set_intercomm and  *)
(* the flow control use them as that.                                      *)
(***************************************************************************)
IndexNamesGroup ==
  \A t \in Tasks : \A i \in DOMAIN props[t] :
    LET p == props[t][i] IN
      /\ p.index + 1 \in DOMAIN comms[t]
      /\ Group[comms[t][p.index + 1].mine] = Group[p.link]

(***************************************************************************)
(* No circular wait: as long as some task is not ready, some task can go   *)
(* on, or two tasks are waiting for each other.                            *)
(***************************************************************************)
NoDeadlock ==
  \/ \A t \in Tasks : ready[t]
  \/ \E t \in Tasks : Passing(t) \/ Reusing(t) \/ ~(Walking(t) \/ ready[t])
  \/ \E s, t \in Tasks : Meeting(s, t)

(***************************************************************************)
(* The parameters of exec_task are what it relies on: wlk_consumer has the *)
(* intercommunicator of every producer of the task exactly once,           *)
(* serve_indices that of every consumer exactly once, and every group with *)
(* an io_freq has its policy, at its own position.                         *)
(***************************************************************************)
GroupAt(t, i) == Group[comms[t][i + 1].mine]

ParametersComplete ==
  \A t \in Tasks : ready[t] =>
    /\ IsInjective(wlk_consumer[t]) /\ IsInjective(serve_indices[t])
    /\ {GroupAt(t, i) : i \in ToSet(wlk_consumer[t])}
         = {Group[l] : l \in {l \in Links : Con[l] = t}}
    /\ {GroupAt(t, i) : i \in ToSet(serve_indices[t])}
         = {Group[l] : l \in {l \in Links : Prod[l] = t}}
    /\ {<<f[1], GroupAt(t, f[2])>> : f \in ToSet(flow_policies[t])}
         = {<<Policy[l], Group[l]>> :
              l \in {l \in Links : Prod[l] = t /\ Policy[l] # 1}}

(***************************************************************************)
(* A consumer's callback knows an intercommunicator for every file it may  *)
(* open in file mode, and it is that of a producer of this file            *)
(* (get_source_index, utils.py:9); a producer knows all its links.         *)
(***************************************************************************)
SourcesKnown ==
  \A t \in Tasks : ready[t] =>
    /\ \A l \in Links : Con[l] = t /\ In[l].passthru =>
         /\ File[l] \in DOMAIN pl_con[t]
         /\ \E k \in Links : /\ Con[k] = t /\ File[k] = File[l]
                            /\ GroupAt(t, pl_con[t][File[l]]) = Group[k]
    /\ {GroupAt(t, i) : i \in ToSet(pl_prod[t])}
         = {Group[l] : l \in {l \in Links : Prod[l] = t /\ Out[l].passthru}}

(***************************************************************************)
(* Every task gets all its intercommunicators and starts exec_task.        *)
(***************************************************************************)
AllReady == <>(\A t \in Tasks : ready[t])

=============================================================================
