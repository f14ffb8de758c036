------------------------------- MODULE Launch -------------------------------
(***************************************************************************)
(* How a workflow starts and, run once with -p 1, how its tasks wait for   *)
(* each other's files: the construction of Wilkins and of a Dataflow per   *)
(* link on every rank (wilkins.cpp, dataflow.cpp, comm.cpp), the walk of   *)
(* Intercomms, and in exec_task (utils.py) wait(), the puppet and commit().*)
(*                                                                         *)
(* A communicator is the set of its world ranks.  Ranks act alone until    *)
(* their dataflows are there; after that a task acts as one, as in         *)
(* Intercomms.                                                             *)
(***************************************************************************)
EXTENDS Intercomms, FiniteSets, FiniteSetsExt

CONSTANTS
  start_proc, nprocs,  \* [Tasks -> Nat], the ranks of a task
  Launches             \* [world, passthruSupport, nwriters], ways to start

ASSUME LaunchAssumption ==
  /\ start_proc \in [Tasks -> Nat] /\ nprocs \in [Tasks -> Nat \ {0}]
  /\ \A s, t \in Tasks : s # t => \/ start_proc[s] + nprocs[s] <= start_proc[t]
                                  \/ start_proc[t] + nprocs[t] <= start_proc[s]
  /\ \A x \in Launches : \A t \in Tasks : x.nwriters[t] \in 0 .. nprocs[t]

VARIABLES
  launch,      \* the number of ranks, -p, nwriters (0: not given)
  dataflows,   \* the link a rank is at in build_dataflows
  calls,       \* what a task still has to do in exec_task, 0: the puppet
  aborted      \* the MPI job is over

setting == <<launch, dataflows>>
lVars == <<vars, setting, calls, aborted>>

World == 0 .. launch.world - 1
Procs(t) == start_proc[t] .. start_proc[t] + nprocs[t] - 1

-----------------------------------------------------------------------------
(* build_dataflows.                                                        *)

(* Both ends of the link fit in the world.                                 *)
Fits(l) == Procs(Prod[l]) \cup Procs(Con[l]) \subseteq World

(* The ranks of prod_comm_: all, or the first nwriters.                    *)
Writers(t) ==
  IF launch.nwriters[t] = 0 THEN Procs(t)
  ELSE start_proc[t] .. start_proc[t] + launch.nwriters[t] - 1

(* The communicator of which rank r becomes a member for link l; none if   *)
(* the constructor of Dataflow returns early.                              *)
Joins(r, l) ==
  IF ~Fits(l) THEN {}
  ELSE IF r \in Writers(Prod[l]) THEN Writers(Prod[l])
  ELSE IF r \in Procs(Con[l]) THEN Procs(Con[l]) ELSE {}

(* The first link from l on for which the rank takes part in a collective  *)
(* call; it constructs the dataflows before it alone.                      *)
NextJoin(r, l) ==
  Min({k \in l .. NumLinks : Joins(r, k) # {}} \cup {NumLinks + 1})

Constructed(r) == dataflows[r] > NumLinks

(* prod_comm_ or con_comm_ of the dataflow of link l, {}: not set.         *)
comm(r, l) == IF l < dataflows[r] THEN Joins(r, l) ELSE {}

(* io_proc_ when all dataflows are there: not for a rank that does not     *)
(* write.  The mutant never clears it.                                     *)
IoProcKept(r) == TRUE

io_proc(r) ==
  \A l \in Links : Fits(l) => r \notin Procs(Prod[l]) \ Writers(Prod[l])

(* exec_task: wait() on the incoming groups, the puppet, commit() on the   *)
(* outgoing ones, those in node_in_dataflows and out_dataflows.  A group   *)
(* counts by its first link, and there is a barrier on its                 *)
(* intercommunicator if this is in file mode only.                         *)
FileOnly(mode) == mode.passthru /\ ~mode.metadata

FirstLinks(ls) == {l \in ls : \A k \in ls : k < l => Group[k] # Group[l]}

Waits(t)   == {l \in FirstLinks({l \in Links : Con[l] = t}) : FileOnly(In[l])}
Commits(t) ==
  {l \in FirstLinks({l \in Links : Prod[l] = t /\ Mine(t, l)}) : FileOnly(Out[l])}

(* In the order of the links.                                              *)
Barriers(ls) == Taken([l \in Links |-> l], ls, {})

(* The mutant commits first.                                               *)
CallsCommitFirst(t) ==
  IF ~launch.passthruSupport THEN <<0>>
  ELSE Barriers(Waits(t)) \o Barriers(Commits(t)) \o <<0>>

Calls(t) ==
  IF ~launch.passthruSupport THEN <<0>>
  ELSE Barriers(Waits(t)) \o <<0>> \o Barriers(Commits(t))

LInit ==
  /\ Init
  /\ launch \in Launches
  /\ dataflows = [r \in World |-> NextJoin(r, 1)]
  /\ calls = [t \in Tasks |-> Calls(t)]
  /\ aborted = FALSE

(* MPI_Comm_create_group is collective over the group.                     *)
CreateComm(l, group) ==
  /\ \A r \in group : r \in World /\ dataflows[r] = l
  /\ \A r \in group : Joins(r, l) = group
  /\ dataflows' = [r \in World |-> IF r \in group THEN NextJoin(r, l + 1)
                                                  ELSE dataflows[r]]
  /\ UNCHANGED vars /\ UNCHANGED <<launch, calls, aborted>>

TaskOf(r) == CHOOSE t \in Tasks : r \in Procs(t)

(* local_comm_handle: the communicator of the first outgoing link, or else *)
(* of the first incoming one, or else the world.                           *)
local_comm(r) ==
  LET t    == TaskOf(r)
      outs == {l \in Links : Prod[l] = t /\ Mine(t, l)}
      ins  == {l \in Links : Con[l] = t}
  IN IF outs # {} THEN comm(r, Min(outs))
     ELSE IF ins # {} THEN comm(r, Min(ins)) ELSE World

IoProcs(t) == {r \in Procs(t) \cap World : io_proc(r)}

(* All ranks of the task that do I/O are in build_intercomms, which starts *)
(* with MPI_Comm_dup of the local communicator.                            *)
Entered(t) ==
  /\ Procs(t) \cap World # {}
  /\ \A r \in Procs(t) \cap World : Constructed(r)
  /\ \A r \in IoProcs(t) : local_comm(r) # {}

BuildIntercomms ==
  /\ \/ \E t \in Tasks : /\ Entered(t)
                         /\ PassLink(t) \/ ReuseIntercomm(t) \/ SetUp(t)
     \/ \E s, t \in Tasks : Entered(s) /\ Entered(t) /\ CreateIntercomm(s, t)
  /\ UNCHANGED setting /\ UNCHANGED <<calls, aborted>>

(* A communicator that was never created is used, or a leader is asked for *)
(* that is not in the world: the job is aborted.                           *)
Abort ==
  /\ \/ \E r \in World : Constructed(r) /\ io_proc(r) /\ local_comm(r) = {}
     \/ \E t \in Tasks : /\ Entered(t) /\ Asking(t)
                         /\ start_proc[Remote(t, Here(t))] \notin World
  /\ aborted' = TRUE
  /\ UNCHANGED vars /\ UNCHANGED setting /\ UNCHANGED calls

-----------------------------------------------------------------------------
(* exec_task.                                                              *)

(* A task calls exec_task when its parameters are set.                     *)
Calling(t) == ready[t] /\ calls[t] # <<>>
Call(t) == Head(calls[t])

RunPuppet(t) ==
  /\ Calling(t) /\ Call(t) = 0
  /\ calls' = [calls EXCEPT ![t] = Tail(@)]
  /\ UNCHANGED vars /\ UNCHANGED setting /\ UNCHANGED aborted

(* in_intercomms_[index-1] and intercomms[i]: the intercommunicator that   *)
(* the task created for the group of link l.                               *)
Handle(t, l) == CHOOSE c \in ToSet(comms[t]) : Group[c.mine] = Group[l]

(* A barrier on an intercommunicator ends when both tasks are in it,       *)
(* whatever group each of them means by it.                                *)
Meet(s, t) ==
  /\ s # t
  /\ Calling(s) /\ Call(s) # 0 /\ Calling(t) /\ Call(t) # 0
  /\ Handle(s, Call(s)).theirs = Handle(t, Call(t)).mine
  /\ Handle(t, Call(t)).theirs = Handle(s, Call(s)).mine
  /\ calls' = [u \in Tasks |-> IF u \in {s, t} THEN Tail(calls[u]) ELSE calls[u]]
  /\ UNCHANGED vars /\ UNCHANGED setting /\ UNCHANGED aborted

Handshakes(t) == launch.passthruSupport /\ Waits(t) \cup Commits(t) # {}

(* A rank that does not do I/O has no intercommunicators: wait() and       *)
(* commit() index an empty vector.                                         *)
StrayCall(r) ==
  /\ Constructed(r) /\ ~io_proc(r) /\ Handshakes(TaskOf(r))
  /\ aborted' = TRUE
  /\ UNCHANGED vars /\ UNCHANGED setting /\ UNCHANGED calls

-----------------------------------------------------------------------------
LNext ==
  /\ ~aborted
  /\ \/ \E l \in Links : CreateComm(l, Writers(Prod[l])) \/ CreateComm(l, Procs(Con[l]))
     \/ BuildIntercomms \/ Abort
     \/ \E t \in Tasks : RunPuppet(t)
     \/ \E s, t \in Tasks : Meet(s, t)
     \/ \E r \in World : StrayCall(r)

(* Whoever can go on does; a call that is possible stays so.               *)
LSpec == LInit /\ [][LNext]_lVars /\ WF_lVars(LNext)

-----------------------------------------------------------------------------
(* Properties.                                                             *)

(* The communicator LowFive is given holds exactly the ranks of the task    *)
(* that do I/O, on each of them (wilkins.cpp:482), if the task has links    *)
(* or is alone.                                                            *)
LocalCommRight ==
  \A t \in Tasks :
    Procs(t) \subseteq World /\ (\A r \in Procs(t) : Constructed(r)) =>
      \/ \E l \in Links : t \in {Prod[l], Con[l]} /\ ~Fits(l)
      \/ \A r \in IoProcs(t) : local_comm(r) = IoProcs(t)

(* With -p 1, a puppet that reads a file in file mode only runs after the   *)
(* puppet that writes it (wait, "wait for data to be ready for the          *)
(* specific intercomm", wilkins.cpp:167).                                  *)
Ran(t) == 0 \notin ToSet(calls[t])

ReadsAfterRun ==
  launch.passthruSupport =>
    \A t \in Tasks : Ran(t) => \A l \in Waits(t) : Ran(Prod[l])

(* A launch is sound if all links fit in the world and no rank that does    *)
(* not write belongs to a task that handshakes.  A sound launch brings      *)
(* every task through exec_task (wait, "this is required for handshake      *)
(* assuming producer would finish with commit()", wilkins.cpp:154); any     *)
(* other one is stopped instead of hanging.                                *)
Sound ==
  /\ \A l \in Links : Fits(l)
  /\ \A t \in Tasks : /\ \E l \in Links : Prod[l] = t
                      /\ Writers(t) # Procs(t)
                      => ~Handshakes(t)

AllThrough == \A t \in Tasks : ready[t] /\ calls[t] = <<>>

Launched == <>(IF Sound THEN AllThrough ELSE aborted)
=============================================================================
