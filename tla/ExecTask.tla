------------------------------ MODULE ExecTask ------------------------------
(***************************************************************************)
(* The coupling protocol of a Wilkins workflow: what every task does in    *)
(* exec_task (bindings/python/wilkins/utils.py), over the serve/get/done   *)
(* handshake that LowFive performs on each intercommunicator.              *)
(*                                                                         *)
(* A task runs its puppet once, then, as a consumer, asks each of its      *)
(* producers for more files and runs the puppet again as long as it gets   *)
(* some; as a producer it serves every file it closes and finally serves   *)
(* an empty list of filenames (producer_done), before or after its         *)
(* consumer loop.                                                          *)
(*                                                                         *)
(* A link stands for an intercommunicator, that is an execution group of   *)
(* one producer task and one consumer task.  The ranks of a task act as    *)
(* one: every call below is collective over the task.  LowFive and the     *)
(* user's puppets are not part of the repository; their operators are      *)
(* marked "external" and state what Wilkins relies on.                     *)
(***************************************************************************)
EXTENDS Integers, Sequences, SequencesExt

CONSTANTS
  Tasks,           \* the tasks (nodes) of the workflow
  Links,           \* the intercommunicators, one per execution group
  NoLink,          \* not a link
  Prod, Con,       \* [Links -> Tasks], the two ends of a link
  Index,           \* [Tasks -> [Links -> Nat]], position in a task's intercomms
  wlk_consumer,    \* [Tasks -> Seq(Links)], the links a task consumes from
  serve_indices,   \* [Tasks -> Seq(Links)], the links a task serves
  Policy,          \* [Links -> Int], io_freq: 1 all, n some, -1 latest
  Script,          \* [Tasks -> Seq(Ops)], one run of the task's puppet
  Ensembles,       \* some task of the workflow has taskCount > 1
  SleepSuffices    \* the 3 seconds of the ensembles outlast a serve

In(t)  == {l \in Links : Con[l] = t}
Out(t) == {l \in Links : Prod[l] = t}

(* What a puppet does: it opens and closes a file of a given link, opens   *)
(* and closes the file whose name Wilkins supplies, or creates, writes and *)
(* closes a file of its own.                                               *)
Ops == [op : {"read"}, link : Links] \cup [op : {"readNext", "write"}]

ASSUME LinkAssumption ==
  /\ Prod \in [Links -> Tasks]
  /\ Con \in [Links -> Tasks]
  /\ \A l \in Links : Prod[l] # Con[l]
  /\ NoLink \notin Links
  /\ Policy \in [Links -> {-1} \cup (Nat \ {0})]

ASSUME IndexAssumption ==
  /\ Index \in [Tasks -> [Links -> Nat]]
  /\ \A t \in Tasks : \A k, l \in In(t) \cup Out(t) :
        /\ Index[t][k] = Index[t][l] => k = l
        /\ Index[t][l] < Len(wlk_consumer[t]) + Len(serve_indices[t])

ASSUME ParameterAssumption ==
  /\ wlk_consumer \in [Tasks -> Seq(Links)]
  /\ serve_indices \in [Tasks -> Seq(Links)]
  /\ \A t \in Tasks : /\ ToSet(wlk_consumer[t]) = In(t)
                      /\ IsInjective(wlk_consumer[t])
                      /\ ToSet(serve_indices[t]) = Out(t)
                      /\ IsInjective(serve_indices[t])

ASSUME ScriptAssumption ==
  /\ Script \in [Tasks -> Seq(Ops)]
  /\ \A t \in Tasks : \A i \in DOMAIN Script[t] :
        Script[t][i].op = "read" => Con[Script[t][i].link] = t
  /\ Ensembles \in BOOLEAN
  /\ SleepSuffices \in BOOLEAN

VARIABLES
  pc,             \* where each task is in exec_task
  pos,            \* the next operation of the task's puppet
  first,          \* the puppet is in its first run
  wlk,            \* the local list wlk_consumer, shrinking at every "no more"
  cur,            \* the position of the for loop over wlk_consumer
  idx,            \* the global idx of scf_cb, counted from 1
  at,             \* the link of the file being opened or read
  prod_done,      \* producer_done has been issued
  serve_counter,  \* files closed so far, the number of the last one
  serving,        \* the links of the serve in progress
  acked,          \* the links whose consumer has sent done for it
  sent,           \* history: the files served on a link
  got             \* history: the files opened on a link by its consumer

vars == <<pc, pos, first, wlk, cur, idx, at, prod_done, serve_counter,
          serving, acked, sent, got>>

PcValues == {"run", "named", "reading", "serve", "loop", "done", "exit", "error"}

(***************************************************************************)
(* Every task is somewhere in exec_task, its lists hold links, and its     *)
(* counters are natural numbers.                                           *)
(***************************************************************************)
TypeOK ==
  /\ pc \in [Tasks -> PcValues]
  /\ pos \in [Tasks -> Nat \ {0}]
  /\ first \in [Tasks -> BOOLEAN]
  /\ wlk \in [Tasks -> Seq(Links)]
  /\ cur \in [Tasks -> Nat \ {0}]
  /\ idx \in [Tasks -> Nat \ {0}]
  /\ at \in [Tasks -> Links \cup {NoLink}]
  /\ prod_done \in [Tasks -> BOOLEAN]
  /\ serve_counter \in [Tasks -> Nat]
  /\ serving \in [Tasks -> SUBSET Links]
  /\ acked \in SUBSET Links
  /\ sent \in [Links -> Seq(Nat)]
  /\ got \in [Links -> Seq(Nat)]

Init ==
  /\ pc = [t \in Tasks |-> "run"]
  /\ pos = [t \in Tasks |-> 1]
  /\ first = [t \in Tasks |-> TRUE]
  /\ wlk = wlk_consumer
  /\ cur = [t \in Tasks |-> 1]
  /\ idx = [t \in Tasks |-> 1]
  /\ at = [t \in Tasks |-> NoLink]
  /\ prod_done = [t \in Tasks |-> FALSE]
  /\ serve_counter = [t \in Tasks |-> 0]
  /\ serving = [t \in Tasks |-> {}]
  /\ acked = {}
  /\ sent = [l \in Links |-> <<>>]
  /\ got = [l \in Links |-> <<>>]

-----------------------------------------------------------------------------
(* The handshake on one link (external: LowFive).  A producer in a serve   *)
(* answers the requests of all the consumers it serves until the last of   *)
(* them has sent done, also those of a consumer that has sent done already.*)
Answering(l) == /\ l \in serving[Prod[l]]
                /\ serving[Prod[l]] \ acked # {}

FileOn(l) == Answering(l) /\ pc[Prod[l]] = "serve"
EofOn(l)  == Answering(l) /\ pc[Prod[l]] = "done"

(* time.sleep(3) before get_filenames in an ensemble: with luck the serve  *)
(* this consumer has finished with is over when the request arrives.       *)
Awake(l) == TRUE    \* mutant of Slept: no sleep at all

Slept(l) == Ensembles /\ SleepSuffices => l \notin acked

(* A serve over ls is over once the consumer of every link of ls has sent  *)
(* done.  On a link that t does not produce nobody ever does.              *)
AllDone(t, ls) == ls \subseteq acked \cap Out(t)

RangeOver(t) == pos[t] > Len(Script[t])
NextOp(t)    == Script[t][pos[t]]
AtOp(t, op)  == pc[t] = "run" /\ ~RangeOver(t) /\ NextOp(t).op = op

-----------------------------------------------------------------------------
(* FlowControl.callback: which intercommunicators the next serve is over.  *)
(* The callback is installed if some link of the task has a policy, and    *)
(* exec_task replaces it by bsa_cb after the first run of the puppet.      *)
Limited(t) == {l \in Out(t) : Policy[l] # 1}

FlowControlled(t) == first[t] /\ Limited(t) # {}

(* A consumer that waits for an answer on l; its request may have reached  *)
(* the producer, so that iprobe sees it, or may be on its way.             *)
Asking(l) ==
  LET t == Con[l] IN
  \/ AtOp(t, "read") /\ NextOp(t).link = l
  \/ AtOp(t, "readNext") /\ idx[t] \in DOMAIN wlk[t] /\ wlk[t][idx[t]] = l
  \/ pc[t] = "named" /\ at[t] = l
  \/ pc[t] = "loop" /\ cur[t] \in DOMAIN wlk[t] /\ wlk[t][cur[t]] = l

(* The links the callback drops when file n is closed and ready is the set *)
(* of links iprobe finds a request on.  The flag "serve" is not reset from *)
(* one policy to the next: a request on an earlier "latest" link counts.   *)
(* The mutant counts too late.                                             *)
SkippedOffByOne(t, n, ready) ==
  {l \in Limited(t) : Policy[l] # -1 /\ (n - 1) % Policy[l] # 0}

Skipped(t, n, ready) ==
  {l \in Limited(t) :
     IF Policy[l] = -1
     THEN \A k \in Limited(t) :
             Policy[k] = -1 /\ Index[t][k] <= Index[t][l] => k \notin ready
     ELSE n % Policy[l] # 0}

(* indices is list(range(len(serve_indices))): the numbers of the first    *)
(* intercommunicators of the task, whichever links those are.              *)
Indexed(t) ==
  {l \in In(t) \cup Out(t) : Index[t][l] < Len(serve_indices[t])}

Served(t, n, ready) ==
  IF FlowControlled(t) THEN Indexed(t) \ Skipped(t, n, ready) ELSE Out(t)

(* indices.remove(idx) raises ValueError for an idx that is not in it.     *)
CallbackRaises(t, n, ready) ==
  FlowControlled(t) /\ ~ Skipped(t, n, ready) \subseteq Indexed(t)

-----------------------------------------------------------------------------
(* The puppet.                                                             *)

(* The puppet opens a file it knows the name of (external: the metadata    *)
(* request of LowFive blocks until the producer serves a file).            *)
OpenFile(t) ==
  /\ AtOp(t, "read")
  /\ LET l == NextOp(t).link IN
       /\ FileOn(l)
       /\ at' = [at EXCEPT ![t] = l]
       /\ got' = [got EXCEPT ![l] = Append(@, serve_counter[Prod[l]])]
  /\ pc' = [pc EXCEPT ![t] = "reading"]
  /\ UNCHANGED <<pos, serve_counter, first, wlk, cur, idx, prod_done, serving,
                 acked, sent>>

(* The place of scf_cb in wlk_consumer after it has been used.  Mutants: no *)
(* reset at the end of the list, a reset to a place before the list, and   *)
(* no step at all.                                                         *)
NextIdxNoWrap(t) == IF Ensembles THEN idx[t] + 1 ELSE idx[t]

NextIdxZero(t) == IF ~Ensembles THEN idx[t]
                  ELSE IF idx[t] = Len(wlk[t]) THEN 0 ELSE idx[t] + 1

NextIdxStays(t) == idx[t]

NextIdx(t) == IF ~Ensembles THEN idx[t]
              ELSE IF idx[t] = Len(wlk[t]) THEN 1 ELSE idx[t] + 1

(* The puppet opens a file by the name scf_cb returns, the newest of the   *)
(* filenames of the producer whose turn it is.                             *)
FetchName(t) ==
  /\ idx[t] \in DOMAIN wlk[t]
  /\ LET l == wlk[t][idx[t]] IN
       /\ FileOn(l) /\ Slept(l)
       /\ pc' = [pc EXCEPT ![t] = "named"]
       /\ at' = [at EXCEPT ![t] = l]
       /\ idx' = [idx EXCEPT ![t] = NextIdx(t)]

(* scf_cb raises IndexError when idx is past the end of wlk_consumer, and  *)
(* when the list of filenames is empty (fnames[-1], fnames[0]).            *)
FetchNameRaises(t) ==
  /\ \/ idx[t] \notin DOMAIN wlk[t]
     \/ /\ idx[t] \in DOMAIN wlk[t]
        /\ LET l == wlk[t][idx[t]] IN EofOn(l) /\ Slept(l)
  /\ pc' = [pc EXCEPT ![t] = "error"]
  /\ UNCHANGED <<at, idx>>

scf_cb(t) ==
  /\ AtOp(t, "readNext")
  /\ FetchName(t) \/ FetchNameRaises(t)
  /\ UNCHANGED <<pos, first, wlk, cur, prod_done, serve_counter, serving,
                 acked, sent, got>>

OpenNamedFile(t) ==
  /\ pc[t] = "named"
  /\ FileOn(at[t])
  /\ pc' = [pc EXCEPT ![t] = "reading"]
  /\ got' = [got EXCEPT ![at[t]] = Append(@, serve_counter[Prod[at[t]]])]
  /\ UNCHANGED <<pos, at, serve_counter, first, wlk, cur, idx, prod_done,
                 serving, acked, sent>>

(* The puppet closes the file it has read (external: LowFive sends done,   *)
(* which the producer takes at its current or at its next serve).          *)
CloseReadFile(t) ==
  /\ pc[t] = "reading"
  /\ acked' = acked \cup {at[t]}
  /\ pc' = [pc EXCEPT ![t] = "run"]
  /\ pos' = [pos EXCEPT ![t] = @ + 1]
  /\ at' = [at EXCEPT ![t] = NoLink]
  /\ UNCHANGED <<serve_counter, first, wlk, cur, idx, prod_done, serving,
                 sent, got>>

(* serve_all over the links ls (external: LowFive).                        *)
StartServe(t, ls) ==
  /\ pc' = [pc EXCEPT ![t] = "serve"]
  /\ serving' = [serving EXCEPT ![t] = ls]
  /\ sent' = [l \in Links |-> IF l \in ls /\ Prod[l] = t
                              THEN Append(sent[l], serve_counter'[t])
                              ELSE sent[l]]

(* The puppet closes a file it has written: the task serves it.            *)
CloseWrittenFile(t) ==
  /\ AtOp(t, "write")
  /\ LET n == serve_counter[t] + 1 IN
       /\ serve_counter' = [serve_counter EXCEPT ![t] = n]
       /\ \E ready \in SUBSET {l \in Out(t) : Asking(l)} :
            IF CallbackRaises(t, n, ready)
            THEN /\ pc' = [pc EXCEPT ![t] = "error"]
                 /\ UNCHANGED <<serving, sent>>
            ELSE StartServe(t, Served(t, n, ready))
  /\ UNCHANGED <<pos, at, first, wlk, cur, idx, prod_done, acked, got>>

EndServe(t) ==
  /\ pc[t] = "serve"
  /\ AllDone(t, serving[t])
  /\ acked' = acked \ serving[t]
  /\ serving' = [serving EXCEPT ![t] = {}]
  /\ pc' = [pc EXCEPT ![t] = "run"]
  /\ pos' = [pos EXCEPT ![t] = @ + 1]
  /\ UNCHANGED <<at, serve_counter, first, wlk, cur, idx, prod_done, sent,
                 got>>

-----------------------------------------------------------------------------
(* exec_task after the first run of the puppet.                            *)
Producer(t) == Out(t) # {}

(* prod_first of exec_task, which compares the first intercommunicators    *)
(* the task produces on and consumes from.  Mutants: no prod_first, and    *)
(* the comparison of a task with one link on each side turned around.      *)
ProdNever(t) == FALSE

ProdFirstSwapped(t) ==
  LET out == serve_indices[t]
      in  == wlk[t]
  IN Len(out) = 1 /\ Len(in) = 1 /\ Index[t][out[1]] < Index[t][in[1]]

ProdFirst(t) ==
  LET out == serve_indices[t]
      in  == wlk[t]
  IN CASE Len(out) = 1 /\ Len(in) = 1 -> Index[t][out[1]] > Index[t][in[1]]
       [] Len(out) > 1 /\ Len(in) > 1 -> Index[t][out[1]] < Index[t][in[1]]
       [] OTHER                       -> FALSE

StartProducerDone(t) ==
  /\ pc' = [pc EXCEPT ![t] = "done"]
  /\ serving' = [serving EXCEPT ![t] = Out(t)]

(* The first run is over: bsa_cb is the serve callback from here on, and   *)
(* the task issues producer_done now or after its consumer loop.           *)
EndFirstRun(t) ==
  /\ pc[t] = "run" /\ RangeOver(t) /\ first[t]
  /\ first' = [first EXCEPT ![t] = FALSE]
  /\ IF Producer(t) /\ (wlk[t] = <<>> \/ ProdFirst(t))
     THEN StartProducerDone(t)
     ELSE /\ pc' = [pc EXCEPT ![t] = "loop"]
          /\ UNCHANGED serving
  /\ UNCHANGED <<pos, wlk, cur, idx, at, prod_done, serve_counter, acked,
                 sent, got>>

(* Any later run is over: the for loop goes on.                            *)
EndLaterRun(t) ==
  /\ pc[t] = "run" /\ RangeOver(t) /\ ~first[t]
  /\ pc' = [pc EXCEPT ![t] = "loop"]
  /\ cur' = [cur EXCEPT ![t] = @ + 1]
  /\ UNCHANGED <<pos, first, wlk, idx, at, prod_done, serve_counter, serving,
                 acked, sent, got>>

(* producer_done returns: every consumer has acknowledged the empty list.  *)
EndProducerDone(t) ==
  /\ pc[t] = "done"
  /\ AllDone(t, serving[t])
  /\ acked' = acked \ serving[t]
  /\ serving' = [serving EXCEPT ![t] = {}]
  /\ prod_done' = [prod_done EXCEPT ![t] = TRUE]
  /\ pc' = [pc EXCEPT ![t] = "loop"]
  /\ UNCHANGED <<pos, first, wlk, cur, idx, at, serve_counter, sent, got>>

(* One round of the for loop gets filenames: the puppet runs again.  The   *)
(* mutant sends done whatever get_filenames has returned.                  *)
NextFileSendsDone(t) ==
  /\ pc[t] = "loop" /\ cur[t] \in DOMAIN wlk[t]
  /\ LET l == wlk[t][cur[t]] IN /\ FileOn(l) /\ Slept(l)
                                /\ acked' = acked \cup {l}
  /\ pc' = [pc EXCEPT ![t] = "run"]
  /\ pos' = [pos EXCEPT ![t] = 1]
  /\ UNCHANGED <<at, serve_counter, first, wlk, cur, idx, prod_done, serving,
                 sent, got>>

NextFile(t) ==
  /\ pc[t] = "loop" /\ cur[t] \in DOMAIN wlk[t]
  /\ LET l == wlk[t][cur[t]] IN FileOn(l) /\ Slept(l)
  /\ pc' = [pc EXCEPT ![t] = "run"]
  /\ pos' = [pos EXCEPT ![t] = 1]
  /\ UNCHANGED <<at, serve_counter, first, wlk, cur, idx, prod_done, serving,
                 acked, sent, got>>

(* One round gets no filenames: send_done, and the link leaves the list    *)
(* the for loop is iterating over, so that the loop skips its successor.   *)
NoMoreFiles(t) ==
  /\ pc[t] = "loop" /\ cur[t] \in DOMAIN wlk[t]
  /\ LET l == wlk[t][cur[t]] IN
       /\ EofOn(l) /\ Slept(l)
       /\ acked' = acked \cup {l}
  /\ wlk' = [wlk EXCEPT ![t] = RemoveAt(@, cur[t])]
  /\ cur' = [cur EXCEPT ![t] = @ + 1]
  /\ UNCHANGED <<pc, pos, first, idx, at, prod_done, serve_counter, serving,
                 sent, got>>

(* The for loop is at its end and the while loop starts it again.          *)
RestartFor(t) ==
  /\ pc[t] = "loop" /\ wlk[t] # <<>> /\ cur[t] > Len(wlk[t])
  /\ cur' = [cur EXCEPT ![t] = 1]
  /\ UNCHANGED <<pc, pos, first, wlk, idx, at, prod_done, serve_counter,
                 serving, acked, sent, got>>

(* No producer is left: exec_task returns, after the producer_done it may  *)
(* still owe.                                                              *)
LeaveLoop(t) ==
  /\ pc[t] = "loop" /\ wlk[t] = <<>>
  /\ IF Producer(t) /\ ~prod_done[t]
     THEN StartProducerDone(t)
     ELSE pc' = [pc EXCEPT ![t] = "exit"] /\ UNCHANGED serving
  /\ UNCHANGED <<pos, at, serve_counter, first, wlk, cur, idx, prod_done,
                 acked, sent, got>>

-----------------------------------------------------------------------------
Step(t) ==
  \/ OpenFile(t) \/ scf_cb(t) \/ OpenNamedFile(t)
  \/ CloseReadFile(t) \/ CloseWrittenFile(t) \/ EndServe(t)
  \/ EndFirstRun(t) \/ EndLaterRun(t) \/ EndProducerDone(t)
  \/ NextFile(t) \/ NoMoreFiles(t) \/ RestartFor(t) \/ LeaveLoop(t)

(* The workflow is over when every task has returned from exec_task.       *)
Finished == \A t \in Tasks : pc[t] = "exit"

Next == \E t \in Tasks : Step(t)

(* Every task is a group of running processes: it takes the step it can.   *)
Fairness == \A t \in Tasks : WF_vars(Step(t))

Spec == Init /\ [][Next]_vars /\ Fairness

-----------------------------------------------------------------------------
(* Properties.                                                             *)

(***************************************************************************)
(* A file that is served on a link is opened by the link's consumer        *)
(* exactly once, in the order of serving: whenever the producer is not     *)
(* waiting for the consumer to open its current file, the two histories    *)
(* are equal; while it is waiting, the consumer is exactly that file       *)
(* behind.  The hazard is get_filenames answered a second time in a serve  *)
(* that goes on for somebody else.                                         *)
(***************************************************************************)
Unopened(l) == /\ pc[Prod[l]] = "serve"
               /\ l \in serving[Prod[l]] \ acked
               /\ ~(pc[Con[l]] = "reading" /\ at[Con[l]] = l)

EachFileOnce ==
  \A l \in Links :
    sent[l] = IF Unopened(l) THEN Append(got[l], serve_counter[Prod[l]])
                             ELSE got[l]

(***************************************************************************)
(* A task that has issued producer_done serves no file any more: its       *)
(* consumers have left their loops and nobody would answer.                *)
(***************************************************************************)
NothingServedAfterDone ==
  \A t \in Tasks : pc[t] = "serve" /\ serving[t] # {} => ~prod_done[t]

(***************************************************************************)
(* The io_freq of a link is honoured: with "all" or "some" the n-th,       *)
(* 2n-th, ... file the producer closes is served on the link, and no other.*)
(***************************************************************************)
PolicyHonoured ==
  \A l \in Links : Policy[l] # -1 =>
    sent[l] = [i \in 1 .. (serve_counter[Prod[l]] \div Policy[l]) |->
                 i * Policy[l]]

(***************************************************************************)
(* A "latest" producer does not begin to wait for consumers that are all   *)
(* busy elsewhere: when its file is served on a latest link, the consumer  *)
(* of that link, or of a latest link before it, is at a call that opens.   *)
(* ("Or before it", because the flag serve survives its policy.)           *)
(***************************************************************************)
ServedWhenAsked ==
  \A l \in Links : Policy[l] = -1 /\ ~Unopened(l) /\ Unopened(l)' =>
    LET t == Prod[l] IN
      \E k \in Limited(t) : /\ Policy[k] = -1 /\ Index[t][k] <= Index[t][l]
                            /\ Asking(k)

LatestServedOnlyWhenAsked == [][ServedWhenAsked]_vars

(***************************************************************************)
(* No task is stopped by a Python exception (ValueError of the callback,   *)
(* IndexError of scf_cb).                                                  *)
(***************************************************************************)
NoException == \A t \in Tasks : pc[t] # "error"

(***************************************************************************)
(* The workflow terminates: every task returns from exec_task.             *)
(***************************************************************************)
Termination == <>Finished

(***************************************************************************)
(* Every link is a stream of files: the protocol of exec_task implements   *)
(* FileStream, where the producer is at most one file ahead.               *)
(***************************************************************************)
Stream == INSTANCE FileStream WITH Links <- Links, sent <- sent, got <- got

Streams == Stream!Spec

=============================================================================
