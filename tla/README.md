# Wilkins in TLA+

Wilkins couples the tasks of an in situ workflow. A YAML file lists the tasks
and the files and datasets each of them reads and writes; Wilkins derives the
links between the tasks, creates an intercommunicator for every pair of coupled
tasks, and runs each task's program (the *puppet*), whose HDF5 files LowFive
turns into messages on those intercommunicators. This directory holds TLA+
modules of that program, the TLC runs that check them and the theorems TLAPS
proves about them. `PROJECT.json` lists components, runs, the source lines
behind every definition, hazards, findings and theorems.

Paths below are relative to the repository.

## Inventory

| Part | Code | State | Operations | Modelled by |
|---|---|---|---|---|
| Task execution | `bindings/python/wilkins/utils.py` `exec_task` | `wlk_consumer` (shrinks), `idx` of `scf_cb`, `prod_done` | first run, `producer_done`, consumer loop, `scf_cb` | `ExecTask` |
| Flow control | `examples/lowfive/wilkins-master.py` `FlowControl` | `serve_counter`, the `indices` and `serve` of each rank | `callback` at every file close | `FlowControl` per rank, one step in `ExecTask` |
| Intercommunicators | `src/wilkins/wilkins.cpp` `build_intercomms` | `index`, `execGroup_dataflows`, `vec_l5_`, communicators | walk over the links, `MPI_Intercomm_create` | `Intercomms` |
| Driver set-up | `examples/lowfive/wilkins-master.py` `main`, `utils.py` `get_passthru_lists` | `wlk_consumer`, `serve_indices`, `flow_policies`, `pl_prod`, `pl_con` | one pass over the LowFive properties | `Intercomms` (`SetUp`) |
| Workflow graph | `src/wilkins/workflow.cpp` | nodes, links, key map | `make_wflow_from_yaml`, `generateLinks`, `match`, `my_in_link`, `my_out_link` | `WorkflowGraph`, `Glob`; the two predicates in `Intercomms` |
| Dataflows, `Comm` | `dataflow.cpp`, `comm.cpp`, `wilkins.cpp` `build_dataflows`, `local_comm_handle` | communicators of a link, `io_proc_` of a rank | construction, link by link, on every rank | `Launch` |
| File-mode handshake | `wilkins.cpp` `wait`, `commit` | barriers on intercommunicators | `wait` before, `commit` after the run (`-p 1`) | `Launch` |
| Passthru callbacks | `utils.py` `setup_passthru_callbacks` | `filename_cache` | set by an action | not modelled |
| Bindings, standalone context, older C++ driver, actions, launch script | `py-wilkins.cpp`, `context.cpp`, `wilkins_master.cpp`, `actions/*.py`, `generate_run_script.py` | none of their own | | not modelled |
| LowFive, Henson, HDF5, MPI | not in the repository | | `serve_all`, `get_filenames`, `send_done`, puppets, `MPI_Intercomm_create` | external operators |

How they interact: YAML → graph (`Workflow`) → one `Dataflow` per link →
`build_intercomms` (a rendezvous between tasks) → LowFive properties →
parameters of `exec_task` → puppet runs, with LowFive calling back into the
flow control whenever a file is closed and into `scf_cb` whenever a file is
opened.

What makes each part correct:

- *Task execution*: every file served is read exactly once and in order, nothing
  is served after the end was announced, every task returns, no exception.
- *Flow control*: `io_freq` is honoured; `latest` never waits for a busy consumer;
  the ranks of a task decide alike, whatever each of them probes.
- *Intercommunicators*: no circular wait, both ends mean the same pair of tasks,
  recorded positions name the right one.
- *Set-up*: the lists `exec_task` relies on are complete and without duplicates.
- *Launch*: the ranks that do I/O share a communicator, a puppet that reads a
  file in file mode runs after the one that writes it, and a launch that cannot
  work stops instead of hanging.
- *Graph*: every dataset a task reads is linked to exactly the producers meant,
  with the frequency given for it.

What is hard: tasks are separate groups of processes that block on each other
(interleaving, deadlock); the end of a stream is announced in band; lists are
mutated while they are used; positions of intercommunicators are used as
numbers of several kinds; strings are compared by substring. `PROJECT.json`
lists the hazards at their lines.

## Modules

### ExecTask

One task is one process of the model; its ranks act as one, because every call
modelled is collective over the task. A link is an intercommunicator, i.e. an
execution group. The constants are what the driver passes to `exec_task`
(`wlk_consumer`, `serve_indices`), the policies, and the puppet of each task as
a sequence of file operations (`Script`). Any script is allowed: stateful
tasks (all files in one run) and stateless ones (one file per run, run again by
the consumer loop).

| State | Code |
|---|---|
| `pc`, `pos`, `first` | where the task is in `exec_task` and in its puppet |
| `wlk`, `cur` | `wlk_consumer` and the position of the `for` loop over it |
| `idx`, `at` | the global `idx` of `scf_cb` (from 1), the link of the file at hand |
| `prod_done` | `prod_done` |
| `serve_counter`, `serving`, `acked` | `FlowControl.serve_counter`; the serve in progress in LowFive and the `done` messages it has |
| `sent`, `got` | history of file numbers, not in the code |

| Actions | Code |
|---|---|
| `OpenFile`, `OpenNamedFile`, `CloseReadFile`, `EndServe` | LowFive under the puppet (external) |
| `scf_cb` (`FetchName`, `FetchNameRaises`) | `scf_cb`, with its two ways to raise `IndexError` |
| `CloseWrittenFile` | `FlowControl.callback` (in one step, see `FlowControl`) or `bsa_cb`, then `serve_all`; or `ValueError` |
| `EndFirstRun`, `EndProducerDone` | `bsa_cb` is installed, `prod_first`, `producer_done` |
| `NextFile`, `NoMoreFiles`, `RestartFor`, `EndLaterRun` | the consumer loop, removal from the list being iterated included |
| `LeaveLoop` | the final `producer_done`, return |

What is assumed of LowFive: a serve answers any consumer it is over until all
of them have sent `done`, also one that has already; `done` sent late is taken
by the next serve. `iprobe` sees any subset of the requests under way. The
`time.sleep(3)` of ensembles is the constant `SleepSuffices`: TRUE means that
the serve a consumer has finished with is over when its next request arrives.

`FileStream` is the abstract specification of a link: a stream on which the
producer is never more than one file ahead. `ExecTask` implements it
(`Streams`).

### FlowControl

`FlowControl.callback` rank by rank. It extends `ExecTask` by one variable,
`callback`: for a task whose puppet has closed a file, the place of each of its
ranks in the list of policies, whether it has probed, and its local `indices`
and `serve`. The list itself, `flow_policies`, is a constant: the links of a task
whose io_freq is not 1, each once, in the order of their positions
(`PolicyAssumption`), which is what the loop of `main` that `Intercomms` models
in `SetUp` makes of the properties. `Elsewhere` is any other step of `ExecTask`, so that consumers ask
while the ranks of a producer are at different places.

| Actions | Code |
|---|---|
| `Barrier` | `serve_counter += 1`, `comm.barrier()`, `indices = list(range(..))`, `serve = 0` |
| `Probe` | one rank's `iprobe` for a `latest` policy; `serve` is not reset |
| `Allreduce` | `allreduce(serve, MAX)` and `indices.remove`, all ranks together |
| `Count` | one rank's test of `serve_counter` for a policy with an interval |
| `Raise` | `ValueError` of `indices.remove` |
| `Return` | the callback has returned on all ranks, the collective serve begins |

`CallbackIsOneStep` is the refinement of `ExecTask` (with its fairness): a file
counts as closed when the callback returns, and a request that one rank has
seen is still there then, because its sender waits.

### Intercomms

Every task walks the links in their global order. `PassLink` skips the links
of others, `ReuseIntercomm` is a link whose execution group is known,
`CreateIntercomm(s, t)` is the meeting of two tasks in `MPI_Intercomm_create`:
both must be there and name each other; MPI does not compare which group they
mean, so an intercommunicator records the link each end created it for.
`MPI_Comm_dup` of the local communicator comes before the walk: a task that
recognises none of its links would duplicate the world, alone, and never starts
it (`DupsWorld`).
`SetUp` is the loop over the LowFive properties in `main`. The names of files,
tasks and groups appear only through the two substring tests the code makes:
`Hidden` (the producer's func occurs in the link's name, `workflow.cpp:57`) and
`NamesIn` (the name of a group occurs in that of another,
`wilkins-master.py:184,199`).

`Intercomms` ends where `ExecTask` begins: `ParametersComplete` is the
assumption `ParameterAssumption` of `ExecTask`, and the parameters of its runs
are those `SetUp` computes.

`pl_prod` and `pl_con` are the lists of file-mode links handed to actions.
`pl_con` has one position per file name, of the first file of a group only;
`SourcesKnown` says when that is enough.

The branches for tasks that share their processes are left out:
`make_wflow_from_yaml` gives every task its own start rank.

### Launch

What happens on the ranks before the tasks of `Intercomms` exist, and what
`exec_task` does around a single run with `-p 1`. A communicator is the set of
its world ranks. Every rank constructs the dataflows in order (`dataflows`);
`MPI_Comm_create_group` is collective over the ranks it names (`CreateComm`), a
dataflow that does not fit in the world is left without communicators, and a
rank that does not write is no `io_proc`. When its ranks have their local
communicator, a task goes on as in `Intercomms`, as one. It then works off
`calls`: a barrier for each incoming file-mode group, the puppet (0), a
barrier for each outgoing one. `commit` goes over the links that `my_out_link`
recognises (`Commits`, as `local_comm`), and a barrier is one on the
intercommunicator the task created for the group (`Handle`): two ends that were
paired for different groups meet in it all the same (`Meet`).

| State | Code |
|---|---|
| `launch` | the size of the world, `-p`, `nwriters`; never changes |
| `dataflows` | the iteration of `build_dataflows` on a rank |
| `comm`, `io_proc`, `local_comm` (operators) | `prod_comm_`/`con_comm_`, `io_proc_`, `local_comm_handle` |
| `calls` | the `for` loops of `wait` and `commit`, the run of the puppet between them |
| `aborted` | an MPI error has ended the job |

| Actions | Code |
|---|---|
| `CreateComm` | the constructors of `Dataflow` and `Comm` |
| `BuildIntercomms` | the actions of `Intercomms` for tasks whose ranks are there |
| `RunPuppet`, `Meet` | the puppet; `MPI_Barrier` on an intercommunicator, which ends when both tasks are in it |
| `Abort` | `MPI_Comm_dup` of no communicator; a remote leader outside the world |
| `StrayCall` | `wait` and `commit` on a rank without intercommunicators index an empty vector |

### Lists

`Taken(list, wanted, clashes)` is the loop that `main` and `workflow.cpp` have in
many places: go through a list and take each wanted entry that does not clash with
one taken before. `Intercomms` makes all lists of `SetUp` with it,
`WorkflowGraph` the producers and consumers of a key. What it takes is a lemma
of `Induction_proofs`.

### Glob

`match` as a function on the numbers of characters behind it in the two strings,
with every result it can return: `?` at the end of the name reads past it.
`Meant` is what a pattern means, without recursion: the name can be cut into one
piece per character of the pattern. That the two agree, and where they do not (a
pattern that ends in `**` is denied the empty rest), is proved for all strings
in `Induction_proofs`. `Found`, `find`, `PreDlm` and `PostDlm` are the cutting of
names with `find` and `substr`.

### WorkflowGraph

`make_wflow_from_yaml` and `generateLinks`, one step per node and per key. A
description is a constant; so are the characters of the file names and datasets
in it (`Files`, `Dsets`) and of the numbers that are put into them (`Written`).
`Name(p)` is "<file>/<dataset>", `InstName(p, n)` the name in an instance, and
`Core` what `generateLinks` makes of such a name again. It cuts at "-inst", also
in a name of the user. What `match` says of two names is computed from them
(`Results`); `Covers`, in which the properties are stated, is what the first
means. Paths are numbers in the order of their names, because the code iterates
over a `std::map`.

Three reads go past an end, and the model lets any outcome of them happen.
Where a `?` meets the end of a name, `match` may return either (`Hits` is a choice
of one answer for every call). Where the instance number is past the end of
`file_range`, any number of `Garbage` is found. Where `i/quot` is past the
shorter list, any node is, or `nodes.at` throws.

| State | Code |
|---|---|
| `task`, `index`, `nodes` | `i`, `index`, `workflow.nodes`; a port's `name` is the one it has in its instance |
| `file_range` | `file_range`, which every task fills again at the length it has, 100 or that of the last range (`RangeAt`) |
| `workflow_links` | `workflow_links`: producers negative, 0 is node 0 as a producer, `Sentinel` (999) node 0 as a consumer |
| `key`, `links` | the iteration over the keys, `workflow.links` |

| Actions | Code |
|---|---|
| `AddNode`, `RejectTask` | one pass of the loop over the instances; its `exit(1)`s, and the exception of `substr` for a file name without a dot (`Dotless`) |
| `AddPassthruFiles`, `RejectUnlinked` | a key without producers or without consumers |
| `GenerateLinks` | `generateLinks` for a key; an index past the shorter list yields any node or an uncaught exception, and so does a name without a dot (`Cuttable`) |

Its result is what `Intercomms` takes as constants: `EndsApart` is
`GroupAssumption` of `Intercomms` and its claim that no two tasks share ranks.
A link carries the `io_freq` of the consumer's port, from the look-up by pattern
that `make_wflow_from_yaml` makes. Arguments, actions and zero copy are only
copied and left out.

## Runs

Each passing run of `ExecTask` is a workflow made of one or two independent parts.

| Run | Shows |
|---|---|
| `chains` | The cycle test of `tests/` (3 iterations) beside a pipeline with a stateless middle task: `Streams`, `NothingServedAfterDone`, `Termination`. 36828 states. |
| `ensembles` | Fan-in test (stateful consumer, 3 files of each of 2 producers) beside one producer of the fan-out test (4 files, 2 consumers, `io_freq` 1 and 2), sleeps long enough: `EachFileOnce`, `PolicyHonoured`, `NoException`, `Termination`. |
| `flow` | Module `FlowControl`, two ranks per task: `io_freq` 2 and two `latest` links of one producer, and a stateless fan-in. `RanksAgree`, `CallbackIsOneStep`, `FrequencyHonoured` (which is `PolicyHonoured`), `LatestServedOnlyWhenAsked`, and `EachFileOnce` even when `scf_cb` raises. The run claims neither `NoException` nor `Termination`: a consumer whose `latest` producer ends without having served raises in `fnames[0]`, and the fan-in consumer raises as in `faninStateless`. 30614 states. |
| `mesh` | Module `Launch`: four tasks on six ranks, seven links (a link with two datasets, a two-way coupling, a fan-out, three cycles; three links in file mode, two of which bring a task the same file), six launches: with `-p 1` and without, with a single writer in either of two tasks, with one or two ranks too few. The properties of `Intercomms` (`TypeOK`, `PeersAgree`, `IndexNamesGroup`, `NoDeadlock`, `ParametersComplete`, `SourcesKnown`) and of `Launch` (`LocalCommRight`, `ReadsAfterRun`, `Launched`). 10911 states. |
| `graphs` | 185 descriptions: 1 to 4 producers and 1 to 4 consumers in either order (a consumer as node 0 included), counts that do not divide, literal and wildcard names, two wildcards for one name, a `?` that meets the end of a name and one that does not, names without a dot, a name with "-inst" in it, all pairs of modes, frequencies, two ports under one key, ranges (one shorter than the instances of the next task, and more instances than `file_range` has places), disk files, cycles, and wrong descriptions. All properties of `WorkflowGraph`, with names and `match` computed on the characters; `LinkedByMeaning` also where a description is ambiguous. 1468 states. |

Violations, each one sentence of the code or its documentation that the code
does not keep (details under `findings`):

| Run | Violates | Because |
|---|---|---|
| `pipeline` | `Termination` | `prod_first` was made for cycles but also fires in an acyclic pipeline |
| `faninStateless` | `NoException` | `idx` of `scf_cb` outlives the removal of a producer from the list |
| `prod2cons` | `EachFileOnce` | the sleep against the fan-out race is only taken in ensembles |
| `pipelineFlow` | `NoException` | the callback removes a position from `range(len(serve_indices))` |
| `interleaved` | `IndexNamesGroup` | a known group's position is taken to be the last one |
| `fileNamedAfterTask` | `AllReady` | `my_out_link` searches the task's func in the file name: `sim` becomes ready without its outgoing link, `log`, which has no other link, hangs duplicating the world, and `viz` waits for both |
| `waits` | `Launched` | `wait` and `commit` pass their barriers in the order of the links: with an outport in both modes and an inport in file mode the consumer waits and the producer never commits; in a diamond three tasks wait for each other in a circle |

Other divergences were met and are not runs. After the first run of its puppet a task loses its flow control
(`utils.py:178`), so a producer that is also a consumer and stateless serves
every file from then on. The io_freq of consumer `viz2` is dropped if there is
a consumer `viz` (`wilkins-master.py:199`). `FlowControl.callback` does not
reset `serve` between two `latest` policies (`wilkins-master.py:73`): the second
is served when the first is asked for (run `flow` contains it, and
`LatestServedOnlyWhenAsked` says "or of a latest link before it"). `ExecTask` and
`Intercomms` model all three.
A file name that two producers share names the later one only (`utils.py:91`):
`mesh` has one, and `SourcesKnown` asks for a producer of the file, not for the
one meant. A second file-mode file of a group is not in `pl_con`
(`wilkins-master.py:177`); `SourcesKnown` fails on such a workflow, and no run has one.
With `-p 1` and fewer writers than ranks, the ranks that do no I/O call `wait` and
`commit`, too (`utils.py:157`); with too few ranks a dataflow is used without
its communicators (`dataflow.cpp:148`): `Launch` ends both in `aborted`, and
`Launched` only promises that.
A task without dataflows takes the world for its local communicator
(`wilkins.cpp:502`), and beside other tasks is stuck in its duplication; run
`fileNamedAfterTask` has one that recognises none of its links. Once an ensemble
was listed, all tasks after it are started as `./<func>.hx`
(`wilkins-master.py:118`); the names of executables are not modelled.
In the graph: links are not made "in round-robin fashion" (`workflow.cpp:439`)
but in blocks; a `range` is also that of the following ports without one
(`workflow.cpp:290`); an unlinked literal port of an ensemble is neither refused
nor known as a disk file (`workflow.cpp:469`); a name listed before a wildcard
that covers it is not linked to it, of two wildcards that cover a name only one
is linked to it, and a wildcard that covers two names pairs their tasks by
position (`workflow.cpp:315`); two ports of a consumer under one key get the
io_freq of the later one (`workflow.cpp:167`). A file name without a dot ends
the program with an exception nobody catches, in an ensemble
(`workflow.cpp:299,375`) and at either end of a link (`119,147`). A name of the
user that contains "-inst" is cut there, so that its port is not found and the
link keeps default modes and an uninitialised `flow_policy` (`workflow.cpp:149`).
After a `range`, `file_range` keeps its length, and a later task with more
instances and no range reads past its end (`workflow.cpp:237,301`). `match` reads
past the end of a name that a `?` meets (`workflow.cpp:80`). `WorkflowGraph` has
all of these; its properties say where they stop:

- `Unambiguous`: a wildcard is listed before the names it covers, covers one of
  them, and a name is covered by one wildcard (`LinksMatchPorts`, `OnlyRealErrors`);
- `Legible`: no `?` meets the end of another name, no name ends in `**`, and no
  covered name has a `*`, so that `match` decides what the names mean (the same two;
  `Decided`, of one name, in `FrequencyMeant`);
- `Even`: the longer list is a multiple of the shorter one;
- `Enough`: a task has no more instances than `file_range` at first, or the ranges
  before it, have places (`DefaultNumbers`);
- `NumbersFitNothing`: no number makes an instance's name fit another name
  (`OnlyRealErrors`);
- `Single` ports in `LinksMatchPorts`, names without "-inst" and ports under one key
  that agree in `FrequencyMeant`.

Bounds: files per producer (2 to 4, in the scripts) and tasks. A producer needs
two files for a race between consecutive serves, three for a stateless fan-in
to lose one producer while another goes on, and four for two periods of
`io_freq` 2. Three tasks make the shortest cycle that is not a two-way
coupling; four are needed for a cycle with a fan-out. Two ranks are the fewest that
can disagree, in a callback as in a communicator with a single writer, and three
policies put a counted one between two probed ones. For the
graph, 4 and 2 instances make blocks longer than one, 3 and 2 an index out of
range, and two wildcards with two names each way in which a name can find its key
or miss it. `MaxInstances` is 4 instead of 100, so that 5 instances pass the end of
`file_range`, and `Garbage` is a number that an instance has and one that none has.

Fairness: weak fairness of each task's step (`ExecTask`, `FlowControl`), of each
task's own steps and of each meeting (`Intercomms`), of the whole next-state
relation (`Launch`, where every behaviour is finite and every call that is
possible stays so); `WorkflowGraph` is one sequential program and states safety
only. Tasks are MPI processes that run
all the time and block only in the calls whose guards the model states; an
answer, once possible, stays possible until taken, so weak fairness suffices.
`CHECK_DEADLOCK FALSE` is set because a workflow ends; that it does not stop
before is `Termination`, `AllReady` and `Launched`.

## Proofs

Eight modules hold theorems; `PROJECT.json` lists them. Every one is about all
values of the constants: any number of tasks, links, ranks and files, any
puppets, any interleaving. The hypotheses beyond the modules' own assumptions are
named here with what they mean for a workflow, the runs whose constants satisfy
them, and what happens without them.

**`Induction_proofs`** is what the other modules need of induction. The library's
induction theorems take a predicate as a parameter, which the installed provers
cannot instantiate; but a non-empty set of numbers has a smallest element
(`LeastNumber`, from `WFMin`, which takes a set), and so a set that contains 0
and with n also n + 1 contains all numbers (`UpTo`), and the values a loop
computes lie in any set that contains the first one and is closed under a round
(`Loop`). `TakesRight` is what `Taken` takes: a sequence of wanted entries without
clashes, and each entry left out clashes with one taken.

It also holds what `match` computes, for all strings. `MatchCalls` says that the
recursion has a value for any two places in the strings and what that is, in
terms of the places it goes on to; `EveryCall` is the induction over the characters
left in both. A pattern means a text from two places on if the remaining
characters of the pattern have pieces there (`FitsRest`), which follows the same
cases as the code. So `match` returns TRUE only for a text its pattern means
(`MatchMeant`, any two strings), it returns TRUE for a string and itself
(`MatchItself`), and if the text has no `*` and the pattern does not end in `**`,
it returns what the pattern means, unless a `?` meets the end of the text, where
it may return anything (`MatchDecides`). It always returns something
(`MatchAnswers`).

**`ExecTask_proofs`**

- `TypeCorrect`: `Spec => []TypeOK`. `TypeOK` is not inductive alone: a task
  that is reading must have a link in `at` (`AtHand`).
- `EachFileOnceCorrect` and `StreamsCorrect`, under `NeverTwice`: the producer of a
  link has one link only, or the tasks sleep long enough and the link's consumer
  reads its file before anything else it reads. (`ensembles` and `flow` satisfy it;
  `prod2cons` shows the race without the sleep.) The inductive invariant `IInv`
  adds the handshake to `EachFileOnce`: a serve is over at most one link if there
  is only one (`OneServed`), an acknowledgement belongs to a serve in progress
  (`AckedServed`), a file at hand is being served and unacknowledged
  (`OpenServed`), the consumer loop only holds links the task consumes
  (`LoopLinks`), and a consumer that sleeps has not acknowledged the file it is
  about to open (`FirstUnacked`). Each action is either quiet for the histories,
  or appends to `got` a file that is unopened, or appends to `sent` when nothing
  is.

**`ExecTaskFlow_proofs`**, under `SourcesLimited`: only tasks that consume nothing
have an io_freq other than 1 on an outgoing link. (`ensembles` and `flow` satisfy it;
`pipelineFlow` shows what a limited link of another task does.)

- `PolicyHonouredCorrect`: the files sent on a link are the multiples of its io_freq
  up to the counter, by induction over the counter, whose quotient grows by one
  exactly at a multiple (`CountUp`).
- `LatestServedOnlyWhenAskedCorrect`: only closing a written file makes a file
  unopened (`ClosedUnopened`), and then the callback has not dropped the link.
- `NoExceptionCorrect`, if moreover no puppet asks Wilkins for a file name: the
  positions of a source are those of its outgoing links, so `indices.remove` finds
  what it removes.
- `NoExceptionWithNamesCorrect`, for puppets that do ask: `scf_cb` takes the
  producers in turn and raises if the one whose turn it is has no more files. It
  never does if the files of the producers last for a whole number of runs, the same
  on all links, and each run ends at the place of the list where it has begun
  (`FilesUsedUp`); `NeverTwice` is needed for `EachFileOnce`. The invariant (`Rounds`)
  counts runs: between two of them as many files have been opened on each link as `r`
  runs open (`Between`), and inside one, `idx` is where the names asked for so far
  lead (`Turn`) and every link has the files of this run (`During`). A producer that
  gives filenames has a file nobody has opened, so less than all `R` runs are over
  and all links have files for another one (`AnotherRun`); one that gives none has closed all it writes
  (`OneRun`) and all have been opened (`AllOpened`), so no link leaves the list while
  a name is still to be asked of another. `ensembles` satisfies the hypotheses.
  `faninStateless`, which takes one name from one of two producers in each run, does
  not, and there `scf_cb` raises.
- `NothingServedAfterDoneCorrect`, if no task has `prod_first` (`LoopsFirst`), as
  wherever no task both reads and writes (`ensembles`, `flow`), or the ones that
  do have their positions that way round.
- `NothingServedInCyclesCorrect`: in a cycle `prod_first` fires, and a task that has
  issued `producer_done` would serve again if it were to run again. The theorem
  takes any set of tasks whose producers are in the set and each of which reads,
  in its first run, at least as many files on a link as the producer writes in its
  own (`ReadInFirstRun`); the tasks outside have no `prod_first`. It needs
  `NeverTwice`. The invariant ties three counts together: a producer has closed as
  many files as writes its puppet has come to (`OneRun`), has served no more on a
  link than it has closed (`SentClosed`), and a consumer that has ended its first
  run has opened at least as many as its puppet reads (`HasRead`). A second run
  would need a file served and not opened (`EachFileOnce`), one more than were
  written. `chains`, the cycle of `tests/`, satisfies the hypotheses.

**`FlowControl_proofs`** and **`CallbackStep_proofs`**, for any number of ranks and
policies and any moment at which requests arrive:

- `RanksAgreeCorrect`: `FCSpec => []RanksAgree`. Ranks pass a counted policy
  alone, so that at any moment some are ahead of others and hold fewer indices.
  The invariant `RInv` therefore compares any two of them (`Ahead`): between the
  place of the one behind and that of the one ahead there are only counted
  policies, and the indices differ by what these remove (`Missed`). `PassInLine`
  is that a rank that passes a counted policy stays in line with all others;
  `AllreduceStep` is that ranks that meet in an allreduce are at one place, since
  one that is behind has a probed policy before it, which nobody passes alone.
- `CallbackIsOneStepCorrect`: the safety part of `CallbackIsOneStep`. The step of
  `ExecTask` decides from one set of requests, while the ranks probe one after the
  other, some before a request arrives and some after. The invariant `DInv` says
  that there is, at every moment, a set of requests under way that explains what
  all ranks have decided so far (`Explained`): it is empty until a probe succeeds,
  it only holds links of policies some rank has reached, and what a rank has
  dropped are the links before its place that these requests would make `ExecTask`
  drop (`RankDecides`). A request in the set stays, because its sender is stuck
  until the callback returns (`AskingStuck`). So `Return` is a step of `ExecTask`
  with this set, `Raise` is one that raises, and everything else in the callback
  stutters, as a file counts as closed when the callback returns (`Closed`).
- `FrequencyHonouredCorrect` and `RanksServeWhenAskedCorrect` (`SourcesLimited`),
  `RanksEachFileOnceCorrect` (`NeverTwice`): what holds of `ExecTask` holds on the
  ranks. The first follows from the refinement; the other two compare the callback
  with its effect on the state (`CallbackCases`), because their properties are
  about `serve_counter`, which the ranks count up earlier.

**`Intercomms_proofs`**

- `WalkTypeCorrect`, `TypeCorrect`: no position is negative, no task leaves the
  links, and all lists hold what they should, in every workflow.
- `PeersAgreeCorrect` and `NoDeadlockCorrect`, under `NothingHidden`: no link has a
  name in which its producer's func occurs (`fileNamedAfterTask` has one). The
  second also needs `NobodyAlone`: no task is without links beside others, where
  it would be stuck in `MPI_Comm_dup`. The
  invariant `WInv` says that a task has an intercommunicator for exactly the groups
  of its links behind it (`Behind`, `Covered`) and that both ends pass the first
  link of a group together (`Together`). The task at the smallest link can then
  always go on: either alone, or its partner, which cannot be past that link, is
  at it.
- `IndexNamesGroupCorrect`, under `GroupsFollow`: the links of a group follow one
  another among those of a task (`interleaved` violates it). `LInv`: the
  intercommunicators of a task are in the order of their links, and the
  properties of the links behind it name one of their group.
- `ParametersCompleteCorrect`, under these two, `NamesApart` (no name of a group
  occurs in another) and `OnePolicy` (the links of a group have one io_freq);
  `SourcesKnownCorrect`, under the first two and `OneFile` (the file-mode links of
  a group are of one file). `SInv` ties the lists of a task that is ready to its
  properties; the rest is what `Taken` takes of them.

`mesh` satisfies all hypotheses of this and the next module.

**`Launch_proofs`**, for every launch: any size of the world, any writers.

- `LaunchTypeCorrect`, `LaunchWalkCorrect`, `LaunchParametersCorrect`: a launch
  implements `Intercomms` (`LaunchStep`), so what holds there holds here.
- `LocalCommRightCorrect`, under `NothingHidden` and `Linked` (every task has a
  link): every communicator of a link that covers a task's rank is that of the
  task's ranks that do I/O, and `local_comm_handle` finds one.
- `ReadsAfterRunCorrect`, under `NothingHidden`. Barriers match intercommunicators,
  not the groups the two tasks mean; that these are the same is `PeersAgree`, which
  two hidden links of a two-way coupling break. `CallsInv` says that a task's calls are barriers on links to it,
  then the puppet, then barriers on links from it (`InOrder`), and that a group a
  task waits for is still among its calls or the producer's puppet has run
  (`WaitsOrRan`).

**`WorkflowGraph_proofs`**, for every description. `graphs` has descriptions on
either side of every condition that the properties state (see Runs); apart from
these conditions the theorems have one hypothesis, that of `DefaultNumbersCorrect`.

- `TypeCorrect`, `ModesAgreeCorrect`, `EndsApartCorrect` (funcs that differ are a
  condition of the property), `DefaultNumbersCorrect` (funcs differ in every
  description, as in `graphs`). The invariant `GInv`: nodes come from the instances
  before the one at hand, in this order (`NodesRight`), `file_range` has places for
  all later tasks that should find enough (`PlaceRight`, `Fits`), the entries under a
  key are nodes (`TableRight`), every link joins two of them with the names, modes
  and frequency of its ports (`LinkRight`). `AddPortsIn` is the loop over the ports of
  a node.
- `BalancedCorrect`: `LinksRight` says that the links of a key gone through are a
  block of `links` in which link i joins entry i of the longer list with place
  `i / quot` of the shorter one (`BlockAt`), and that only such keys have links. The
  places of an entry of the shorter list are a run of `quot` numbers
  (`PartnerPlaces`); a set made of runs has `quot` times as many elements as there
  are runs (`RunsCount`, by a bijection with a product).
- `LinkedByMeaningCorrect`: `EntriesMatch` says that every entry under a key is a node
  with a port that `match` may accept there or that is the key itself. If `match`
  has only one answer, that answer is what the key means (`Accepted`, from
  `MatchMeant` and `MatchAnswers`). This is what remains true of an ambiguous
  description.
- `CoreRestores`: cutting "-inst" and the number out of an instance's name gives the
  user's name back, whatever the number. The name is three parts, what is before its
  first dot, the inserted text and the rest (`NamesMadeOf`); the first place of
  "-inst" in them is where it was put in (`CutRestores`) only if there is none in the
  user's name, also not across two of the parts.
- `FrequencyMeantCorrect`, from `GInv` and `CoreRestores`: the port `PortOf` finds is
  one of those that the key covers (`PortKnown`).
- `LinksMatchPortsCorrect`: in a legible description `match` decides what the paths
  mean (`DecidedRight`, from `MatchDecides`). A path has a home, the wildcard of the
  description that covers it or else itself (`Home`), and two ports match if and
  only if they have one home (`SameHome`), in an unambiguous description.
  `CopiesRight` is that nodes have the ports of their tasks; `HomesRight` that keys
  are homes, that every port read so far has made its home a key, and that the
  entries of a key are the nodes with a port whose home it is. For the step, a path
  finds no other key than its home (`KeyIsHome`), because a wildcard is listed, and
  therefore entered, before what it covers (`Ready`). So a key has both ends if and
  only if its ports match some port (`BothEnds`), and what `generateLinks` does with
  it is in `LinksRight`.
- `OnlyRealErrorsCorrect`: `GaveUp` records why the program exited, and a key with one
  end has no port that matches the others; ports on disk are looked up by their name
  in an instance, which a key only fits if it covers the path (`UnderName`,
  `NumbersFitNothing`).

The attempt to prove `FrequencyMeant` and `LinksMatchPorts` found that they claimed too much, of descriptions
that `graphs` did not have then: with two wildcards for one name, or two ports of
a consumer with different frequencies under one key, they do not hold.
`Unambiguous` and `FrequencyMeant` now say so, and `graphs` contains both.

The assumptions are those of the modules (`LinkAssumption`,
`ParameterAssumption`, `ScriptAssumption`, `IndexAssumption`, `GroupAssumption`,
`RankAssumption`, `PolicyAssumption`, `PathAssumption`, `YamlAssumption`, ...); TLC
evaluates them on the constants of every run.

Only model-checked, and why:

- liveness: `Termination`, `AllReady`, `Launched`, and the fairness part of
  `CallbackIsOneStep`. Fairness is outside what TLAPS does.

## Not modelled

- `ext` holds copies of other projects (fmt, diy, pybind11, yaml-cpp), nearly
  all of the repository's lines. Wilkins itself is about 2200 lines, and all
  modules are about those.
- `setup_passthru_callbacks` (`utils.py`): two callbacks an action may install,
  `after_file_close`, which calls `serve_all(True, False)`, and
  `before_file_open`, which asks for filenames and sends `done` at once. What
  follows from them (when a file on disk may be overwritten, what LowFive does
  at a close without memory mode) is decided inside LowFive and the file system.
- Tasks that share processes (`build_intercomms(task)`, `wilkins_master.cpp`,
  `context.cpp`): a workflow made from YAML has none.
- `py-wilkins.cpp` forwards calls; the callbacks of `actions/*.py` belong to
  the user; `generate_run_script.py` writes text; YAML is parsed by a library.
- The names of executables and of the arguments of puppets, `{filename}` included.

## Plan

The parts Wilkins itself decides are modelled, and every safety property that a
passing run checks is proved. Where a theorem has
hypotheses on the workflow, the runs that expect a violation show what happens
outside them: `pipelineFlow` without `SourcesLimited`, `faninStateless` with a
puppet whose runs end at another place of the list of producers, `prod2cons`
without `NeverTwice`, `pipeline` with
`prod_first` and a task that runs again.
