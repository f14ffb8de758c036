----------------------------- MODULE MCExecTask -----------------------------
(***************************************************************************)
(* Small workflows for ExecTask: the topologies of tests/*.yaml and of the *)
(* README (pipeline, fan-in, fan-out, cycle), a few files per producer.    *)
(* Links are numbered in the order build_intercomms creates them.          *)
(***************************************************************************)
EXTENDS ExecTask, FiniteSets

CONSTANT Workflow

Read(l)  == [op |-> "read", link |-> l]
ReadNext == [op |-> "readNext"]
Write    == [op |-> "write"]

Times(n, ops) == FlattenSeq([i \in 1..n |-> ops])

Workflows == [
  \* tests/wilkins_cycle_test_memory.yaml with 3 iterations (links 1 to 3),
  \* and a pipeline with a stateless task b whose outgoing link was made first
  chains |-> [
    prod |-> <<"node0", "node1", "node2", "b", "a">>,
    con  |-> <<"node1", "node2", "node0", "c", "b">>,
    freq |-> <<1, 1, 1, 1, 1>>,
    script |-> [node0 |-> <<Write>> \o Times(2, <<Read(3), Write>>),
                node1 |-> Times(3, <<Read(1), Write>>),
                node2 |-> Times(2, <<Read(2), Write>>) \o <<Read(2)>>,
                a |-> Times(3, <<Write>>), b |-> <<Read(5), Write, Write>>,
                c |-> <<Read(4)>>]],
  \* tests/wilkins_ensemble_test_fanin.yaml with its stateful consumer, and
  \* tests/wilkins_ensemble_test_fanout.yaml, one of the producers
  ensembles |-> [
    prod |-> <<"p0", "p1", "p", "p">>, con |-> <<"c", "c", "c0", "c1">>,
    freq |-> <<1, 1, 1, 2>>,
    script |-> [p0 |-> Times(3, <<Write>>), p1 |-> Times(3, <<Write>>),
                c |-> Times(6, <<ReadNext>>),
                p |-> Times(4, <<Write>>), c0 |-> <<ReadNext>>,
                c1 |-> Times(2, <<ReadNext>>)]],
  \* a producer with io_freq 2 and one with two "latest" consumers; one of
  \* them, stateless as in examples/lowfive/ensembles, reads from both
  flow |-> [
    prod |-> <<"p0", "p1", "p1", "p1">>, con |-> <<"c", "c", "c2", "c1">>,
    freq |-> <<2, -1, 2, -1>>,
    script |-> [p0 |-> Times(3, <<Write>>), p1 |-> Times(3, <<Write>>),
                c |-> <<ReadNext>>, c1 |-> <<Read(4)>>, c2 |-> <<Read(3)>>]],
  \* the pipeline with the links made in the order of the data flow
  pipeline |-> [
    prod |-> <<"a", "b">>, con |-> <<"b", "c">>, freq |-> <<1, 1>>,
    script |-> [a |-> Times(2, <<Write>>), b |-> <<Read(1), Write>>,
                c |-> <<Read(2)>>]],
  \* the fan-in ensemble with a stateless consumer alone
  faninStateless |-> [
    prod |-> <<"p0", "p1">>, con |-> <<"c", "c">>, freq |-> <<1, 1>>,
    script |-> [p0 |-> Times(3, <<Write>>), p1 |-> Times(3, <<Write>>),
                c |-> <<ReadNext>>]],
  \* tests/wilkins_python_test_prod2cons_memory.yaml: one run per file
  prod2cons |-> [
    prod |-> <<"p", "p">>, con |-> <<"c0", "c1">>, freq |-> <<1, 1>>,
    script |-> [p |-> Times(2, <<Write>>), c0 |-> <<Read(1)>>,
                c1 |-> <<Read(2)>>]],
  \* flow control on the outgoing link of a task in the middle of a pipeline
  pipelineFlow |-> [
    prod |-> <<"a", "b">>, con |-> <<"b", "c">>, freq |-> <<1, 2>>,
    script |-> [a |-> Times(2, <<Write>>), b |-> Times(2, <<Read(1), Write>>),
                c |-> <<Read(2)>>]]]

W == Workflows[Workflow]

MCTasks  == DOMAIN W.script
MCLinks  == DOMAIN W.prod
MCIndex  == [t \in MCTasks |-> [l \in MCLinks |->
               Cardinality({k \in MCLinks : k < l /\ t \in {W.prod[k], W.con[k]}})]]
MCProd   == W.prod
MCCon    == W.con
MCPolicy == W.freq
MCScript == W.script
MCWlkConsumer ==
  [t \in MCTasks |-> SetToSortSeq({l \in MCLinks : W.con[l] = t}, <)]
MCServeIndices ==
  [t \in MCTasks |-> SetToSortSeq({l \in MCLinks : W.prod[l] = t}, <)]
=============================================================================
