-------------------------- MODULE MCWorkflowGraph --------------------------
(***************************************************************************)
(* Small workflow descriptions for WorkflowGraph: the shapes of tests/ and *)
(* examples/, with the numbers of instances, the order of the tasks, the   *)
(* names and the modes varied.                                             *)
(***************************************************************************)
EXTENDS WorkflowGraph

(* "*.h/g", "b.h/g", "g/g", "o.*/g", "o.h/g", "o.h/g?", "o.h/gp" and         *)
(* "s-inst.h/g", in the order of strings.                                  *)
Star  == 1
B     == 2
Bare  == 3
OAny  == 4
Grid  == 5
Query == 6
Part  == 7
Sim   == 8

MCFiles == <<<<"*", ".", "h">>, <<"b", ".", "h">>, <<"g">>, <<"o", ".", "*">>,
             <<"o", ".", "h">>, <<"o", ".", "h">>, <<"o", ".", "h">>,
             <<"s", "-", "i", "n", "s", "t", ".", "h">>>>

MCDsets == <<<<"g">>, <<"g">>, <<"g">>, <<"g">>,
             <<"g">>, <<"g", "?">>, <<"g", "p">>, <<"g">>>>

MCWritten == 1 :> <<"1">> @@ 2 :> <<"2">> @@ 3 :> <<"3">> @@ 4 :> <<"4">>
             @@ 7 :> <<"7">> @@ 10 :> <<"1", "0">> @@ 20 :> <<"2", "0">>

Memory == [passthru |-> FALSE, metadata |-> TRUE]
File   == [passthru |-> TRUE,  metadata |-> FALSE]
Both   == [passthru |-> TRUE,  metadata |-> TRUE]
None   == [passthru |-> FALSE, metadata |-> FALSE]

MCIoFreq == "1" :> 1 @@ "2" :> 2 @@ "latest" :> -1

Port(path, mode) ==
  [path |-> path, range |-> <<>>, io_freq |-> "1",
   passthru |-> mode.passthru, metadata |-> mode.metadata]
RangedPort(path, mode, range) == [Port(path, mode) EXCEPT !.range = range]
Every(path, freq) == [Port(path, Memory) EXCEPT !.io_freq = freq]

Task(func, count, ins, outs) ==
  [func |-> func, taskCount |-> count, nprocs |-> 2,
   inports |-> ins, outports |-> outs]

(* One producer and one consumer, either of them first.                    *)
Pair(a, b, p, q, out, in) ==
  LET prod == Task("prod", a, <<>>, <<Port(p, out)>>)
      con  == Task("con", b, <<Port(q, in)>>, <<>>)
  IN {<<prod, con>>, <<con, prod>>}

Counts == UNION {Pair(a, b, Grid, Grid, m, m) :
                   a \in {1, 2, 3, 4}, b \in {1, 2, 4}, m \in {Memory, File}}
Names  == UNION {Pair(a, b, p, q, m, m) :
                   a \in {1, 2}, b \in {1, 2}, p \in {Star, B}, q \in {Star, B, Grid},
                   m \in {Memory, File}}
Modes  == UNION {Pair(1, 1, Grid, Grid, out, in) :
                   out \in {Memory, File, Both, None}, in \in {Memory, File, Both}}

Shapes == {
  \* a producer and a consumer of each of its datasets; a cycle
  <<Task("prod", 1, <<>>, <<Port(Grid, Memory), Port(Part, Memory)>>),
    Task("con1", 1, <<Port(Grid, Memory)>>, <<>>),
    Task("con2", 1, <<Port(Part, Memory)>>, <<>>)>>,
  <<Task("node0", 1, <<Port(B, Memory)>>, <<Port(Grid, Memory), Port(Part, Memory)>>),
    Task("node1", 1, <<Port(Grid, Memory), Port(Part, Memory)>>, <<Port(Star, Memory)>>)>>,
  <<Task("node0", 1, <<Port(B, File)>>, <<Port(Grid, File)>>),
    Task("node1", 1, <<Port(Grid, File)>>, <<Port(Part, File)>>),
    Task("node2", 1, <<Port(Part, File)>>, <<Port(B, File)>>)>>,
  \* a frequency for each dataset, and one there is not
  <<Task("prod", 2, <<>>, <<Port(Grid, Memory), Port(Part, Memory)>>),
    Task("con", 2, <<Every(Grid, "latest"), Every(Part, "2")>>, <<>>)>>,
  \* a consumer with two ports under one key, of one or two frequencies
  <<Task("con", 1, <<Every(Star, "2"), Every(Grid, "2")>>, <<>>),
    Task("prod", 2, <<>>, <<Port(Grid, Memory)>>)>>,
  <<Task("con", 1, <<Every(Star, "1"), Every(Grid, "2")>>, <<>>),
    Task("prod", 2, <<>>, <<Port(Grid, Memory)>>)>>,
  \* two wildcards for the file of a producer
  <<Task("con1", 1, <<Port(Star, File)>>, <<>>),
    Task("con2", 1, <<Port(OAny, File)>>, <<>>),
    Task("prod", 1, <<>>, <<Port(Grid, File)>>)>>,
  <<Task("prod", 1, <<>>, <<Port(Grid, Memory)>>),
    Task("con", 1, <<Every(Grid, "often")>>, <<>>)>>,
  \* numbers of its own for a producer
  <<Task("prod", 2, <<>>, <<RangedPort(Grid, Memory, <<10, 20>>)>>),
    Task("con", 2, <<Port(Grid, Memory)>>, <<>>)>>,
  \* and fewer than a task after it has instances, or file_range has
  <<Task("prod", 2, <<>>, <<RangedPort(Grid, Memory, <<10, 20>>)>>),
    Task("con", 3, <<Port(Grid, Memory)>>, <<>>)>>,
  <<Task("con", 5, <<Port(B, File)>>, <<>>)>>,
  \* a ? that meets the end of a name, and one that does not
  <<Task("con", 1, <<Port(Query, Memory)>>, <<>>),
    Task("prod", 2, <<>>, <<Port(Grid, Memory)>>)>>,
  <<Task("con", 1, <<Every(Query, "2")>>, <<>>),
    Task("prod", 2, <<>>, <<Port(Part, Memory)>>)>>,
  \* "-inst" in a name of the user
  <<Task("prod", 1, <<>>, <<Port(Sim, Memory)>>),
    Task("con", 2, <<Every(Sim, "2")>>, <<>>)>>,
  \* input from and output to disk beside a link; no instances
  <<Task("prod", 1, <<Port(B, File)>>, <<Port(Grid, Memory)>>),
    Task("con", 2, <<Port(Grid, Memory)>>, <<Port(Part, File)>>)>>,
  <<Task("prod", 1, <<Port(B, Memory)>>, <<Port(Grid, Memory)>>),
    Task("con", 1, <<Port(Grid, Memory)>>, <<>>)>>,
  <<Task("prod", 0, <<>>, <<Port(Grid, Memory)>>)>>}

(* Names without a dot.                                                    *)
Bares == UNION {Pair(a, 1, Bare, Bare, File, File) : a \in {1, 2}}

MCYamls == Bares \cup Counts \cup Names \cup Modes \cup Shapes
=============================================================================
