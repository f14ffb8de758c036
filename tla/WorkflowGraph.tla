--------------------------- MODULE WorkflowGraph ---------------------------
(***************************************************************************)
(* From a YAML description to the graph of a workflow: make_wflow_from_yaml*)
(* and generateLinks (workflow.cpp).  Every instance of every task becomes *)
(* a node, and enters its number under a key for each dataset it reads or  *)
(* writes; then the keys, in the order of their strings, become links.     *)
(*                                                                         *)
(* A path, a file name and a dataset, is a number, its place in the order  *)
(* of the names "<file>/<dataset>".  Nodes are numbered from 0, as in the  *)
(* code.  What match reads past the end of a name, and what is found past  *)
(* the end of file_range, may be anything.                                 *)
(***************************************************************************)
EXTENDS Integers, Sequences, FiniteSets, SequencesExt, Lists, Glob

CONSTANTS
  Yamls,         \* the workflow descriptions considered
  Files, Dsets,  \* the file name and the dataset of every path
  Written,       \* to_string of the numbers that are put into file names
  Garbage,       \* the numbers that may be found past the end of file_range
  IoFreq,        \* what io_freq may be, with the number it stands for
  MaxInstances,  \* the length of file_range at first, 100
  Sentinel       \* stands for node 0 as a consumer, 999

Paths == DOMAIN Files
Numbers == DOMAIN Written

ASSUME PathAssumption ==
  /\ {".", "/", "-", "i", "n", "s", "t"} \subseteq STRING
  /\ Files \in Seq(Seq(STRING)) /\ Dsets \in Seq(Seq(STRING))
  /\ Len(Dsets) = Len(Files)
  /\ Numbers \subseteq Int /\ Garbage \subseteq Numbers
  /\ Written \in [Numbers -> Seq(STRING \ {"."})]

(* A description lists tasks, which run on some ranks.  The numbers of     *)
(* instances and of places in a range can be written.                      *)
Ports == [path : Paths, io_freq : STRING, range : Seq(Numbers),
          passthru : BOOLEAN, metadata : BOOLEAN]
Tasks == [func : STRING, nprocs : Nat \ {0}, taskCount : Nat,
          inports : Seq(Ports), outports : Seq(Ports)]

PortsOf(t) == t.inports \o t.outports

ASSUME YamlAssumption ==
  /\ MaxInstances \in Nat /\ Sentinel \in Nat \ {0}
  /\ 1 .. MaxInstances \subseteq Numbers
  /\ Yamls \subseteq Seq(Tasks)
  /\ \A y \in Yamls : \A i \in DOMAIN y : \A p \in ToSet(PortsOf(y[i])) :
       1 .. Len(p.range) \subseteq Numbers

VARIABLES
  yaml,            \* the description, never changed
  phase,           \* what make_wflow_from_yaml is doing
  task, index,     \* the task, and its instance, of the next node
  file_range,      \* the numbers of instances in file names
  nodes,           \* the nodes so far
  workflow_links,  \* the nodes entered under each key, producers negative
  key,             \* the keys below have become links
  links            \* the links so far

vars == <<yaml, phase, task, index, file_range, nodes, workflow_links, key,
          links>>

Init ==
  /\ yaml \in Yamls
  /\ phase = "nodes"
  /\ task = 1 /\ index = 0
  /\ file_range = [i \in 1 .. MaxInstances |-> 0]
  /\ nodes = <<>>
  /\ workflow_links = [k \in Paths |-> <<>>]
  /\ key = 0
  /\ links = <<>>

(* The numbers of nodes, and the first rank of the next one.               *)
NodeIds == 0 .. Len(nodes) - 1
Node(n) == nodes[n + 1]

NextRank ==
  IF nodes = <<>> THEN 0 ELSE Last(nodes).start_proc + Last(nodes).nprocs

-----------------------------------------------------------------------------
(* Names.                                                                  *)
Slash == <<"/">>
Dot == <<".">>
Inst == <<"-", "i", "n", "s", "t">>

Dotted(name) == Found(name, Dot) # {}

Name(p) == Files[p] \o Slash \o Dsets[p]

(* Its name in an instance; a file name must have a dot for this.          *)
InstFile(p, n) == PreDlm(Files[p], Dot) \o Inst \o Written[n] \o PostDlm(Files[p], Dot)

InstName(p, n) == InstFile(p, n) \o Slash \o Dsets[p]

(* What generateLinks makes of a name again.                               *)
Core(name) == IF Found(name, Inst) = {} THEN name
              ELSE PreDlm(name, Inst) \o PostDlm(name, Dot)

(* A choice of one element from each of some sets; and, of the results     *)
(* that some calls may have, the calls that return true.                   *)
OneOfEach(sets) ==
  {f \in [DOMAIN sets -> UNION {sets[x] : x \in DOMAIN sets}] :
     \A x \in DOMAIN sets : f[x] \in sets[x]}

Hits(results) ==
  {H \in SUBSET DOMAIN results : \A x \in DOMAIN results :
     IF x \in H THEN TRUE \in results[x] ELSE FALSE \in results[x]}

(* match of two names of paths.                                            *)
Results == [kp \in Paths \X Paths |-> match(Name(kp[1]), Name(kp[2]))]

-----------------------------------------------------------------------------
(* The nodes.                                                              *)

(* The key a path is entered under: the first one that matches it, or else *)
(* the path itself.  The mutant only looks for the path itself.            *)
KeyHits(path) == Hits([k \in Paths |-> Results[<<k, path>>]])

KeyForExact(table, path, hits) == path

KeyFor(table, path, hits) ==
  LET matching == {k \in hits : table[k] # <<>>}
  IN IF matching = {} THEN path ELSE CHOOSE k \in matching : \A j \in matching : k <= j

(* What comes up when ports are entered: the keys that match them, and the  *)
(* number past the end of file_range.                                      *)
Meets(ports) ==
  OneOfEach([i \in DOMAIN ports |->
    [port : {ports[i]}, hits : KeyHits(ports[i].path), past : Garbage]])

(* One port of the node, entered with value v.  A range, once given, is    *)
(* that of the following ports, too.  A node that is the only instance of  *)
(* its task has no number in its file names.                               *)
AddPort(acc, met, v) ==
  LET port   == met.port
      k      == KeyFor(acc.table, port.path, met.hits)
      range  == IF port.range = <<>> THEN acc.range ELSE port.range
      number == IF index < Len(range) THEN range[index + 1] ELSE met.past
  IN [table |-> [acc.table EXCEPT ![k] = Append(@, v)],
      range |-> range,
      ports |-> Append(acc.ports,
        [path |-> port.path,
         name |-> IF yaml[task].taskCount > 1 THEN InstName(port.path, number)
                                              ELSE Name(port.path),
         io_freq |-> port.io_freq,
         passthru |-> port.passthru, metadata |-> port.metadata])]

AddPorts(table, range, mets, v) ==
  LET after[i \in 0 .. Len(mets)] ==
        IF i = 0 THEN [table |-> table, range |-> range, ports |-> <<>>]
                 ELSE AddPort(after[i - 1], mets[i], v)
  IN after[Len(mets)]

(* The name of a node: that of the task and, if it is one of several, the   *)
(* instance (from 1 here).  The mutant leaves the instance out.            *)
FuncOfTask(t, i) == <<yaml[t].func, 0>>

Func(t, i) == <<yaml[t].func, IF yaml[t].taskCount > 1 THEN i + 1 ELSE 0>>

(* file_range is filled for every task, not for every instance, and keeps  *)
(* the length it has.  The mutant only fills it for the first task.        *)
RangeKept(i) ==
  IF task = 1 /\ i = 0 THEN [j \in DOMAIN file_range |-> j] ELSE file_range

RangeAt(i) == IF i = 0 THEN [j \in DOMAIN file_range |-> j] ELSE file_range

(* exit(1): no instances, a port with neither metadata nor passthru, or an  *)
(* inport with an io_freq that is neither a number nor "latest".            *)
Wrong(t) ==
  \/ t.taskCount < 1
  \/ \E p \in ToSet(PortsOf(t)) : ~p.metadata /\ ~p.passthru
  \/ \E p \in ToSet(t.inports) : p.io_freq \notin DOMAIN IoFreq

(* substr throws: there is no place in a file name for the instance.       *)
Dotless(t) ==
  t.taskCount > 1 /\ \E p \in ToSet(PortsOf(t)) : ~Dotted(Files[p.path])

(* The value a consumer is entered with; producers are negative.  0 is node *)
(* 0 as a producer.  The mutants number a node from 1, or forget node 0.    *)
AsConsumerFromOne(n) == n + 1

AsConsumerPlain(n) == n

AsConsumer(n) == IF n = 0 THEN Sentinel ELSE n

AddNode ==
  /\ phase = "nodes" /\ task <= Len(yaml)
  /\ ~Wrong(yaml[task]) /\ ~Dotless(yaml[task])
  /\ \E mins \in Meets(yaml[task].inports), mouts \in Meets(yaml[task].outports) :
       LET t    == yaml[task]
           n    == Len(nodes)
           ins  == AddPorts(workflow_links, RangeAt(index), mins, AsConsumer(n))
           outs == AddPorts(ins.table, ins.range, mouts, -n)
       IN /\ nodes' = Append(nodes,
               [func |-> Func(task, index), start_proc |-> NextRank,
                nprocs |-> t.nprocs, l5_inports |-> ins.ports,
                l5_outports |-> outs.ports, passthru_files |-> {}])
          /\ workflow_links' = outs.table
          /\ file_range' = outs.range
          /\ IF index + 1 < t.taskCount
             THEN index' = index + 1 /\ UNCHANGED task
             ELSE index' = 0 /\ task' = task + 1
  /\ UNCHANGED <<yaml, phase, key, links>>

RejectTask ==
  /\ phase = "nodes" /\ task <= Len(yaml)
  /\ Wrong(yaml[task]) \/ Dotless(yaml[task])
  /\ phase' = "exit"
  /\ UNCHANGED <<yaml, task, index, file_range, nodes, workflow_links, key,
                 links>>

AllNodes ==
  /\ phase = "nodes" /\ task > Len(yaml)
  /\ phase' = "links"
  /\ UNCHANGED <<yaml, task, index, file_range, nodes, workflow_links, key,
                 links>>

-----------------------------------------------------------------------------
(* The links.                                                              *)
Keys == {k \in Paths : workflow_links[k] # <<>>}

Consumers(k) ==
  LET cons == Taken(workflow_links[k], Nat \ {0}, {})
  IN [i \in DOMAIN cons |-> IF cons[i] = Sentinel THEN 0 ELSE cons[i]]

Producers(k) ==
  LET prods == Taken(workflow_links[k], {v \in Int : v <= 0}, {})
  IN [i \in DOMAIN prods |-> -prods[i]]

(* The next key.                                                           *)
At(k) == /\ phase = "links" /\ k \in Keys /\ k > key
         /\ \A j \in Keys : j > key => j >= k

(* A key without producers or without consumers: files on disk.  The ports *)
(* are looked up by the name they have in this instance.                   *)
OnDisk(k, ports) == Hits([p \in ToSet(ports) |-> match(Name(k), p.name)])

Unlinked(k) ==
  OneOfEach(IF Producers(k) = <<>>
          THEN [n \in ToSet(Consumers(k)) |-> OnDisk(k, Node(n).l5_inports)]
          ELSE [n \in ToSet(Producers(k)) |-> OnDisk(k, Node(n).l5_outports)])

AddPassthruFiles(k) ==
  /\ At(k) /\ (Producers(k) = <<>> \/ Consumers(k) = <<>>)
  /\ \E files \in Unlinked(k) :
       /\ \A n \in DOMAIN files : \A p \in files[n] : ~p.metadata
       /\ nodes' = [i \in DOMAIN nodes |->
            IF i - 1 \in DOMAIN files
            THEN [nodes[i] EXCEPT !.passthru_files = @ \cup
                    {p.name : p \in files[i - 1]}]
            ELSE nodes[i]]
  /\ key' = k
  /\ UNCHANGED <<yaml, phase, task, index, file_range, workflow_links, links>>

(* exit(1): memory mode for a port nobody is at the other end of.          *)
RejectUnlinked(k) ==
  /\ At(k) /\ (Producers(k) = <<>> \/ Consumers(k) = <<>>)
  /\ \E files \in Unlinked(k) : \E n \in DOMAIN files : \E p \in files[n] : p.metadata
  /\ phase' = "exit"
  /\ UNCHANGED <<yaml, task, index, file_range, nodes, workflow_links, key,
                 links>>

(* The ports of a list that a key matches, by the names that Core makes;   *)
(* and the port of a link, the last one of them.  The mutant takes the     *)
(* last one of all.  Without one the link is in memory mode and its        *)
(* flow_policy not initialised, for which Unset stands.                    *)
Matching(k, ports) == Hits([i \in DOMAIN ports |-> match(Name(k), Core(ports[i].name))])

NoPort == [io_freq |-> "", passthru |-> FALSE, metadata |-> TRUE]

PortOfAny(ports, under) == IF ports = <<>> THEN NoPort ELSE Last(ports)

PortOf(ports, under) == IF under = {} THEN NoPort ELSE ports[Max(under)]

Unset == 0

(* The flags of a link, with the two conflicts the code resolves.  The      *)
(* mutant resolves none of them.                                           *)

ModeAsIs(in, out) == [passthru |-> in.passthru, metadata |-> in.metadata]

Mode(in, out) ==
  LET p == in.passthru /\ out.passthru
      m == in.metadata \/ (in.passthru /\ ~out.passthru)
  IN IF m /\ ~out.metadata THEN [passthru |-> TRUE, metadata |-> FALSE]
                           ELSE [passthru |-> p, metadata |-> m]

Link(k, ends, hits) ==
  LET in  == PortOf(Node(ends.con).l5_inports, hits.ins)
      out == PortOf(Node(ends.prod).l5_outports, hits.outs)
  IN [prod |-> ends.prod, con |-> ends.con, key |-> k,
      execGroup |-> <<Node(ends.prod).func, Node(ends.con).func>>,
      flow_policy |-> IF in = NoPort THEN Unset ELSE IoFreq[in.io_freq],
      in |-> Mode(in, out),
      out |-> [passthru |-> out.passthru, metadata |-> out.metadata]]

(* The place in the shorter list of the other end of link i: i / quot.     *)
(* The mutant takes one more of the longer list to a place.                *)
PartnerLate(i, longer, shorter) == i \div (longer \div shorter + 1) + 1

Partner(i, longer, shorter) == i \div (longer \div shorter) + 1

ByCon(k) == Len(Producers(k)) <= Len(Consumers(k))
LongerList(k) == IF ByCon(k) THEN Consumers(k) ELSE Producers(k)
ShorterList(k) == IF ByCon(k) THEN Producers(k) ELSE Consumers(k)
PlaceOf(k, i) == Partner(i - 1, Len(LongerList(k)), Len(ShorterList(k)))

(* The two nodes of link i.  A place past the end of the shorter list is    *)
(* an element past the end of a vector: some node, or nodes.at throws.     *)
Past(k) == {i \in DOMAIN LongerList(k) : PlaceOf(k, i) > Len(ShorterList(k))}

Ends(k, i, junk) ==
  LET this  == LongerList(k)[i]
      other == IF i \in Past(k) THEN junk[i] ELSE ShorterList(k)[PlaceOf(k, i)]
  IN IF ByCon(k) THEN [prod |-> other, con |-> this] ELSE [prod |-> this, con |-> other]

(* The ports of the two that the key matches.  substr throws if one of     *)
(* their ports has no dot in its name.                                     *)
PortHits(k, ends) == [outs : Matching(k, Node(ends.prod).l5_outports),
                      ins  : Matching(k, Node(ends.con).l5_inports)]

Cuttable(ends) ==
  \A p \in ToSet(Node(ends.prod).l5_outports) \cup ToSet(Node(ends.con).l5_inports) :
    Dotted(p.name)

GenerateLinks(k) ==
  /\ At(k) /\ Producers(k) # <<>> /\ Consumers(k) # <<>>
  /\ \E junk \in [Past(k) -> NodeIds] :
       LET ends == [i \in DOMAIN LongerList(k) |-> Ends(k, i, junk)]
           cut  == \A i \in DOMAIN ends : Cuttable(ends[i])
       IN \/ /\ cut
             /\ \E hits \in OneOfEach([i \in DOMAIN ends |-> PortHits(k, ends[i])]) :
                  links' = links \o [i \in DOMAIN ends |-> Link(k, ends[i], hits[i])]
             /\ UNCHANGED phase
          \/ /\ ~cut \/ Past(k) # {}
             /\ phase' = "exit"
             /\ UNCHANGED links
  /\ key' = k
  /\ UNCHANGED <<yaml, task, index, file_range, nodes, workflow_links>>

AllLinks ==
  /\ phase = "links" /\ \A k \in Keys : k <= key
  /\ phase' = "done"
  /\ UNCHANGED <<yaml, task, index, file_range, nodes, workflow_links, key,
                 links>>

-----------------------------------------------------------------------------
Next == \/ AddNode \/ RejectTask \/ AllNodes \/ AllLinks
        \/ \E k \in Paths : \/ AddPassthruFiles(k) \/ RejectUnlinked(k)
                            \/ GenerateLinks(k)

Spec == Init /\ [][Next]_vars

-----------------------------------------------------------------------------
(* What the graph must be, in terms of the description and of what the     *)
(* wildcards in it mean, whatever match makes of them.                     *)
Covers == {kp \in Paths \X Paths : Meant(Name(kp[1]), Name(kp[2]))}

(* The type of every variable; a value under a key is a node there is.     *)
TypeOK ==
  /\ yaml \in Yamls /\ phase \in {"nodes", "links", "done", "exit"}
  /\ task \in 1 .. Len(yaml) + 1 /\ index \in Nat
  /\ index = 0 \/ (task <= Len(yaml) /\ index < yaml[task].taskCount)
  /\ \A k \in Paths : \A v \in ToSet(workflow_links[k]) :
       -v \in NodeIds \/ v \in NodeIds \/ v = Sentinel
  /\ \A i \in DOMAIN links : links[i].prod \in NodeIds /\ links[i].con \in NodeIds
  /\ key \in Paths \cup {0}

Coupled(p, q) == <<p.path, q.path>> \in Covers \/ <<q.path, p.path>> \in Covers

(* Where the ports are in the description, and which is read before which.  *)
(* It is unambiguous which key a path goes to if wildcards are listed before *)
(* the names they match, a wildcard matches one name, a name is matched by *)
(* one wildcard, and a wildcard by none.                                   *)
Places == UNION {{i} \X DOMAIN PortsOf(yaml[i]) : i \in DOMAIN yaml}

PathAt(a) == PortsOf(yaml[a[1]])[a[2]].path

Before(a, b) == a[1] < b[1] \/ (a[1] = b[1] /\ a[2] < b[2])

Other(a, b) == <<PathAt(a), PathAt(b)>> \in Covers /\ PathAt(a) # PathAt(b)

Unambiguous ==
  \A a, b \in Places : Other(a, b) =>
    /\ Before(a, b)
    /\ \A c \in Places : /\ Other(a, c) => PathAt(c) = PathAt(b)
                         /\ Other(c, b) => PathAt(c) = PathAt(a)
                         /\ ~Other(b, c)

(* It is legible if match decides what its names mean: no ? meets the end  *)
(* of another name (workflow.cpp:80), no name ends with two *, and no * is  *)
(* in a name that another one stands for.                                  *)
Decided(k, p) ==
  /\ Results[<<k, p>>] # BOOLEAN /\ ~EndsWithStars(Name(k))
  /\ k # p /\ <<k, p>> \in Covers => \A i \in DOMAIN Name(p) : Name(p)[i] # "*"

Legible == \A a, b \in Places : Decided(PathAt(a), PathAt(b))

(* No number of an instance makes a name fit another one.                  *)
NumbersFitNothing ==
  \A a, b \in Places : \A n \in Numbers :
    (/\ Dotted(Files[PathAt(b)])
     /\ TRUE \in match(Name(PathAt(a)), InstName(PathAt(b), n))) =>
      <<PathAt(a), PathAt(b)>> \in Covers

Longer(k) == IF Len(Producers(k)) <= Len(Consumers(k)) THEN Len(Consumers(k)) ELSE Len(Producers(k))
Shorter(k) == IF Len(Producers(k)) <= Len(Consumers(k)) THEN Len(Producers(k)) ELSE Len(Consumers(k))

Even(k) == Shorter(k) = 0 \/ Longer(k) % Shorter(k) = 0

(* make_wflow_from_yaml, generateLinks: in a finished graph every port that *)
(* some port of the other direction matches has a link, every other port of *)
(* a single task is in file mode and known as a file on disk, and a link    *)
(* only joins ports that match.  Task order and wildcards make no          *)
(* difference, as long as the description is unambiguous and legible.  With *)
(* more nodes than Sentinel, node Sentinel would be taken for node 0.      *)
LinksMatchPorts ==
  (/\ phase = "done" /\ Len(nodes) <= Sentinel
   /\ Unambiguous /\ Legible /\ (\A k \in Keys : Even(k))) =>
    LET Ins(n)  == ToSet(Node(n).l5_inports)
        Outs(n) == ToSet(Node(n).l5_outports)
        LinkOf(p, l) == <<l.key, p.path>> \in Covers
        Single(p) == p.name = Name(p.path)
        OnlyFile(n, p) == ~p.metadata /\ p.name \in Node(n).passthru_files
    IN /\ \A n \in NodeIds : \A p \in Ins(n) :
            IF \E m \in NodeIds : \E q \in Outs(m) : Coupled(p, q)
            THEN \E l \in ToSet(links) : l.con = n /\ LinkOf(p, l)
            ELSE Single(p) => OnlyFile(n, p)
       /\ \A n \in NodeIds : \A q \in Outs(n) :
            IF \E m \in NodeIds : \E p \in Ins(m) : Coupled(p, q)
            THEN \E l \in ToSet(links) : l.prod = n /\ LinkOf(q, l)
            ELSE Single(q) => OnlyFile(n, q)
       /\ \A l \in ToSet(links) :
            \E p \in Ins(l.con), q \in Outs(l.prod) : Coupled(p, q)

(* make_wflow_from_yaml only gives up on a legible, unambiguous description *)
(* for one of these errors: a task without instances, a port with neither   *)
(* mode or an unknown io_freq, and a port in memory mode that no port of    *)
(* the other direction matches; or for what is no error: a name without a   *)
(* dot, where substr throws an exception nobody catches (workflow.cpp:119,  *)
(* 147, 299, 375).                                                          *)
OnlyRealErrors ==
  (/\ phase = "exit" /\ Unambiguous /\ Legible /\ NumbersFitNothing
   /\ (\A k \in Keys : Even(k))) =>
    LET AllOf(f) == UNION {ToSet(yaml[i][f]) : i \in DOMAIN yaml}
        Alone(f, g) == \E p \in AllOf(f) :
                         p.metadata /\ \A q \in AllOf(g) : ~Coupled(p, q)
        Undotted(t) == \E p \in ToSet(PortsOf(t)) :
                         ~Dotted(IF t.taskCount > 1 THEN Files[p.path] ELSE Name(p.path))
    IN \/ \E i \in DOMAIN yaml : Wrong(yaml[i]) \/ Undotted(yaml[i])
       \/ Alone("inports", "outports") \/ Alone("outports", "inports")

(* generateLinks shares the longer list out evenly: every entry of the      *)
(* shorter one has longer/shorter links, every entry of the longer one has  *)
(* one.  A node may have several entries under a key.                       *)
Balanced ==
  phase = "done" => \A k \in Keys : Even(k) /\ Shorter(k) > 0 =>
    LET Entries(list, n) == Cardinality({i \in DOMAIN list : list[i] = n})
        Under(end, n) ==
          Cardinality({i \in DOMAIN links : links[i].key = k /\ links[i][end] = n})
        Fair(end, list) == \A n \in ToSet(list) :
          Under(end, n) * Len(list) = Entries(list, n) * Longer(k)
    IN Fair("prod", Producers(k)) /\ Fair("con", Consumers(k))

(* What build_intercomms relies on, if every task has a func of its own: an *)
(* execution group, a string, stands for one producer and one consumer, and *)
(* nodes do not share ranks.                                               *)
EndsApart ==
  (\A i, j \in DOMAIN yaml : yaml[i].func = yaml[j].func => i = j) =>
    /\ \A i, j \in DOMAIN links : links[i].execGroup = links[j].execGroup =>
         links[i].prod = links[j].prod /\ links[i].con = links[j].con
    /\ \A m, n \in NodeIds : m < n =>
         Node(m).start_proc + Node(m).nprocs <= Node(n).start_proc

(* The consumer of a link never expects a mode its producer does not        *)
(* provide, whatever the two ports ask for, and has one at least.           *)
ModesAgree ==
  \A i \in DOMAIN links : LET in == links[i].in  out == links[i].out IN
    /\ in.passthru \/ in.metadata
    /\ in.passthru => out.passthru
    /\ in.metadata => out.metadata

(* A task without ranges numbers the files of its instances from 1, also    *)
(* after a task with ranges, as long as it has no more instances than       *)
(* file_range had places at first, or a range before it has: file_range is  *)
(* filled again for every task, but keeps the length of the last range     *)
(* (workflow.cpp:237, 290, 369).                                           *)
NoRanges(i) == \A p \in ToSet(PortsOf(yaml[i])) : p.range = <<>>

Enough(i) ==
  /\ yaml[i].taskCount <= MaxInstances
  /\ \A h \in 1 .. i - 1 : \A p \in ToSet(PortsOf(yaml[h])) :
       p.range # <<>> => yaml[i].taskCount <= Len(p.range)

DefaultNumbers ==
  phase = "done" =>
    \A i \in DOMAIN yaml : NoRanges(i) /\ Enough(i) /\ yaml[i].taskCount > 1 =>
      \A n \in NodeIds : Node(n).func[1] = yaml[i].func =>
        \A p \in ToSet(Node(n).l5_inports \o Node(n).l5_outports) :
          p.name = InstName(p.path, Node(n).func[2])

(* A link has the io_freq of the ports it brings data to, if they agree,    *)
(* also if its consumer has other ports with others (flow_policy,          *)
(* workflow.cpp:167): unless one of these names contains "-inst", after    *)
(* which generateLinks cuts names, or match cannot decide whether the key  *)
(* stands for it.                                                          *)
FrequencyMeant ==
  phase = "done" =>
    \A l \in ToSet(links) :
      LET ins  == ToSet(Node(l.con).l5_inports)
          mine == {p \in ins : <<l.key, p.path>> \in Covers}
      IN (\A p \in ins : /\ Found(Name(p.path), Inst) = {}
                         /\ Decided(l.key, p.path)) =>
         \A p \in mine : (\A q \in mine : q.io_freq = p.io_freq) =>
           l.flow_policy = IoFreq[p.io_freq]

(* make_wflow_from_yaml, generateLinks: in every description, ambiguous or *)
(* not, the two nodes of a link have a port that its key covers, character *)
(* by character, unless a ? of the key meets the end of a name there.      *)
LinkedByMeaning ==
  phase = "done" /\ Len(nodes) <= Sentinel =>
    \A l \in ToSet(links) :
      (Even(l.key) /\ \A a \in Places : Results[<<l.key, PathAt(a)>>] # BOOLEAN) =>
        /\ \E p \in ToSet(Node(l.con).l5_inports) : <<l.key, p.path>> \in Covers
        /\ \E p \in ToSet(Node(l.prod).l5_outports) : <<l.key, p.path>> \in Covers
=============================================================================
