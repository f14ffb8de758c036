------------------------- MODULE WorkflowGraph_proofs -------------------------
(***************************************************************************)
(* Theorems about make_wflow_from_yaml and generateLinks, for any          *)
(* description.  Whatever the wildcards of its paths: every link joins two *)
(* nodes there are, a consumer expects no mode its producer does not       *)
(* provide, execution groups and ranks are apart, instances are numbered   *)
(* from 1 while file_range has places for them, and the links of a key are *)
(* shared out evenly.  Where no ? meets the end of a name: the two nodes of *)
(* a link have ports that its key covers, a link has the io_freq meant for *)
(* it, and, in unambiguous descriptions, ports are linked as the           *)
(* description means, and it is only given up for what is wrong in it or   *)
(* for a name without a dot.                                               *)
(*                                                                         *)
(* GInv is what holds of the state whatever match does.  CopiesRight,      *)
(* HomesRight and LinksRight say in turn that the nodes have the ports of  *)
(* their tasks, that ports are entered under their homes, and which links  *)
(* the keys gone through have; EntriesMatch, that the entries of a key     *)
(* have a port that may match it.                                          *)
(***************************************************************************)
EXTENDS WorkflowGraph, Induction_proofs, FiniteSetTheorems, FunctionTheorems

(* Where a task is in the description.                                     *)
Instances(i) == 0 .. yaml[i].taskCount - 1

(* The names that ports have in nodes.                                     *)
AllNames == {Name(p) : p \in Paths} \cup {InstName(p, n) : p \in Paths, n \in Numbers}

(* The name of a port of instance j of task i: with some number, if there  *)
(* are several instances, and with its own, if the task has no range and   *)
(* file_range has places enough.                                           *)
NamedFor(i, j, p) ==
  /\ yaml[i].taskCount > 1 =>
       /\ Dotted(Files[p.path])
       /\ \E n \in Numbers : p.name = InstName(p.path, n)
       /\ NoRanges(i) /\ Enough(i) => p.name = InstName(p.path, Func(i, j)[2])
  /\ ~(yaml[i].taskCount > 1) => p.name = Name(p.path)

NamedPorts == [path : Paths, name : AllNames, io_freq : STRING,
               passthru : BOOLEAN, metadata : BOOLEAN]

NodePorts(i, j) ==
  {p \in NamedPorts : (p.passthru \/ p.metadata) /\ NamedFor(i, j, p)}

(* The node of instance j of task i.                                       *)
NodeOf(i, j, node) ==
  /\ node.func = Func(i, j)
  /\ node.l5_inports \in Seq(NodePorts(i, j))
  /\ node.l5_outports \in Seq(NodePorts(i, j))

Nodes == [func : STRING \X Nat, start_proc : Nat, nprocs : Nat,
          l5_inports : Seq(NamedPorts), l5_outports : Seq(NamedPorts),
          passthru_files : SUBSET AllNames]

(* The nodes come from the instances before the one at hand.               *)
NodesRight ==
  /\ nodes \in Seq(Nodes)
  /\ \A n \in DOMAIN nodes : \E i \in DOMAIN yaml : \E j \in Instances(i) :
       /\ i < task \/ (i = task /\ j < index)
       /\ NodeOf(i, j, nodes[n])
  /\ \A m, n \in DOMAIN nodes : m < n =>
       nodes[m].start_proc + nodes[m].nprocs <= nodes[n].start_proc

(* The names of nodes are different if those of the tasks are.             *)
FuncsApart == \A i, j \in DOMAIN yaml : yaml[i].func = yaml[j].func => i = j

NamesDiffer ==
  FuncsApart => \A m, n \in DOMAIN nodes : nodes[m].func = nodes[n].func => m = n

Entered(v) == -v \in NodeIds \/ v \in NodeIds \/ (v = Sentinel /\ nodes # <<>>)

TableRight ==
  /\ workflow_links \in [Paths -> Seq(Int)]
  /\ \A k \in Paths : \A v \in ToSet(workflow_links[k]) : Entered(v)

(* The flow_policy of a link to a node with these inports, of which the    *)
(* key matches some.                                                       *)
PolicyOf(ports, under) ==
  IF PortOf(ports, under) = NoPort THEN Unset ELSE IoFreq[PortOf(ports, under).io_freq]

LinkRight(l) ==
  /\ l.prod \in NodeIds /\ l.con \in NodeIds /\ l.key \in Paths
  /\ \E under \in Matching(l.key, Node(l.con).l5_inports) :
       l.flow_policy = PolicyOf(Node(l.con).l5_inports, under)
  /\ l.execGroup = <<Node(l.prod).func, Node(l.con).func>>
  /\ l.in.passthru \/ l.in.metadata
  /\ l.in.passthru => l.out.passthru
  /\ l.in.metadata => l.out.metadata

(* A file_range with places for every task to come that should find        *)
(* enough, and for the task i at hand if it has no range.                  *)
Fits(r, first) ==
  \A i \in DOMAIN yaml : Enough(i) /\ i >= first => yaml[i].taskCount <= Len(r)

Default(r) == \A j \in DOMAIN r : r[j] = j

(* What file_range is after a port of the task at hand.                    *)
Ranges ==
  {r \in Seq(Numbers) : /\ 1 .. Len(r) \subseteq Numbers
                        /\ Fits(r, task + 1)
                        /\ NoRanges(task) => Default(r) /\ Fits(r, task)}

PlaceRight ==
  /\ yaml \in Yamls /\ phase \in {"nodes", "links", "done", "exit"}
  /\ task \in 1 .. Len(yaml) + 1 /\ index \in Nat
  /\ index # 0 => task <= Len(yaml) /\ index < yaml[task].taskCount
  /\ file_range \in Seq(Int) /\ 1 .. Len(file_range) \subseteq Numbers
  /\ index = 0 => Fits(file_range, task)
  /\ index # 0 => file_range \in Ranges
  /\ key \in Paths \cup {0}

IsList(s) == s \in Seq(ToSet(s))

(* The inductive invariant.                                                *)
GInv == /\ PlaceRight /\ NodesRight /\ NamesDiffer /\ TableRight
        /\ IsList(links)
        /\ \A i \in DOMAIN links : LinkRight(links[i])

-----------------------------------------------------------------------------
(* The elements of a list and of two lists one after the other.            *)
LEMMA ConcatElements ==
  ASSUME NEW S, NEW s \in Seq(S), NEW u \in Seq(S)
  PROVE  ToSet(s \o u) = ToSet(s) \cup ToSet(u)
<1>1. /\ DOMAIN s = 1 .. Len(s) /\ DOMAIN u = 1 .. Len(u)
      /\ DOMAIN (s \o u) = 1 .. Len(s) + Len(u)
      /\ Len(s) \in Nat /\ Len(u) \in Nat
      /\ \A i \in 1 .. Len(s) + Len(u) :
            (s \o u)[i] = IF i <= Len(s) THEN s[i] ELSE u[i - Len(s)]
  BY ConcatProperties, LenProperties
<1>2. ASSUME NEW i \in 1 .. Len(s) + Len(u)
      PROVE  (s \o u)[i] \in ToSet(s) \cup ToSet(u)
  <2>1. CASE i <= Len(s)
    BY <1>1, <2>1 DEF ToSet
  <2>2. CASE ~(i <= Len(s))
    <3>1. i - Len(s) \in 1 .. Len(u)
      BY <1>1, <2>2
    <3> QED BY <1>1, <2>2, <3>1 DEF ToSet
  <2> QED BY <2>1, <2>2
<1>3. ASSUME NEW i \in 1 .. Len(s) PROVE s[i] \in ToSet(s \o u)
  <2>1. i \in 1 .. Len(s) + Len(u)
    BY <1>1
  <2> QED BY <1>1, <2>1 DEF ToSet
<1>4. ASSUME NEW i \in 1 .. Len(u) PROVE u[i] \in ToSet(s \o u)
  <2>1. /\ Len(s) + i \in 1 .. Len(s) + Len(u)
        /\ ~(Len(s) + i <= Len(s)) /\ (Len(s) + i) - Len(s) = i
    BY <1>1
  <2>2. (s \o u)[Len(s) + i] = u[i]
    BY <1>1, <2>1
  <2> QED BY <1>1, <2>1, <2>2 DEF ToSet
<1>5. \A x \in ToSet(s \o u) : x \in ToSet(s) \cup ToSet(u)
  BY <1>1, <1>2 DEF ToSet
<1>6. \A x \in ToSet(s) \cup ToSet(u) : x \in ToSet(s \o u)
  BY <1>1, <1>3, <1>4 DEF ToSet
<1> QED BY <1>5, <1>6

-----------------------------------------------------------------------------
(* Names of files.                                                         *)

(* The first place where a word occurs.                                    *)
LEMMA FoundFirst ==
  ASSUME NEW text \in Seq(STRING), NEW word \in Seq(STRING),
         NEW i \in Found(text, word), \A j \in Found(text, word) : i <= j
  PROVE  find(text, word) = i
<1>1. Found(text, word) \subseteq Nat
  BY LenProperties DEF Found
<1> DEFINE F == Found(text, word)
           least == CHOOSE h \in F : \A j \in F : h <= j
<1>2. least \in F /\ \A j \in F : least <= j
  <2> HIDE DEF F
  <2>1. i \in F /\ \A j \in F : i <= j
    BY DEF F
  <2> QED BY <2>1
<1>3. least = i
  <2> HIDE DEF least
  <2> QED BY <1>1, <1>2
<1> QED BY <1>3 DEF find

LEMMA InstType ==
  /\ Inst \in Seq(STRING) /\ Len(Inst) = 5 /\ DOMAIN Inst = 1 .. 5
  /\ Inst[1] = "-" /\ \A k \in 2 .. 5 : Inst[k] # "-"
  /\ \A k \in 1 .. 5 : Inst[k] # "."
  /\ Dot \in Seq(STRING) /\ Len(Dot) = 1 /\ DOMAIN Dot = 1 .. 1 /\ Dot[1] = "."
  /\ Slash \in Seq(STRING)
<1>1. Inst \in Seq(STRING)
  BY PathAssumption DEF Inst
<1>2. Len(Inst) = 5
  BY DEF Inst
<1>3. DOMAIN Inst = 1 .. 5
  BY <1>1, <1>2, LenProperties
<1>4. /\ Inst[1] = "-" /\ Inst[2] = "i" /\ Inst[3] = "n" /\ Inst[4] = "s"
      /\ Inst[5] = "t"
  BY DEF Inst
<1>5. \A k \in 1 .. 5 : k = 1 \/ k = 2 \/ k = 3 \/ k = 4 \/ k = 5
  OBVIOUS
<1>6. \A k \in 2 .. 5 : k = 2 \/ k = 3 \/ k = 4 \/ k = 5
  OBVIOUS
<1>7. \A k \in 2 .. 5 : Inst[k] # "-"
  BY <1>4, <1>6
<1>8. \A k \in 1 .. 5 : Inst[k] # "."
  BY <1>4, <1>5
<1>9. Dot \in Seq(STRING) /\ Len(Dot) = 1 /\ Dot[1] = "."
  BY PathAssumption DEF Dot
<1>10. DOMAIN Dot = 1 .. 1
  BY <1>9, LenProperties
<1>11. Slash \in Seq(STRING)
  BY PathAssumption DEF Slash
<1> QED BY <1>1, <1>2, <1>3, <1>4, <1>7, <1>8, <1>9, <1>10, <1>11

(* Where a dot is.                                                         *)
LEMMA FoundDot ==
  ASSUME NEW s \in Seq(STRING), NEW i
  PROVE  i \in Found(s, Dot) <=> i \in 1 .. Len(s) /\ s[i] = "."
<1>1. /\ DOMAIN s = 1 .. Len(s) /\ Len(s) \in Nat
  BY LenProperties
<1>2. \A j \in DOMAIN Dot : j = 1
  BY InstType
<1> QED BY <1>1, <1>2, InstType DEF Found

(* A text that is put together from two, and its characters.               *)
LEMMA TwoParts ==
  ASSUME NEW A \in Seq(STRING), NEW R \in Seq(STRING)
  PROVE  /\ A \o R \in Seq(STRING)
         /\ Len(A \o R) = Len(A) + Len(R)
         /\ \A i \in 1 .. Len(A) + Len(R) :
              (A \o R)[i] = IF i <= Len(A) THEN A[i] ELSE R[i - Len(A)]
BY ConcatProperties

(* In which order a text is put together makes no difference.              *)
LEMMA TextsAssociate ==
  \A s, u, v \in Seq(STRING) : (s \o u) \o v = s \o (u \o v)
<1> SUFFICES ASSUME NEW s \in Seq(STRING), NEW u \in Seq(STRING), NEW v \in Seq(STRING)
             PROVE  (s \o u) \o v = s \o (u \o v)
  OBVIOUS
<1> DEFINE S == STRING
<1>1. s \in Seq(S) /\ u \in Seq(S) /\ v \in Seq(S)
  OBVIOUS
<1> HIDE DEF S
<1> QED BY <1>1, ConcatAssociative

(* N has the characters of A, I, W and R, one after the other.             *)
PartsAre(A, I, W, R, N) ==
  /\ N \in Seq(STRING)
  /\ Len(N) = Len(A) + Len(I) + Len(W) + Len(R)
  /\ \A i \in 1 .. Len(A) : N[i] = A[i]
  /\ \A i \in 1 .. Len(I) : N[Len(A) + i] = I[i]
  /\ \A i \in 1 .. Len(W) : N[Len(A) + Len(I) + i] = W[i]
  /\ \A i \in 1 .. Len(R) : N[Len(A) + Len(I) + Len(W) + i] = R[i]

(* A text that is put together from four.                                  *)
LEMMA FourParts ==
  ASSUME NEW A \in Seq(STRING), NEW I \in Seq(STRING), NEW W \in Seq(STRING),
         NEW R \in Seq(STRING), NEW N, N = ((A \o I) \o W) \o R
  PROVE  PartsAre(A, I, W, R, N)
<1> DEFINE X == A \o I
           Y == X \o W
           a == Len(A)
           b == Len(I)
           w == Len(W)
           r == Len(R)
<1>0. a \in Nat /\ b \in Nat /\ w \in Nat /\ r \in Nat
  BY LenProperties
<1>1. /\ X \in Seq(STRING) /\ Len(X) = a + b
      /\ \A i \in 1 .. a + b : X[i] = IF i <= a THEN A[i] ELSE I[i - a]
  BY TwoParts, Zenon
<1> HIDE DEF X
<1>2. /\ Y \in Seq(STRING) /\ Len(Y) = a + b + w
      /\ \A i \in 1 .. a + b + w :
           Y[i] = IF i <= a + b THEN X[i] ELSE W[i - (a + b)]
  <2>1. /\ Y \in Seq(STRING) /\ Len(Y) = Len(X) + w
        /\ \A i \in 1 .. Len(X) + w :
             Y[i] = IF i <= Len(X) THEN X[i] ELSE W[i - Len(X)]
    BY <1>1, TwoParts, Zenon
  <2> HIDE DEF Y, a, b, w
  <2> QED BY <1>1, <2>1
<1> HIDE DEF Y
<1>3. /\ N \in Seq(STRING) /\ Len(N) = a + b + w + r
      /\ \A i \in 1 .. a + b + w + r :
           N[i] = IF i <= a + b + w THEN Y[i] ELSE R[i - (a + b + w)]
  <2>1. N = Y \o R
    BY DEF X, Y
  <2>2. /\ Y \o R \in Seq(STRING) /\ Len(Y \o R) = Len(Y) + r
        /\ \A i \in 1 .. Len(Y) + r :
             (Y \o R)[i] = IF i <= Len(Y) THEN Y[i] ELSE R[i - Len(Y)]
    BY <1>2, TwoParts, Zenon
  <2> HIDE DEF a, b, w, r
  <2> QED BY <1>2, <2>1, <2>2
<1> HIDE DEF a, b, w, r
<1>4. ASSUME NEW i \in 1 .. a PROVE N[i] = A[i]
  <2>1. /\ i \in 1 .. a + b /\ i \in 1 .. a + b + w /\ i \in 1 .. a + b + w + r
        /\ i <= a /\ i <= a + b /\ i <= a + b + w
    BY <1>0
  <2> QED BY <1>1, <1>2, <1>3, <2>1
<1>5. ASSUME NEW i \in 1 .. b PROVE N[a + i] = I[i]
  <2>1. /\ a + i \in 1 .. a + b /\ a + i \in 1 .. a + b + w
        /\ a + i \in 1 .. a + b + w + r
        /\ ~(a + i <= a) /\ a + i <= a + b /\ a + i <= a + b + w
        /\ (a + i) - a = i
    BY <1>0
  <2> QED BY <1>1, <1>2, <1>3, <2>1
<1>6. ASSUME NEW i \in 1 .. w PROVE N[a + b + i] = W[i]
  <2>1. /\ a + b + i \in 1 .. a + b + w
        /\ a + b + i \in 1 .. a + b + w + r
        /\ ~(a + b + i <= a + b) /\ a + b + i <= a + b + w
        /\ (a + b + i) - (a + b) = i
    BY <1>0
  <2> QED BY <1>2, <1>3, <2>1
<1>7. ASSUME NEW i \in 1 .. r PROVE N[a + b + w + i] = R[i]
  <2>1. /\ a + b + w + i \in 1 .. a + b + w + r
        /\ ~(a + b + w + i <= a + b + w)
        /\ (a + b + w + i) - (a + b + w) = i
    BY <1>0
  <2> QED BY <1>3, <2>1
<1> QED BY <1>3, <1>4, <1>5, <1>6, <1>7 DEF PartsAre, a, b, w, r

(* What Core takes out again.                                              *)
LEMMA CutRestores ==
  ASSUME NEW A \in Seq(STRING), NEW W \in Seq(STRING), NEW R \in Seq(STRING),
         \A i \in DOMAIN A : A[i] # ".", \A i \in DOMAIN W : W[i] # ".",
         R # <<>>, R[1] = ".", Found(A \o R, Inst) = {}
  PROVE  Core(((A \o Inst) \o W) \o R) = A \o R
<1> DEFINE N == ((A \o Inst) \o W) \o R
           M == A \o R
           a == Len(A)
           w == Len(W)
           r == Len(R)
<1>0. /\ a \in Nat /\ w \in Nat /\ r \in Nat /\ r >= 1
      /\ DOMAIN A = 1 .. a /\ DOMAIN W = 1 .. w
      /\ \A i \in 1 .. a : A[i] # "."
      /\ \A i \in 1 .. w : W[i] # "."
  <2>1. /\ a \in Nat /\ w \in Nat /\ r \in Nat
        /\ DOMAIN A = 1 .. a /\ DOMAIN W = 1 .. w
    BY LenProperties
  <2>2. r # 0
    BY EmptySeq
  <2>3. \A i \in 1 .. a : A[i] # "."
    BY <2>1
  <2>4. \A i \in 1 .. w : W[i] # "."
    BY <2>1
  <2> HIDE DEF a, w, r
  <2>5. r >= 1
    BY <2>1, <2>2
  <2> QED BY <2>1, <2>3, <2>4, <2>5
<1>1. /\ N \in Seq(STRING)
      /\ Len(N) = a + 5 + w + r
      /\ \A i \in 1 .. a : N[i] = A[i]
      /\ \A i \in 1 .. 5 : N[a + i] = Inst[i]
      /\ \A i \in 1 .. w : N[a + 5 + i] = W[i]
      /\ \A i \in 1 .. r : N[a + 5 + w + i] = R[i]
  <2>1. PartsAre(A, Inst, W, R, N)
    <3> HIDE DEF N
    <3>1. N = ((A \o Inst) \o W) \o R /\ Inst \in Seq(STRING)
      BY InstType DEF N
    <3> HIDE DEF a, w, r, M
    <3> QED BY <3>1, FourParts, Zenon
  <2> HIDE DEF N
  <2> QED BY <2>1, InstType DEF PartsAre
<1>2. /\ M \in Seq(STRING) /\ Len(M) = a + r
      /\ \A i \in 1 .. a : M[i] = A[i]
  <2>1. /\ M \in Seq(STRING) /\ Len(M) = a + r
        /\ \A i \in 1 .. a + r : M[i] = IF i <= a THEN A[i] ELSE R[i - a]
    BY ConcatProperties
  <2> HIDE DEF M, a, r
  <2> QED BY <1>0, <2>1
<1>3. DOMAIN N = 1 .. Len(N) /\ DOMAIN M = 1 .. Len(M)
  BY <1>1, <1>2, LenProperties
<1> HIDE DEF N, M, a, w, r
<1>4. a + 1 \in Found(N, Inst)
  <2>1. a + 1 \in DOMAIN N /\ a + 1 + Len(Inst) <= Len(N) + 1
    BY <1>0, <1>1, <1>3, InstType
  <2>2. ASSUME NEW j \in DOMAIN Inst PROVE N[a + 1 + j - 1] = Inst[j]
    <3>1. j \in 1 .. 5 /\ a + 1 + j - 1 = a + j
      BY <1>0, InstType
    <3> QED BY <1>1, <3>1
  <2> QED BY <2>1, <2>2 DEF Found
<1>5. ASSUME NEW j \in Found(N, Inst), j <= a PROVE FALSE
  <2>1. /\ j \in 1 .. Len(N)
        /\ \A k \in 1 .. 5 : N[j + k - 1] = Inst[k]
    BY <1>3, InstType DEF Found
  <2>2. CASE j + 4 <= a
    <3>1. j \in 1 .. Len(M) /\ j + 5 <= Len(M) + 1
      BY <1>0, <1>1, <1>2, <1>5, <2>1, <2>2
    <3>2. ASSUME NEW k \in 1 .. 5 PROVE M[j + k - 1] = Inst[k]
      <4>1. j + k - 1 \in 1 .. a
        BY <1>0, <2>1, <2>2
      <4> QED BY <1>1, <1>2, <2>1, <4>1
    <3>3. j \in Found(M, Inst)
      BY <1>3, <3>1, <3>2, InstType DEF Found
    <3> QED BY <3>3 DEF M
  <2>3. CASE ~(j + 4 <= a)
    <3> DEFINE k == a + 2 - j
    <3>1. k \in 2 .. 5 /\ j + k - 1 = a + 1 /\ 1 \in 1 .. 5
      BY <1>0, <1>5, <2>1, <2>3
    <3> HIDE DEF k
    <3>2. k \in 1 .. 5
      BY <3>1
    <3>3. N[a + 1] = Inst[k] /\ N[a + 1] = Inst[1]
      BY <1>1, <2>1, <3>1, <3>2
    <3> QED BY <3>1, <3>3, InstType
  <2> QED BY <2>2, <2>3
<1>6. find(N, Inst) = a + 1
  <2>1. \A j \in Found(N, Inst) : a + 1 <= j
    <3>1. \A j \in Found(N, Inst) : j \in Nat
      BY <1>1, <1>3 DEF Found
    <3> QED BY <1>0, <1>5, <3>1
  <2> QED BY <1>1, <1>4, <2>1, InstType, FoundFirst
<1>7. PreDlm(N, Inst) = A
  <2> DEFINE P == SubSeq(N, 1, a)
  <2>1. PreDlm(N, Inst) = P
    <3>1. find(N, Inst) - 1 = a
      BY <1>0, <1>6
    <3> QED BY <3>1 DEF PreDlm
  <2>2. \A i \in 1 .. a : N[i] \in STRING
    <3>1. \A i \in 1 .. a : i \in DOMAIN N
      BY <1>0, <1>1, <1>3
    <3> QED BY <1>1, <3>1, ElementOfSeq
  <2>3. /\ P \in Seq(STRING) /\ Len(P) = a
        /\ \A i \in 1 .. a : P[i] = N[i]
    <3>1. /\ P \in Seq(STRING) /\ Len(P) = IF 1 <= a THEN a - 1 + 1 ELSE 0
          /\ \A i \in 1 .. a - 1 + 1 : P[i] = N[1 + i - 1]
      BY <1>0, <2>2, SubSeqProperties
    <3> HIDE DEF P
    <3>2. \A i \in 1 .. a : i \in 1 .. a - 1 + 1 /\ 1 + i - 1 = i
      BY <1>0
    <3> QED BY <1>0, <3>1, <3>2
  <2> HIDE DEF P
  <2>4. P = A
    BY <1>1, <2>3, SeqEqual DEF a
  <2> QED BY <2>1, <2>4
<1> DEFINE d == a + 5 + w + 1
<1>8. d \in Found(N, Dot) /\ \A j \in Found(N, Dot) : d <= j
  <2>1. d \in 1 .. Len(N) /\ N[d] = "."
    BY <1>0, <1>1
  <2>2. ASSUME NEW j \in 1 .. Len(N), N[j] = ".", j < d PROVE FALSE
    <3>1. CASE j <= a
      <4>1. j \in 1 .. a
        BY <3>1
      <4>2. N[j] = A[j] /\ A[j] # "."
        BY <1>0, <1>1, <4>1
      <4> QED BY <2>2, <4>2
    <3>2. CASE j > a /\ j <= a + 5
      <4>1. j - a \in 1 .. 5 /\ a + (j - a) = j
        BY <1>0, <3>2
      <4> QED BY <1>1, <2>2, <4>1, InstType
    <3>3. CASE j > a + 5
      <4>1. j - (a + 5) \in 1 .. w /\ a + 5 + (j - (a + 5)) = j
        BY <1>0, <2>2, <3>3
      <4>2. N[j] = W[j - (a + 5)] /\ W[j - (a + 5)] # "."
        BY <1>0, <1>1, <4>1
      <4> QED BY <2>2, <4>2
    <3> QED BY <1>0, <3>1, <3>2, <3>3
  <2>3. d \in Found(N, Dot)
    BY <1>1, <2>1, FoundDot
  <2>4. ASSUME NEW j \in Found(N, Dot) PROVE d <= j
    <3>1. j \in 1 .. Len(N) /\ N[j] = "."
      BY <1>1, FoundDot
    <3> QED BY <1>0, <2>2, <3>1
  <2> QED BY <2>3, <2>4
<1> HIDE DEF d
<1>9. find(N, Dot) = d
  BY <1>1, <1>8, InstType, FoundFirst
<1>10. PostDlm(N, Dot) = R
  <2> DEFINE P == SubSeq(N, d, Len(N))
  <2>1. PostDlm(N, Dot) = P
    BY <1>9 DEF PostDlm
  <2>2. d \in Int /\ Len(N) \in Int /\ Len(N) - d + 1 = r /\ d <= Len(N)
    BY <1>0, <1>1 DEF d
  <2>3. \A i \in d .. Len(N) : N[i] \in STRING
    <3>1. \A i \in d .. Len(N) : i \in DOMAIN N
      BY <1>0, <1>1, <1>3 DEF d
    <3> QED BY <1>1, <3>1, ElementOfSeq
  <2>4. /\ P \in Seq(STRING) /\ Len(P) = r
        /\ \A i \in 1 .. r : P[i] = N[d + i - 1]
    <3>1. /\ P \in Seq(STRING)
          /\ Len(P) = IF d <= Len(N) THEN Len(N) - d + 1 ELSE 0
          /\ \A i \in 1 .. Len(N) - d + 1 : P[i] = N[d + i - 1]
      BY <2>2, <2>3, SubSeqProperties
    <3> HIDE DEF P
    <3> QED BY <2>2, <3>1
  <2> HIDE DEF P
  <2>5. \A i \in 1 .. r : P[i] = R[i]
    <3> TAKE i \in 1 .. r
    <3>1. d + i - 1 = a + 5 + w + i
      BY <1>0 DEF d
    <3>2. P[i] = N[a + 5 + w + i]
      BY <2>4, <3>1
    <3>3. N[a + 5 + w + i] = R[i]
      BY <1>1
    <3> QED BY <3>2, <3>3
  <2>6. P = R
    BY <2>4, <2>5, SeqEqual DEF r
  <2> QED BY <2>1, <2>6
<1>11. Core(N) = A \o R
  <2>1. Found(N, Inst) # {}
    BY <1>4
  <2> QED BY <1>7, <1>10, <2>1 DEF Core
<1> QED BY <1>11 DEF N

(* A dot in a text that is put together.                                   *)
LEMMA PartsDotted ==
  ASSUME NEW A \in Seq(STRING), NEW I \in Seq(STRING), NEW W \in Seq(STRING),
         NEW R \in Seq(STRING), R # <<>>, R[1] = ".",
         NEW N, N = ((A \o I) \o W) \o R
  PROVE  Dotted(N)
<1> DEFINE a == Len(A)
           b == Len(I)
           w == Len(W)
           r == Len(R)
           d == a + b + w + 1
<1>1. /\ a \in Nat /\ b \in Nat /\ w \in Nat /\ r \in Nat
  BY LenProperties
<1>2. r # 0
  BY EmptySeq
<1>3. /\ N \in Seq(STRING) /\ Len(N) = a + b + w + r
      /\ \A i \in 1 .. r : N[a + b + w + i] = R[i]
  <2> HIDE DEF a, b, w, r, d
  <2>1. PartsAre(A, I, W, R, N)
    BY FourParts, Zenon
  <2> QED BY <2>1 DEF PartsAre, a, b, w, r
<1> HIDE DEF a, b, w, r
<1>4. d \in 1 .. Len(N) /\ N[d] = "."
  <2>1. 1 \in 1 .. r /\ d \in 1 .. Len(N)
    BY <1>1, <1>2, <1>3
  <2>2. N[a + b + w + 1] = R[1]
    BY <1>3, <2>1
  <2> QED BY <2>1, <2>2
<1>5. d \in Found(N, Dot)
  <2> HIDE DEF d
  <2> QED BY <1>3, <1>4, FoundDot
<1> QED BY <1>5 DEF Dotted

(* The two parts of a file name.                                           *)
LEMMA FileParts ==
  ASSUME NEW F \in Seq(STRING), Dotted(F)
  PROVE  LET A == PreDlm(F, Dot)
             P == PostDlm(F, Dot)
         IN /\ A \in Seq(STRING) /\ P \in Seq(STRING) /\ F = A \o P
            /\ \A i \in DOMAIN A : A[i] # "."
            /\ P # <<>> /\ P[1] = "."
<1> DEFINE n == Len(F)
           d == find(F, Dot)
           A == SubSeq(F, 1, d - 1)
           P == SubSeq(F, d, n)
           places == {i \in 1 .. n : F[i] = "."}
<1>1. n \in Nat /\ DOMAIN F = 1 .. n /\ \A i \in 1 .. n : F[i] \in STRING
  BY LenProperties, ElementOfSeq
<1>2. Found(F, Dot) = places
  <2>1. \A i : i \in Found(F, Dot) <=> i \in 1 .. Len(F) /\ F[i] = "."
    BY FoundDot
  <2>2. Found(F, Dot) \subseteq DOMAIN F
    BY DEF Found
  <2> QED BY <2>1
<1>3. PICK e \in places : \A j \in places : e <= j
  <2>1. places \in SUBSET Nat /\ places # {}
    BY <1>2 DEF Dotted
  <2> HIDE DEF places
  <2> QED BY <2>1, LeastNumber
<1>4. d = e
  <2>1. e \in Found(F, Dot) /\ \A j \in Found(F, Dot) : e <= j
    BY <1>2, <1>3
  <2> QED BY <2>1, InstType, FoundFirst
<1>5. /\ d \in 1 .. n /\ F[d] = "." /\ \A i \in 1 .. d - 1 : F[i] # "."
  <2>1. e \in 1 .. n /\ F[e] = "." /\ \A i \in 1 .. e - 1 : F[i] # "."
    <3>1. e \in 1 .. n /\ F[e] = "."
      BY <1>3
    <3>2. \A i \in 1 .. e - 1 : i \in 1 .. n /\ ~(e <= i)
      BY <1>1, <3>1
    <3> QED BY <1>3, <3>1, <3>2
  <2> QED BY <1>4, <2>1
<1> HIDE DEF n, d, places
<1>6. /\ A \in Seq(STRING) /\ Len(A) = d - 1
      /\ \A i \in 1 .. d - 1 : A[i] = F[i]
  <2>1. \A i \in 1 .. d - 1 : F[i] \in STRING
    BY <1>1, <1>5
  <2>2. /\ A \in Seq(STRING)
        /\ Len(A) = IF 1 <= d - 1 THEN d - 1 - 1 + 1 ELSE 0
        /\ \A i \in 1 .. d - 1 - 1 + 1 : A[i] = F[1 + i - 1]
    BY <1>5, <2>1, SubSeqProperties
  <2> HIDE DEF A
  <2>3. \A i \in 1 .. d - 1 : i \in 1 .. d - 1 - 1 + 1 /\ 1 + i - 1 = i
    BY <1>5
  <2> QED BY <1>1, <1>5, <2>2, <2>3
<1>7. /\ P \in Seq(STRING) /\ Len(P) = n - d + 1
      /\ \A i \in 1 .. n - d + 1 : P[i] = F[d + i - 1]
  <2>1. \A i \in d .. n : F[i] \in STRING
    BY <1>1, <1>5
  <2>2. /\ P \in Seq(STRING)
        /\ Len(P) = IF d <= n THEN n - d + 1 ELSE 0
        /\ \A i \in 1 .. n - d + 1 : P[i] = F[d + i - 1]
    BY <1>1, <1>5, <2>1, SubSeqProperties
  <2> HIDE DEF P
  <2> QED BY <1>1, <1>5, <2>2
<1> HIDE DEF A, P
<1>8. F = A \o P
  <2> DEFINE M == A \o P
  <2>1. /\ M \in Seq(STRING) /\ Len(M) = Len(A) + Len(P)
        /\ \A i \in 1 .. Len(A) + Len(P) :
             M[i] = IF i <= Len(A) THEN A[i] ELSE P[i - Len(A)]
    BY <1>6, <1>7, TwoParts
  <2> HIDE DEF M
  <2>2. Len(M) = n
    BY <1>1, <1>5, <1>6, <1>7, <2>1
  <2>3. ASSUME NEW i \in 1 .. n PROVE F[i] = M[i]
    <3>1. CASE i <= d - 1
      BY <1>1, <1>5, <1>6, <1>7, <2>1, <3>1
    <3>2. CASE ~(i <= d - 1)
      <4>1. /\ i - (d - 1) \in 1 .. n - d + 1
            /\ d + (i - (d - 1)) - 1 = i
        BY <1>1, <1>5, <3>2
      <4>2. M[i] = P[i - (d - 1)]
        BY <1>1, <1>5, <1>6, <1>7, <2>1, <3>2
      <4> QED BY <1>7, <4>1, <4>2
    <3> QED BY <3>1, <3>2
  <2>4. F = M
    BY <2>1, <2>2, <2>3, SeqEqual DEF n
  <2> QED BY <2>4 DEF M
<1>9. \A i \in DOMAIN A : A[i] # "."
  <2>1. DOMAIN A = 1 .. d - 1
    BY <1>6, LenProperties
  <2> QED BY <1>5, <1>6, <2>1
<1>10. P # <<>> /\ P[1] = "."
  <2>1. 1 \in 1 .. n - d + 1 /\ d + 1 - 1 = d /\ Len(P) # 0
    BY <1>1, <1>5, <1>7
  <2>2. P[1] = "."
    BY <1>5, <1>7, <2>1
  <2>3. P # <<>>
    BY <1>7, <2>1, EmptySeq
  <2> QED BY <2>2, <2>3
<1> QED BY <1>6, <1>7, <1>8, <1>9, <1>10 DEF PreDlm, PostDlm, A, P, d, n

(* What names are made of.                                                 *)
NameParts(p, n, A, W, R) ==
  /\ A \in Seq(STRING) /\ W \in Seq(STRING) /\ R \in Seq(STRING)
  /\ \A i \in DOMAIN A : A[i] # "."
  /\ \A i \in DOMAIN W : W[i] # "."
  /\ R # <<>> /\ R[1] = "."
  /\ Name(p) = A \o R
  /\ InstName(p, n) = ((A \o Inst) \o W) \o R

LEMMA NamesMadeOf ==
  ASSUME NEW p \in Paths, Dotted(Files[p]), NEW n \in Numbers
  PROVE  \E A, W, R : NameParts(p, n, A, W, R)
<1> DEFINE F == Files[p]
           D == Dsets[p]
           A == PreDlm(F, Dot)
           P == PostDlm(F, Dot)
           W == Written[n]
           X == (A \o Inst) \o W
           R == (P \o Slash) \o D
<1>1. F \in Seq(STRING) /\ D \in Seq(STRING)
  <2>1. DOMAIN Dsets = DOMAIN Files
    BY PathAssumption, LenProperties
  <2> QED BY <2>1, PathAssumption, ElementOfSeq DEF Paths
<1>2. W \in Seq(STRING) /\ \A i \in DOMAIN W : W[i] # "."
  <2>1. W \in Seq(STRING \ {"."})
    BY PathAssumption
  <2>2. \A i \in DOMAIN W : W[i] \in STRING \ {"."}
    <3> HIDE DEF W
    <3> QED BY <2>1, ElementOfSeq, LenProperties
  <2>3. STRING \ {"."} \subseteq STRING
    OBVIOUS
  <2>4. W \in Seq(STRING)
    <3> HIDE DEF W
    <3> QED BY <2>1, <2>3, SeqMonotonic
  <2> QED BY <2>2, <2>4
<1>3. /\ A \in Seq(STRING) /\ P \in Seq(STRING) /\ F = A \o P
      /\ \A i \in DOMAIN A : A[i] # "."
      /\ P # <<>> /\ P[1] = "."
  <2> HIDE DEF F
  <2>1. Dotted(F)
    BY DEF F
  <2> QED BY <1>1, <2>1, FileParts
<1>4. Slash \in Seq(STRING) /\ Inst \in Seq(STRING)
  BY InstType
<1>5. Name(p) = (F \o Slash) \o D /\ InstName(p, n) = ((X \o P) \o Slash) \o D
  BY DEF Name, InstName, InstFile
<1> HIDE DEF F, D, A, P, W
<1>6. X \in Seq(STRING)
  BY <1>2, <1>3, <1>4, ConcatProperties
<1> HIDE DEF X
<1>7. P \o Slash \in Seq(STRING)
  BY <1>3, <1>4, ConcatProperties
<1>8. ASSUME NEW Y \in Seq(STRING)
      PROVE  ((Y \o P) \o Slash) \o D = Y \o R
  <2>1. (Y \o P) \o Slash = Y \o (P \o Slash)
    <3>1. P \in Seq(STRING) /\ Slash \in Seq(STRING)
      BY <1>3, <1>4
    <3> QED BY <3>1, TextsAssociate
  <2> DEFINE Q == P \o Slash
  <2>2. (Y \o Q) \o D = Y \o (Q \o D)
    <3>1. Q \in Seq(STRING)
      BY <1>7
    <3> HIDE DEF Q
    <3>2. D \in Seq(STRING)
      BY <1>1
    <3> QED BY <3>1, <3>2, TextsAssociate
  <2> QED BY <2>1, <2>2
<1>9. InstName(p, n) = X \o R
  BY <1>5, <1>6, <1>8
<1>10. Name(p) = A \o R
  BY <1>3, <1>5, <1>8
<1>11. R \in Seq(STRING) /\ R # <<>> /\ R[1] = "."
  <2> DEFINE Q == P \o Slash
             V == Q \o D
  <2>0. Len(P) \in Nat /\ Len(P) # 0 /\ Len(Slash) \in Nat /\ Len(D) \in Nat
    BY <1>1, <1>3, <1>4, LenProperties, EmptySeq
  <2>1. /\ Q \in Seq(STRING) /\ Len(Q) = Len(P) + Len(Slash)
        /\ \A i \in 1 .. Len(P) + Len(Slash) :
             Q[i] = IF i <= Len(P) THEN P[i] ELSE Slash[i - Len(P)]
    BY <1>3, <1>4, TwoParts
  <2> HIDE DEF Q
  <2>2. /\ V \in Seq(STRING) /\ Len(V) = Len(Q) + Len(D)
        /\ \A i \in 1 .. Len(Q) + Len(D) :
             V[i] = IF i <= Len(Q) THEN Q[i] ELSE D[i - Len(Q)]
    BY <1>1, <2>1, TwoParts
  <2> HIDE DEF V
  <2>3. V[1] = P[1] /\ Len(V) # 0
    BY <2>0, <2>1, <2>2
  <2>4. V # <<>>
    BY <2>2, <2>3, EmptySeq
  <2>5. V = R
    BY DEF V, Q
  <2> QED BY <1>3, <2>2, <2>3, <2>4, <2>5
<1> HIDE DEF R
<1>12. NameParts(p, n, A, W, R)
  BY <1>2, <1>3, <1>9, <1>10, <1>11 DEF NameParts, X
<1> QED BY <1>12

(* The name of an instance has a dot.                                      *)
LEMMA InstDotted ==
  ASSUME NEW p \in Paths, Dotted(Files[p]), NEW n \in Numbers
  PROVE  Dotted(InstName(p, n))
<1>1. PICK A, W, R : NameParts(p, n, A, W, R)
  BY NamesMadeOf
<1> DEFINE N == InstName(p, n)
<1>2. /\ A \in Seq(STRING) /\ W \in Seq(STRING) /\ R \in Seq(STRING)
      /\ R # <<>> /\ R[1] = "." /\ N = ((A \o Inst) \o W) \o R
      /\ Inst \in Seq(STRING)
  BY <1>1, InstType DEF NameParts
<1> HIDE DEF N
<1>3. Dotted(N)
  BY <1>2, PartsDotted
<1> QED BY <1>3 DEF N

(* generateLinks finds the port of an instance under the name that the     *)
(* description gives it: cutting "-inst" and what follows up to the dot    *)
(* out of a name (workflow.cpp:119, 147) restores it, unless the user's    *)
(* own name contains "-inst".                                              *)
THEOREM CoreRestores ==
  ASSUME NEW p \in Paths, Found(Name(p), Inst) = {}
  PROVE  /\ Core(Name(p)) = Name(p)
         /\ Dotted(Files[p]) => \A n \in Numbers : Core(InstName(p, n)) = Name(p)
<1>1. Core(Name(p)) = Name(p)
  BY DEF Core
<1>2. ASSUME Dotted(Files[p]), NEW n \in Numbers
      PROVE  Core(InstName(p, n)) = Name(p)
  <2>1. PICK A, W, R : NameParts(p, n, A, W, R)
    BY <1>2, NamesMadeOf
  <2> DEFINE N == ((A \o Inst) \o W) \o R
             M == A \o R
  <2>2. /\ A \in Seq(STRING) /\ W \in Seq(STRING) /\ R \in Seq(STRING)
        /\ \A i \in DOMAIN A : A[i] # "."
        /\ \A i \in DOMAIN W : W[i] # "."
        /\ R # <<>> /\ R[1] = "." /\ Name(p) = M /\ InstName(p, n) = N
    BY <2>1 DEF NameParts
  <2>3. Found(M, Inst) = {}
    BY <2>2
  <2>4. Core(N) = M
    BY <2>2, <2>3, CutRestores
  <2> HIDE DEF N, M
  <2> QED BY <2>2, <2>4
<1> QED BY <1>1, <1>2

-----------------------------------------------------------------------------
(* What may come up: a choice from each set, and the calls that return true.*)
LEMMA OneOfEachPicks ==
  ASSUME NEW sets, NEW f \in OneOfEach(sets)
  PROVE  /\ DOMAIN f = DOMAIN sets
         /\ \A x \in DOMAIN sets : f[x] \in sets[x]
BY DEF OneOfEach

LEMMA HitsAre ==
  ASSUME NEW results, NEW H \in Hits(results)
  PROVE  /\ H \subseteq DOMAIN results
         /\ \A x \in H : TRUE \in results[x]
         /\ \A x \in DOMAIN results \ H : FALSE \in results[x]
BY DEF Hits

-----------------------------------------------------------------------------
(* What a description is.                                                  *)
LEMMA YamlType ==
  ASSUME yaml \in Yamls
  PROVE  /\ Len(yaml) \in Nat /\ DOMAIN yaml = 1 .. Len(yaml)
         /\ \A i \in DOMAIN yaml :
              /\ yaml[i] \in Tasks
              /\ ToSet(PortsOf(yaml[i]))
                   = ToSet(yaml[i].inports) \cup ToSet(yaml[i].outports)
              /\ \A p \in ToSet(PortsOf(yaml[i])) :
                   p \in Ports /\ 1 .. Len(p.range) \subseteq Numbers
<1>1. yaml \in Seq(Tasks)
  BY YamlAssumption
<1>2. \A i \in DOMAIN yaml : yaml[i] \in Tasks
  BY <1>1
<1>3. ASSUME NEW i \in DOMAIN yaml
      PROVE  /\ ToSet(PortsOf(yaml[i]))
                  = ToSet(yaml[i].inports) \cup ToSet(yaml[i].outports)
             /\ \A p \in ToSet(PortsOf(yaml[i])) : p \in Ports
  <2>1. yaml[i].inports \in Seq(Ports) /\ yaml[i].outports \in Seq(Ports)
    BY <1>2 DEF Tasks
  <2>2. ToSet(PortsOf(yaml[i])) = ToSet(yaml[i].inports) \cup ToSet(yaml[i].outports)
    BY <2>1, ConcatElements DEF PortsOf
  <2>3. ToSet(yaml[i].inports) \subseteq Ports /\ ToSet(yaml[i].outports) \subseteq Ports
    BY <2>1, ElementOfSeq, LenProperties DEF ToSet
  <2> QED BY <2>2, <2>3
<1> QED BY <1>1, <1>2, <1>3, YamlAssumption

(* What paths are; every path matches itself, and match answers.           *)
LEMMA PathFacts ==
  /\ Paths \subseteq Nat \ {0}
  /\ \A p \in Paths : Name(p) \in Seq(STRING)
  /\ \A k, p \in Paths : Results[<<k, p>>] = match(Name(k), Name(p))
  /\ \A p \in Paths : Results[<<p, p>>] = {TRUE}
<1>1. Paths \subseteq Nat \ {0} /\ DOMAIN Dsets = Paths
  BY PathAssumption, LenProperties DEF Paths
<1>2. ASSUME NEW p \in Paths PROVE Name(p) \in Seq(STRING)
  <2>1. Files[p] \in Seq(STRING) /\ Dsets[p] \in Seq(STRING) /\ Slash \in Seq(STRING)
    BY <1>1, PathAssumption, InstType, ElementOfSeq DEF Paths
  <2>2. Files[p] \o Slash \in Seq(STRING)
    BY <2>1, ConcatProperties
  <2> QED BY <2>1, <2>2, ConcatProperties DEF Name
<1>3. \A k, p \in Paths : Results[<<k, p>>] = match(Name(k), Name(p))
  BY DEF Results
<1>4. ASSUME NEW p \in Paths PROVE Results[<<p, p>>] = {TRUE}
  <2>1. match(Name(p), Name(p)) = {TRUE}
    BY <1>2, MatchItself
  <2> QED BY <1>3, <2>1
<1> QED BY <1>1, <1>2, <1>3, <1>4

(* The key of a path is a path.                                            *)
LEMMA KeyForType ==
  ASSUME NEW table, NEW path \in Paths, NEW hits \in SUBSET Paths
  PROVE  KeyFor(table, path, hits) \in Paths
<1> DEFINE matching == {k \in hits : table[k] # <<>>}
<1>1. CASE matching = {}
  BY <1>1 DEF KeyFor
<1>2. CASE matching # {}
  <2>1. matching \in SUBSET Nat
    BY PathFacts
  <2>2. \E k \in matching : \A j \in matching : k <= j
    BY <1>2, <2>1, LeastNumber
  <2>3. (CHOOSE k \in matching : \A j \in matching : k <= j) \in matching
    BY <2>2
  <2> QED BY <1>2, <2>3 DEF KeyFor
<1> QED BY <1>1, <1>2

-----------------------------------------------------------------------------
(* The loop over the ports of a node.                                      *)

(* What comes up when these ports are entered.                             *)
MetsOf(ports) ==
  {m \in [port : ToSet(ports), hits : SUBSET Paths, past : Garbage] :
     m.hits \in KeyHits(m.port.path)}

LEMMA MeetsRight ==
  ASSUME NEW S, NEW ports \in Seq(S), NEW mets \in Meets(ports)
  PROVE  /\ mets \in Seq(MetsOf(ports)) /\ Len(mets) = Len(ports)
         /\ DOMAIN mets = DOMAIN ports
         /\ ToSet(mets) \subseteq MetsOf(ports)
         /\ \A i \in DOMAIN ports :
              mets[i] \in MetsOf(ports) /\ mets[i].port = ports[i]
<1> DEFINE sets == [i \in DOMAIN ports |->
              [port : {ports[i]}, hits : KeyHits(ports[i].path), past : Garbage]]
<1>1. /\ DOMAIN mets = DOMAIN ports /\ mets = [i \in DOMAIN ports |-> mets[i]]
      /\ \A i \in DOMAIN ports : mets[i] \in sets[i]
  <2>1. mets \in OneOfEach(sets) /\ DOMAIN sets = DOMAIN ports
    BY DEF Meets
  <2> HIDE DEF sets
  <2> QED BY <2>1 DEF OneOfEach
<1>2. DOMAIN ports = 1 .. Len(ports) /\ Len(ports) \in Nat
  BY LenProperties
<1>3. ASSUME NEW i \in DOMAIN ports
      PROVE  mets[i] \in MetsOf(ports) /\ mets[i].port = ports[i]
  <2>1. mets[i] \in [port : {ports[i]}, hits : KeyHits(ports[i].path), past : Garbage]
    BY <1>1
  <2>2. mets[i].port = ports[i] /\ ports[i] \in ToSet(ports)
    BY <2>1 DEF ToSet
  <2>3. KeyHits(ports[i].path) \subseteq SUBSET Paths
    BY DEF KeyHits, Hits
  <2>4. mets[i] \in [port : ToSet(ports), hits : SUBSET Paths, past : Garbage]
    BY <2>1, <2>2, <2>3
  <2>5. mets[i].hits \in KeyHits(mets[i].port.path)
    BY <2>1, <2>2
  <2> QED BY <2>2, <2>4, <2>5 DEF MetsOf
<1> HIDE DEF sets
<1>4. mets \in [1 .. Len(ports) -> MetsOf(ports)]
  BY <1>1, <1>2, <1>3
<1>5. mets \in Seq(MetsOf(ports)) /\ Len(mets) = Len(ports)
  BY <1>2, <1>4, SeqDef, LenProperties
<1>6. ToSet(mets) \subseteq MetsOf(ports)
  BY <1>1, <1>3 DEF ToSet
<1> QED BY <1>1, <1>3, <1>5, <1>6

(* The rounds of the loop, and what they make.                             *)
Started(table, range) == [table |-> table, range |-> range, ports |-> <<>>]

HasRounds(X, table, range, mets, v) ==
  \E y \in [0 .. Len(mets) -> X] :
    /\ y[0] = Started(table, range)
    /\ \A i \in 1 .. Len(mets) : y[i] = AddPort(y[i - 1], mets[i], v)
    /\ y[Len(mets)] = AddPorts(table, range, mets, v)

(* Every round keeps what each of them keeps.                              *)
LEMMA AddPortsRounds ==
  ASSUME NEW X, NEW table, NEW range, NEW S, NEW mets \in Seq(S), NEW v,
         Started(table, range) \in X,
         \A acc \in X : \A m \in ToSet(mets) : AddPort(acc, m, v) \in X
  PROVE  HasRounds(X, table, range, mets, v)
<1> DEFINE n == Len(mets)
           start == [table |-> table, range |-> range, ports |-> <<>>]
           G == [i \in 1 .. n |-> [acc \in X |-> AddPort(acc, mets[i], v)]]
           Rounds(x) ==
             x = [i \in 0 .. n |-> IF i = 0 THEN start
                                   ELSE AddPort(x[i - 1], mets[i], v)]
<1>1. n \in Nat /\ \A i \in 1 .. n : mets[i] \in ToSet(mets)
  BY LenProperties DEF ToSet
<1>2. G \in [1 .. n -> [X -> X]]
  BY <1>1
<1>3. PICK x \in [0 .. n -> X] :
             x[0] = start /\ \A i \in 1 .. n : x[i] = G[i][x[i - 1]]
  <2> HIDE DEF n, G, start
  <2>1. HasValues(n, X, start, G)
    <3>1. start \in X
      BY DEF start, Started
    <3> QED BY <1>1, <1>2, <3>1, Loop
  <2> QED BY <2>1 DEF HasValues
<1>4. Rounds(x)
  <2>1. ASSUME NEW i \in 0 .. n
        PROVE  x[i] = IF i = 0 THEN start ELSE AddPort(x[i - 1], mets[i], v)
    <3>1. CASE i = 0
      BY <1>3, <3>1
    <3>2. CASE i # 0
      <4>1. i \in 1 .. n /\ i - 1 \in 0 .. n
        BY <1>1, <3>2
      <4>2. x[i] = G[i][x[i - 1]] /\ x[i - 1] \in X
        BY <1>3, <4>1
      <4> QED BY <3>2, <4>1, <4>2
    <3> QED BY <3>1, <3>2
  <2> HIDE DEF n, start
  <2> QED BY <2>1
<1> DEFINE y == CHOOSE y : Rounds(y)
<1>5. Rounds(y)
  <2> HIDE DEF Rounds
  <2> QED BY <1>4
<1>6. AddPorts(table, range, mets, v) = y[n]
  BY DEF AddPorts
<1> HIDE DEF y
<1>7. /\ y[0] = start
      /\ \A i \in 1 .. n : y[i] = AddPort(y[i - 1], mets[i], v)
  <2>1. 0 \in 0 .. n /\ \A i \in 1 .. n : i \in 0 .. n /\ i # 0
    BY <1>1
  <2> HIDE DEF n, start
  <2> QED BY <1>5, <2>1
<1> DEFINE Z == {i \in 0 .. n : y[i] \in X}
<1>8. 0 \in Z
  BY <1>1, <1>7 DEF Started
<1>9. ASSUME NEW i \in 1 .. n, i - 1 \in Z PROVE i \in Z
  BY <1>1, <1>7, <1>9
<1>10. \A i \in 0 .. n : i \in Z
  <2> HIDE DEF Z
  <2> QED BY <1>1, <1>8, <1>9, UpTo
<1>11. y \in [0 .. n -> X]
  <2>1. y = [i \in 0 .. n |-> y[i]]
    BY <1>5
  <2>2. \A i \in 0 .. n : y[i] \in X
    BY <1>10
  <2> HIDE DEF n
  <2> QED BY <2>1, <2>2
<1> QED BY <1>6, <1>7, <1>11 DEF HasRounds, Started

(* What holds before the ports of a node are entered, and is kept by each  *)
(* of them, holds after.                                                   *)
LEMMA AddPortsIn ==
  ASSUME NEW X, NEW table, NEW range, NEW S, NEW mets \in Seq(S), NEW v,
         Started(table, range) \in X,
         \A acc \in X : \A m \in ToSet(mets) : AddPort(acc, m, v) \in X
  PROVE  AddPorts(table, range, mets, v) \in X
<1>1. HasRounds(X, table, range, mets, v) /\ Len(mets) \in Nat
  BY AddPortsRounds, LenProperties
<1> QED BY <1>1 DEF HasRounds

(* What the ports of the instance at hand leave behind: entries, and the   *)
(* ports of its node.                                                      *)
Tables(V) ==
  {f \in [Paths -> Seq(Int)] :
     \A k \in Paths : \A w \in ToSet(f[k]) : Entered(w) \/ w \in V}

Accs(V) == [table : Tables(V), range : Ranges, ports : Seq(NodePorts(task, index))]

(* A task that is about to be added.                                       *)
Adding ==
  /\ PlaceRight /\ task <= Len(yaml) /\ ~Wrong(yaml[task]) /\ ~Dotless(yaml[task])

(* Where the task at hand is, and its types.                               *)
LEMMA AddingFacts ==
  ASSUME Adding
  PROVE  /\ task \in DOMAIN yaml /\ yaml[task] \in Tasks
         /\ index \in Nat /\ index < yaml[task].taskCount
         /\ yaml[task].taskCount \in Nat
         /\ \A p \in ToSet(PortsOf(yaml[task])) :
              /\ p \in Ports /\ (p.passthru \/ p.metadata)
              /\ 1 .. Len(p.range) \subseteq Numbers
              /\ yaml[task].taskCount > 1 => Dotted(Files[p.path])
<1>1. /\ Len(yaml) \in Nat /\ DOMAIN yaml = 1 .. Len(yaml) /\ task \in DOMAIN yaml
  BY YamlType DEF Adding, PlaceRight
<1>2. /\ yaml[task] \in Tasks
      /\ \A p \in ToSet(PortsOf(yaml[task])) :
           p \in Ports /\ 1 .. Len(p.range) \subseteq Numbers
  BY <1>1, YamlType DEF Adding, PlaceRight
<1>3. yaml[task].taskCount \in Nat
  BY <1>2 DEF Tasks
<1>4. /\ ~(yaml[task].taskCount < 1)
      /\ \A p \in ToSet(PortsOf(yaml[task])) :
           /\ p.metadata \/ p.passthru
           /\ yaml[task].taskCount > 1 => Dotted(Files[p.path])
  BY DEF Adding, Wrong, Dotless
<1>5. index \in Nat /\ index < yaml[task].taskCount
  BY <1>3, <1>4 DEF Adding, PlaceRight
<1> QED BY <1>1, <1>2, <1>3, <1>4, <1>5

(* One port of the instance at hand.                                       *)
LEMMA AddPortStep ==
  ASSUME Adding, NEW V \in SUBSET Int, NEW v \in V, NEW acc \in Accs(V),
         NEW ports, ToSet(ports) \subseteq ToSet(PortsOf(yaml[task])),
         NEW met \in MetsOf(ports)
  PROVE  AddPort(acc, met, v) \in Accs(V)
<1> DEFINE port == met.port
           range == IF port.range = <<>> THEN acc.range ELSE port.range
           k == KeyFor(acc.table, port.path, met.hits)
           table == [acc.table EXCEPT ![k] = Append(@, v)]
           number == IF index < Len(range) THEN range[index + 1] ELSE met.past
           new == [path |-> port.path,
                   name |-> IF yaml[task].taskCount > 1
                            THEN InstName(port.path, number) ELSE Name(port.path),
                   io_freq |-> port.io_freq,
                   passthru |-> port.passthru, metadata |-> port.metadata]
<1>1. /\ acc.table \in Tables(V) /\ acc.range \in Ranges
      /\ acc.ports \in Seq(NodePorts(task, index))
  BY DEF Accs
<1>2. /\ port \in ToSet(PortsOf(yaml[task]))
      /\ met.hits \in SUBSET Paths /\ met.past \in Numbers
  BY PathAssumption DEF MetsOf
<1>3. /\ port \in Ports /\ (port.passthru \/ port.metadata)
      /\ 1 .. Len(port.range) \subseteq Numbers
      /\ yaml[task].taskCount > 1 => Dotted(Files[port.path])
  <2> HIDE DEF port
  <2> QED BY <1>2, AddingFacts
<1> HIDE DEF port
<1>4. /\ port.path \in Paths /\ port.io_freq \in STRING
      /\ port.passthru \in BOOLEAN /\ port.metadata \in BOOLEAN
      /\ port.range \in Seq(Numbers)
  BY <1>3 DEF Ports
<1>5. range \in Ranges
  <2>1. CASE port.range = <<>>
    BY <1>1, <2>1
  <2>2. CASE port.range # <<>>
    <3>1. ~NoRanges(task)
      BY <1>2, <2>2 DEF NoRanges
    <3>2. Fits(port.range, task + 1)
      <4>1. task \in Nat /\ DOMAIN yaml \subseteq Nat
        BY AddingFacts, YamlType DEF Adding, PlaceRight
      <4>2. ASSUME NEW i \in DOMAIN yaml, Enough(i), i >= task + 1
            PROVE  yaml[i].taskCount <= Len(port.range)
        <5>1. task \in 1 .. i - 1
          BY <4>1, <4>2, AddingFacts, YamlType DEF Adding, PlaceRight
        <5> QED BY <1>2, <2>2, <4>2, <5>1 DEF Enough
      <4> QED BY <4>2 DEF Fits
    <3> QED BY <1>3, <1>4, <2>2, <3>1, <3>2 DEF Ranges
  <2> QED BY <2>1, <2>2
<1>6. k \in Paths
  BY <1>2, <1>4, KeyForType
<1>7. table \in Tables(V)
  <2> HIDE DEF k
  <2>1. acc.table \in [Paths -> Seq(Int)] /\ v \in Int
    BY <1>1 DEF Tables
  <2>2. Append(acc.table[k], v) \in Seq(Int)
    BY <1>6, <2>1, AppendProperties
  <2>3. table \in [Paths -> Seq(Int)]
    BY <2>1, <2>2
  <2>4. ASSUME NEW j \in Paths, NEW w \in ToSet(table[j])
        PROVE  Entered(w) \/ w \in V
    <3>1. CASE j # k
      <4>1. table[j] = acc.table[j]
        BY <2>1, <3>1
      <4> QED BY <1>1, <2>4, <4>1 DEF Tables
    <3>2. CASE j = k
      <4>1. table[j] = Append(acc.table[k], v)
        BY <1>6, <2>1, <3>2
      <4>2. PICK i \in DOMAIN Append(acc.table[k], v) :
                   w = Append(acc.table[k], v)[i]
        BY <2>4, <4>1 DEF ToSet
      <4>3. \/ i \in DOMAIN acc.table[k] /\ w = acc.table[k][i]
            \/ w = v
        <5>1. acc.table[k] \in Seq(Int)
          BY <1>6, <2>1
        <5> QED BY <2>1, <4>2, <5>1, AppendDomain
      <4>4. w \in ToSet(acc.table[k]) \/ w = v
        BY <4>3 DEF ToSet
      <4> QED BY <1>1, <1>6, <4>4 DEF Tables
    <3> QED BY <3>1, <3>2
  <2> QED BY <2>3, <2>4 DEF Tables
<1>8. new \in NodePorts(task, index)
  <2>1. /\ range \in Seq(Numbers)
        /\ NoRanges(task) => Default(range) /\ Fits(range, task)
    BY <1>5 DEF Ranges
  <2>2. /\ index \in Nat /\ index < yaml[task].taskCount
        /\ yaml[task].taskCount \in Nat /\ task \in DOMAIN yaml /\ task \in Nat
    BY AddingFacts DEF Adding, PlaceRight
  <2> HIDE DEF range
  <2>3. Len(range) \in Nat /\ DOMAIN range = 1 .. Len(range)
    BY <2>1, LenProperties
  <2>4. number \in Numbers
    <3>1. index < Len(range) => index + 1 \in DOMAIN range
      BY <2>2, <2>3
    <3> QED BY <1>2, <2>1, <3>1, ElementOfSeq
  <2>5. NoRanges(task) /\ Enough(task) => number = index + 1
    <3>1. SUFFICES ASSUME NoRanges(task), Enough(task) PROVE number = index + 1
      OBVIOUS
    <3>2. yaml[task].taskCount <= Len(range)
      BY <2>1, <2>2, <3>1 DEF Fits
    <3>3. index < Len(range) /\ index + 1 \in DOMAIN range
      BY <2>2, <2>3, <3>2
    <3> QED BY <2>1, <3>1, <3>3 DEF Default
  <2> HIDE DEF number
  <2>6. new.name \in AllNames
    BY <1>4, <2>4 DEF AllNames
  <2>7. NamedFor(task, index, new)
    <3>1. CASE yaml[task].taskCount > 1
      <4>1. Func(task, index)[2] = index + 1
        BY <3>1 DEF Func
      <4>2. new.name = InstName(port.path, number) /\ new.path = port.path
        BY <3>1
      <4>3. \E n \in Numbers : new.name = InstName(new.path, n)
        BY <2>4, <4>2
      <4>4. NoRanges(task) /\ Enough(task) =>
              new.name = InstName(new.path, Func(task, index)[2])
        BY <2>5, <4>1, <4>2
      <4> QED BY <1>3, <3>1, <4>2, <4>3, <4>4 DEF NamedFor
    <3>2. CASE ~(yaml[task].taskCount > 1)
      BY <3>2 DEF NamedFor
    <3> QED BY <3>1, <3>2
  <2>8. new \in NamedPorts
    <3> DEFINE name == new.name
    <3>1. new = [path |-> port.path, name |-> name, io_freq |-> port.io_freq,
                 passthru |-> port.passthru, metadata |-> port.metadata]
      OBVIOUS
    <3>2. name \in AllNames
      BY <2>6
    <3> HIDE DEF name, new
    <3> QED BY <1>4, <3>1, <3>2 DEF NamedPorts
  <2>9. new.passthru \/ new.metadata
    BY <1>3
  <2> HIDE DEF new
  <2> QED BY <2>7, <2>8, <2>9 DEF NodePorts
<1>9. Append(acc.ports, new) \in Seq(NodePorts(task, index))
  <2> HIDE DEF new
  <2> QED BY <1>1, <1>8, AppendProperties
<1>10. AddPort(acc, met, v) =
        [table |-> table, range |-> range, ports |-> Append(acc.ports, new)]
  BY DEF AddPort, port
<1> HIDE DEF table, range, new
<1> QED BY <1>5, <1>7, <1>9, <1>10 DEF Accs

(* All ports of one direction.                                             *)
LEMMA AddPortsRight ==
  ASSUME Adding, NEW V \in SUBSET Int, NEW v \in V,
         NEW table \in Tables(V), NEW range \in Ranges,
         NEW ports \in Seq(Ports), NEW mets \in Meets(ports),
         ToSet(ports) \subseteq ToSet(PortsOf(yaml[task]))
  PROVE  AddPorts(table, range, mets, v) \in Accs(V)
<1>1. Started(table, range) \in Accs(V)
  <2>1. <<>> \in Seq(NodePorts(task, index))
    BY EmptySeq
  <2> QED BY <2>1 DEF Accs, Started
<1>2. mets \in Seq(MetsOf(ports)) /\ ToSet(mets) \subseteq MetsOf(ports)
  BY MeetsRight
<1>3. \A acc \in Accs(V) : \A m \in ToSet(mets) : AddPort(acc, m, v) \in Accs(V)
  BY <1>2, AddPortStep
<1> QED BY <1>1, <1>2, <1>3, AddPortsIn

-----------------------------------------------------------------------------
(* A node is added.                                                        *)

NodeRecord(ins, outs) ==
  [func |-> Func(task, index), start_proc |-> NextRank,
   nprocs |-> yaml[task].nprocs, l5_inports |-> ins.ports,
   l5_outports |-> outs.ports, passthru_files |-> {}]

(* What a step that adds a node makes of the state.                        *)
NodeAdded(V, ins, outs) ==
  /\ ins \in Accs(V) /\ outs \in Accs(V)
  /\ nodes' = Append(nodes, NodeRecord(ins, outs))
  /\ workflow_links' = outs.table
  /\ file_range' = outs.range
  /\ IF index + 1 < yaml[task].taskCount
     THEN index' = index + 1 /\ UNCHANGED task
     ELSE index' = 0 /\ task' = task + 1
  /\ UNCHANGED <<yaml, phase, key, links>>

NewEntries == {AsConsumer(Len(nodes)), -Len(nodes)}

InsAdded(mins) ==
  AddPorts(workflow_links, RangeAt(index), mins, AsConsumer(Len(nodes)))

OutsAdded(mins, mouts) ==
  AddPorts(InsAdded(mins).table, InsAdded(mins).range, mouts, -Len(nodes))

AddsNode(mins, mouts) ==
  NodeAdded(NewEntries, InsAdded(mins), OutsAdded(mins, mouts))

(* The range that a node starts from.                                      *)
LEMMA RangeAtRight ==
  ASSUME GInv, Adding
  PROVE  RangeAt(index) \in Ranges
<1>1. CASE index = 0
  <2> DEFINE r == [j \in DOMAIN file_range |-> j]
  <2>1. /\ file_range \in Seq(Int) /\ 1 .. Len(file_range) \subseteq Numbers
        /\ Fits(file_range, task) /\ task \in Nat
    BY <1>1 DEF GInv, PlaceRight
  <2>2. Len(file_range) \in Nat /\ DOMAIN file_range = 1 .. Len(file_range)
    BY <2>1, LenProperties
  <2>3. r \in [1 .. Len(file_range) -> Numbers]
    BY <2>1, <2>2
  <2>4. r \in Seq(Numbers) /\ Len(r) = Len(file_range) /\ DOMAIN r = DOMAIN file_range
    BY <2>2, <2>3, SeqDef, LenProperties
  <2>5. Default(r)
    BY DEF Default
  <2>6. DOMAIN yaml \subseteq Nat
    BY YamlType DEF Adding, PlaceRight
  <2> HIDE DEF r
  <2>7. Fits(r, task) /\ Fits(r, task + 1)
    BY <2>1, <2>4, <2>6 DEF Fits
  <2>8. r \in Ranges
    BY <2>1, <2>4, <2>5, <2>7 DEF Ranges
  <2> QED BY <1>1, <2>8 DEF RangeAt, r
<1>2. CASE index # 0
  BY <1>2 DEF GInv, PlaceRight, RangeAt
<1> QED BY <1>1, <1>2

(* AddNode adds one node, with the ports that the loops make.              *)
LEMMA AddNodeAdds ==
  ASSUME GInv, AddNode
  PROVE  /\ Adding
         /\ \E mins \in Meets(yaml[task].inports) :
              \E mouts \in Meets(yaml[task].outports) : AddsNode(mins, mouts)
<1> DEFINE t == yaml[task]
           n == Len(nodes)
           V == NewEntries
<1>1. Adding
  BY DEF GInv, AddNode, Adding
<1>2. PICK mins \in Meets(yaml[task].inports), mouts \in Meets(yaml[task].outports) :
        LET ins  == AddPorts(workflow_links, RangeAt(index), mins, AsConsumer(n))
            outs == AddPorts(ins.table, ins.range, mouts, -n)
        IN /\ nodes' = Append(nodes,
                [func |-> Func(task, index), start_proc |-> NextRank,
                 nprocs |-> t.nprocs, l5_inports |-> ins.ports,
                 l5_outports |-> outs.ports, passthru_files |-> {}])
           /\ workflow_links' = outs.table
           /\ file_range' = outs.range
           /\ IF index + 1 < t.taskCount
              THEN index' = index + 1 /\ UNCHANGED task
              ELSE index' = 0 /\ task' = task + 1
  BY DEF AddNode
<1> DEFINE ins == AddPorts(workflow_links, RangeAt(index), mins, AsConsumer(n))
           outs == AddPorts(ins.table, ins.range, mouts, -n)
<1>3. /\ nodes' = Append(nodes, NodeRecord(ins, outs))
      /\ workflow_links' = outs.table
      /\ file_range' = outs.range
      /\ IF index + 1 < yaml[task].taskCount
         THEN index' = index + 1 /\ UNCHANGED task
         ELSE index' = 0 /\ task' = task + 1
  BY <1>2 DEF NodeRecord
<1>4. UNCHANGED <<yaml, phase, key, links>>
  BY DEF AddNode
<1>5. V \in SUBSET Int /\ AsConsumer(n) \in V /\ -n \in V
  <2>1. n \in Nat /\ Sentinel \in Nat
    BY LenProperties, YamlAssumption DEF GInv, NodesRight
  <2> QED BY <2>1 DEF NewEntries, AsConsumer
<1>6. /\ t.inports \in Seq(Ports) /\ t.outports \in Seq(Ports)
      /\ ToSet(t.inports) \subseteq ToSet(PortsOf(t))
      /\ ToSet(t.outports) \subseteq ToSet(PortsOf(t))
  <2>1. task \in DOMAIN yaml /\ yaml[task] \in Tasks /\ yaml \in Yamls
    BY <1>1, AddingFacts DEF Adding, PlaceRight
  <2> QED BY <2>1, YamlType DEF Tasks
<1>7. workflow_links \in Tables(V)
  BY DEF GInv, TableRight, Tables
<1>8. RangeAt(index) \in Ranges
  BY <1>1, RangeAtRight
<1>9. ins \in Accs(V)
  <2> HIDE DEF V, n
  <2> QED BY <1>1, <1>5, <1>6, <1>7, <1>8, AddPortsRight
<1>10. outs \in Accs(V)
  <2> HIDE DEF V, n, ins
  <2>1. ins.table \in Tables(V) /\ ins.range \in Ranges
    BY <1>9 DEF Accs
  <2> QED BY <1>1, <1>5, <1>6, <2>1, AddPortsRight
<1> HIDE DEF ins, outs
<1>11. ins = InsAdded(mins) /\ outs = OutsAdded(mins, mouts)
  BY DEF ins, outs, InsAdded, OutsAdded
<1>12. AddsNode(mins, mouts)
  BY <1>3, <1>4, <1>9, <1>10, <1>11 DEF NodeAdded, AddsNode
<1> QED BY <1>1, <1>12

(* The numbers of nodes grow.                                              *)
LEMMA NodesGrow ==
  ASSUME GInv, Adding, NEW V, NEW ins, NEW outs, NodeAdded(V, ins, outs)
  PROVE  /\ nodes \in Seq(Nodes) /\ nodes' \in Seq(Nodes)
         /\ Len(nodes) \in Nat /\ Len(nodes') = Len(nodes) + 1
         /\ DOMAIN nodes = 1 .. Len(nodes)
         /\ \A m \in DOMAIN nodes : nodes'[m] = nodes[m]
         /\ nodes'[Len(nodes) + 1] = NodeRecord(ins, outs)
         /\ NextRank \in Nat
         /\ \A m \in DOMAIN nodes :
              nodes[m].start_proc + nodes[m].nprocs <= NextRank
<1>1. nodes \in Seq(Nodes) /\ Len(nodes) \in Nat /\ DOMAIN nodes = 1 .. Len(nodes)
  BY LenProperties DEF GInv, NodesRight
<1>2. /\ NextRank \in Nat
      /\ \A m \in DOMAIN nodes :
            nodes[m].start_proc + nodes[m].nprocs <= NextRank
  <2>1. CASE nodes = <<>>
    BY <2>1 DEF NextRank
  <2>2. CASE nodes # <<>>
    <3> DEFINE l == Len(nodes)
    <3>1. l \in DOMAIN nodes /\ NextRank = nodes[l].start_proc + nodes[l].nprocs
      <4>1. l # 0
        BY <1>1, <2>2, EmptySeq
      <4> QED BY <1>1, <2>2, <4>1 DEF NextRank, Last
    <3>2. \A m \in DOMAIN nodes :
            nodes[m].start_proc \in Nat /\ nodes[m].nprocs \in Nat
      <4>1. \A m \in DOMAIN nodes : nodes[m] \in Nodes
        BY <1>1
      <4> QED BY <4>1 DEF Nodes
    <3>3. ASSUME NEW m \in DOMAIN nodes
          PROVE  nodes[m].start_proc + nodes[m].nprocs <= NextRank
      <4>1. CASE m = l
        BY <3>1, <3>2, <4>1
      <4>2. CASE m # l
        <5>1. m < l
          BY <1>1, <4>2
        <5>2. nodes[m].start_proc + nodes[m].nprocs <= nodes[l].start_proc
          BY <3>1, <5>1 DEF GInv, NodesRight
        <5> QED BY <3>1, <3>2, <5>2
      <4> QED BY <4>1, <4>2
    <3>4. NextRank \in Nat
      BY <3>1, <3>2
    <3> QED BY <3>3, <3>4
  <2> QED BY <2>1, <2>2
<1>3. NodeRecord(ins, outs) \in Nodes
  <2>1. ins.ports \in Seq(NodePorts(task, index))
        /\ outs.ports \in Seq(NodePorts(task, index))
    BY DEF NodeAdded, Accs
  <2> DEFINE P == NamedPorts
  <2>2. NodePorts(task, index) \subseteq P
    BY DEF NodePorts
  <2>3. ins.ports \in Seq(P) /\ outs.ports \in Seq(P)
    <3> HIDE DEF P
    <3> QED BY <2>1, <2>2, SeqMonotonic
  <2>4. yaml[task] \in Tasks /\ index \in Nat
    BY AddingFacts
  <2>5. Func(task, index) \in STRING \X Nat /\ yaml[task].nprocs \in Nat
    BY <2>4 DEF Func, Tasks
  <2> QED BY <1>2, <2>3, <2>5 DEF NodeRecord, Nodes
<1>4. nodes' = Append(nodes, NodeRecord(ins, outs))
  BY DEF NodeAdded
<1> DEFINE new == NodeRecord(ins, outs)
<1> HIDE DEF new
<1>5. /\ Append(nodes, new) \in Seq(Nodes)
      /\ Len(Append(nodes, new)) = Len(nodes) + 1
      /\ \A m \in 1 .. Len(nodes) : Append(nodes, new)[m] = nodes[m]
      /\ Append(nodes, new)[Len(nodes) + 1] = new
  <2>1. new \in Nodes
    BY <1>3 DEF new
  <2> QED BY <1>1, <2>1, AppendProperties
<1>6. nodes' = Append(nodes, new)
  BY <1>4 DEF new
<1> QED BY <1>1, <1>2, <1>5, <1>6 DEF new

(* The description never changes, and with it what depends on it alone.    *)
LEMMA YamlSame ==
  ASSUME yaml' = yaml
  PROVE  /\ FuncsApart' = FuncsApart
         /\ \A i, j : /\ Instances(i)' = Instances(i)
                      /\ NoRanges(i)' = NoRanges(i)
                      /\ Func(i, j)' = Func(i, j)
                      /\ NodePorts(i, j)' = NodePorts(i, j)
                      /\ \A node : NodeOf(i, j, node)' = NodeOf(i, j, node)
         /\ \A r, first : Fits(r, first)' = Fits(r, first)
<1>1. \A i, j : /\ Instances(i)' = Instances(i)
                /\ NoRanges(i)' = NoRanges(i)
                /\ Enough(i)' = Enough(i)
                /\ Func(i, j)' = Func(i, j)
  BY DEF Instances, NoRanges, Enough, Func
<1>2. \A i, j : NodePorts(i, j)' = NodePorts(i, j)
  <2>1. \A i, j, p : NamedFor(i, j, p)' = NamedFor(i, j, p)
    BY <1>1 DEF NamedFor
  <2> QED BY <2>1 DEF NodePorts
<1>3. \A i, j, node : NodeOf(i, j, node)' = NodeOf(i, j, node)
  BY <1>1, <1>2 DEF NodeOf
<1>4. \A r, first : Fits(r, first)' = Fits(r, first)
  BY <1>1 DEF Fits
<1> QED BY <1>1, <1>2, <1>3, <1>4 DEF FuncsApart

(* What file_range may be does not depend on the instance.                 *)
LEMMA RangesSame ==
  ASSUME yaml' = yaml, task' = task
  PROVE  Ranges' = Ranges
<1>1. /\ NoRanges(task)' = NoRanges(task)
      /\ \A r : Fits(r, task)' = Fits(r, task) /\ Fits(r, task + 1)' = Fits(r, task + 1)
  BY DEF NoRanges, Fits, Enough
<1> QED BY <1>1 DEF Ranges

(* Where the loops over tasks and instances go on.                         *)
LEMMA PlaceStep ==
  ASSUME GInv, Adding, NEW V, NEW ins, NEW outs, NodeAdded(V, ins, outs)
  PROVE  /\ PlaceRight'
         /\ \A i, j \in Nat : i < task \/ (i = task /\ j < index) =>
              i < task' \/ (i = task' /\ j < index')
         /\ task < task' \/ (task = task' /\ index < index')
<1>1. /\ task \in DOMAIN yaml /\ DOMAIN yaml = 1 .. Len(yaml) /\ Len(yaml) \in Nat
      /\ index \in Nat /\ index < yaml[task].taskCount
      /\ yaml[task].taskCount \in Nat
  BY AddingFacts, YamlType DEF Adding, PlaceRight
<1>2. /\ yaml' = yaml /\ phase' = phase /\ key' = key
      /\ file_range' \in Ranges
  BY DEF NodeAdded, Accs
<1>3. /\ yaml \in Yamls /\ phase \in {"nodes", "links", "done", "exit"}
      /\ key \in Paths \cup {0}
  BY DEF Adding, PlaceRight
<1>4. file_range' \in Seq(Int) /\ 1 .. Len(file_range') \subseteq Numbers
  <2>1. file_range' \in Seq(Numbers) /\ 1 .. Len(file_range') \subseteq Numbers
    BY <1>2 DEF Ranges
  <2> QED BY <2>1, PathAssumption, SeqMonotonic
<1>5. CASE index + 1 < yaml[task].taskCount
  <2>1. index' = index + 1 /\ task' = task
    BY <1>5 DEF NodeAdded
  <2>2. file_range' \in Ranges'
    BY <1>2, <2>1, RangesSame
  <2>3. index' # 0 /\ index' \in Nat
    BY <1>1, <2>1
  <2>4. PlaceRight'
    BY <1>1, <1>2, <1>3, <1>4, <1>5, <2>1, <2>2, <2>3 DEF PlaceRight
  <2>5. ASSUME NEW i \in Nat, NEW j \in Nat,
               i < task \/ (i = task /\ j < index)
        PROVE  i < task' \/ (i = task' /\ j < index')
    BY <1>1, <2>1, <2>5
  <2> QED BY <1>1, <2>1, <2>4, <2>5
<1>6. CASE ~(index + 1 < yaml[task].taskCount)
  <2>1. index' = 0 /\ task' = task + 1
    BY <1>6 DEF NodeAdded
  <2>2. Fits(file_range, task)'
    <3>1. Fits(file_range', task + 1)
      BY <1>2 DEF Ranges
    <3> QED BY <1>2, <2>1, <3>1 DEF Fits, Enough
  <2>3. task' \in 1 .. Len(yaml) + 1
    BY <1>1, <2>1
  <2>4. PlaceRight'
    BY <1>2, <1>3, <1>4, <2>1, <2>2, <2>3 DEF PlaceRight
  <2> QED BY <1>1, <2>1, <2>4
<1> QED BY <1>5, <1>6

(* The new node comes from the instance at hand.                           *)
LEMMA NodesStep ==
  ASSUME GInv, Adding, NEW V, NEW ins, NEW outs, NodeAdded(V, ins, outs)
  PROVE  NodesRight' /\ NamesDiffer'
<1> DEFINE l == Len(nodes) + 1
           new == NodeRecord(ins, outs)
<1>1. /\ nodes \in Seq(Nodes) /\ nodes' \in Seq(Nodes)
      /\ Len(nodes) \in Nat /\ Len(nodes') = l
      /\ DOMAIN nodes = 1 .. Len(nodes) /\ DOMAIN nodes' = 1 .. l
      /\ \A m \in DOMAIN nodes : nodes'[m] = nodes[m]
      /\ nodes'[l] = new
  BY NodesGrow, LenProperties
<1>2. \A m \in DOMAIN nodes' : m \in DOMAIN nodes \/ m = l
  BY <1>1
<1>3. yaml' = yaml /\ task \in DOMAIN yaml /\ index \in Nat
      /\ index < yaml[task].taskCount /\ yaml[task].taskCount \in Nat
  BY AddingFacts DEF NodeAdded
<1>4. NodeOf(task, index, new)
  BY DEF NodeOf, NodeRecord, NodeAdded, Accs
<1>5. ASSUME NEW n \in DOMAIN nodes
      PROVE  \E i \in DOMAIN yaml : \E j \in Instances(i) :
               /\ i < task \/ (i = task /\ j < index)
               /\ NodeOf(i, j, nodes[n])
  BY DEF GInv, NodesRight
<1>6. ASSUME NEW n \in DOMAIN nodes'
      PROVE  \E i \in DOMAIN yaml' : \E j \in Instances(i)' :
               /\ i < task' \/ (i = task' /\ j < index')
               /\ NodeOf(i, j, nodes[n])'
  <2>1. CASE n \in DOMAIN nodes
    <3>0. PICK i \in DOMAIN yaml : \E j \in Instances(i) :
                /\ i < task \/ (i = task /\ j < index)
                /\ NodeOf(i, j, nodes[n])
      BY <1>5, <2>1
    <3>1. PICK j \in Instances(i) :
                /\ i < task \/ (i = task /\ j < index)
                /\ NodeOf(i, j, nodes[n])
      BY <3>0
    <3>2. i < task' \/ (i = task' /\ j < index')
      <4>1. i \in Nat /\ j \in Nat
        BY YamlType DEF Adding, PlaceRight, Instances
      <4> QED BY <3>1, <4>1, PlaceStep
    <3>3. NodeOf(i, j, nodes[n])'
      BY <1>1, <1>3, <2>1, <3>1, YamlSame
    <3> QED BY <1>3, <3>2, <3>3, YamlSame
  <2>2. CASE n = l
    <3>1. index \in Instances(task)
      BY <1>3 DEF Instances
    <3>2. PICK i \in DOMAIN yaml : i = task
      BY <1>3
    <3>3. PICK j \in Instances(i) : j = index
      BY <3>1, <3>2
    <3>4. NodeOf(i, j, new)
      BY <1>4, <3>2, <3>3
    <3>5. NodeOf(i, j, nodes[n])'
      BY <1>1, <1>3, <2>2, <3>4, YamlSame
    <3>6. i < task' \/ (i = task' /\ j < index')
      BY <3>2, <3>3, PlaceStep
    <3> QED BY <1>3, <3>5, <3>6, YamlSame
  <2> QED BY <1>2, <2>1, <2>2
<1>7. ASSUME NEW m \in DOMAIN nodes', NEW n \in DOMAIN nodes', m < n
      PROVE  nodes'[m].start_proc + nodes'[m].nprocs <= nodes'[n].start_proc
  <2>1. m \in DOMAIN nodes /\ nodes'[m] = nodes[m]
    BY <1>1, <1>7
  <2>2. CASE n = l
    <3>1. nodes'[n].start_proc = NextRank
      BY <1>1, <2>2 DEF NodeRecord
    <3> QED BY <2>1, <3>1, NodesGrow
  <2>3. CASE n # l
    <3>1. n \in DOMAIN nodes /\ nodes'[n] = nodes[n]
      BY <1>1, <1>2, <2>3
    <3> QED BY <1>7, <2>1, <3>1 DEF GInv, NodesRight
  <2> QED BY <2>2, <2>3
<1>8. NodesRight'
  <2> HIDE DEF new, l
  <2> QED BY <1>1, <1>6, <1>7 DEF NodesRight
<1>9. ASSUME FuncsApart, NEW n \in DOMAIN nodes PROVE nodes[n].func # new.func
  <2>0. PICK i \in DOMAIN yaml : \E j \in Instances(i) :
              /\ i < task \/ (i = task /\ j < index)
              /\ NodeOf(i, j, nodes[n])
    BY <1>5
  <2>1. PICK j \in Instances(i) :
              /\ i < task \/ (i = task /\ j < index)
              /\ NodeOf(i, j, nodes[n])
    BY <2>0
  <2>2. nodes[n].func = Func(i, j) /\ new.func = Func(task, index)
    BY <2>1 DEF NodeOf, NodeRecord
  <2>3. SUFFICES ASSUME Func(i, j) = Func(task, index) PROVE FALSE
    BY <2>2
  <2>4. i = task
    BY <1>3, <1>9, <2>3 DEF FuncsApart, Func
  <2>5. /\ DOMAIN yaml = 1 .. Len(yaml) /\ Len(yaml) \in Nat
    BY YamlType DEF Adding, PlaceRight
  <2>6. j < index /\ j \in Nat
    BY <1>3, <2>1, <2>4, <2>5 DEF Instances
  <2>7. yaml[task].taskCount > 1
    BY <1>3, <2>6
  <2>8. j + 1 = index + 1
    BY <2>3, <2>4, <2>7 DEF Func
  <2> QED BY <1>3, <2>6, <2>8
<1>10. NamesDiffer'
  <2> HIDE DEF new, l
  <2>1. FuncsApart' = FuncsApart
    BY <1>3, YamlSame
  <2>2. FuncsApart => \A m, n \in DOMAIN nodes : nodes[m].func = nodes[n].func => m = n
    BY DEF GInv, NamesDiffer
  <2> QED BY <1>1, <1>2, <1>9, <2>1, <2>2 DEF NamesDiffer
<1> QED BY <1>8, <1>10

(* The entries and links are still of nodes there are.                     *)
LEMMA AddNodeStep ==
  ASSUME GInv, AddNode
  PROVE  GInv'
<1>0. PICK mins, mouts : AddsNode(mins, mouts)
  BY AddNodeAdds
<1> DEFINE ins == InsAdded(mins)
           outs == OutsAdded(mins, mouts)
<1>1. NodeAdded(NewEntries, ins, outs)
  BY <1>0 DEF AddsNode
<1>2. Adding
  BY AddNodeAdds
<1> HIDE DEF ins, outs
<1>3. PlaceRight' /\ NodesRight' /\ NamesDiffer'
  BY <1>1, <1>2, PlaceStep, NodesStep
<1>4. /\ Len(nodes) \in Nat /\ Len(nodes') = Len(nodes) + 1
      /\ DOMAIN nodes = 1 .. Len(nodes) /\ nodes' \in Seq(Nodes)
      /\ \A m \in DOMAIN nodes : nodes'[m] = nodes[m]
  BY <1>1, <1>2, NodesGrow
<1>5. /\ NodeIds = 0 .. Len(nodes) - 1 /\ NodeIds' = 0 .. Len(nodes)
      /\ nodes' # <<>>
  BY <1>4 DEF NodeIds
<1>6. ASSUME NEW w \in Int, Entered(w) PROVE Entered(w)'
  BY <1>4, <1>5, <1>6 DEF Entered
<1>7. ASSUME NEW w \in NewEntries PROVE Entered(w)'
  BY <1>4, <1>5 DEF NewEntries, AsConsumer, Entered
<1>8. TableRight'
  <2>1. workflow_links' \in Tables(NewEntries)
    BY <1>1 DEF NodeAdded, Accs
  <2>2. workflow_links' \in [Paths -> Seq(Int)]
    BY <2>1 DEF Tables
  <2>3. ASSUME NEW k \in Paths, NEW w \in ToSet(workflow_links'[k])
        PROVE  Entered(w)'
    <3>1. w \in Int
      BY <2>2 DEF ToSet
    <3>2. Entered(w) \/ w \in NewEntries
      BY <2>1 DEF Tables
    <3> QED BY <1>6, <1>7, <3>1, <3>2
  <2> QED BY <2>2, <2>3 DEF TableRight
<1>9. ASSUME NEW i \in DOMAIN links PROVE LinkRight(links[i])'
  <2>1. LinkRight(links[i])
    BY DEF GInv
  <2>2. links' = links
    BY <1>1 DEF NodeAdded
  <2>3. \A n \in NodeIds : n \in NodeIds' /\ Node(n)' = Node(n)
    BY <1>4, <1>5 DEF Node
  <2>4. \A ports, under : PolicyOf(ports, under)' = PolicyOf(ports, under)
    BY DEF PolicyOf
  <2>5. \A k, ports : Matching(k, ports)' = Matching(k, ports)
    BY DEF Matching
  <2> QED BY <2>1, <2>2, <2>3, <2>4, <2>5 DEF LinkRight
<1>10. links' = links
  BY <1>1 DEF NodeAdded
<1> QED BY <1>3, <1>8, <1>9, <1>10 DEF GInv, IsList

-----------------------------------------------------------------------------
(* Every other step keeps the instances, and what the nodes are.           *)
LEMMA NodesKept ==
  ASSUME GInv, UNCHANGED <<yaml, task, index, file_range, workflow_links>>,
         phase' \in {"nodes", "links", "done", "exit"}, key' \in Paths \cup {0},
         nodes' \in Seq(Nodes), Len(nodes') = Len(nodes),
         \A n \in DOMAIN nodes :
           /\ nodes'[n].func = nodes[n].func
           /\ nodes'[n].start_proc = nodes[n].start_proc
           /\ nodes'[n].nprocs = nodes[n].nprocs
           /\ nodes'[n].l5_inports = nodes[n].l5_inports
           /\ nodes'[n].l5_outports = nodes[n].l5_outports,
         IsList(links'), \A i \in DOMAIN links' : LinkRight(links'[i])
  PROVE  GInv'
<1>1. /\ nodes \in Seq(Nodes) /\ Len(nodes) \in Nat
      /\ DOMAIN nodes = 1 .. Len(nodes) /\ DOMAIN nodes' = DOMAIN nodes
  BY LenProperties DEF GInv, NodesRight
<1>2. yaml' = yaml /\ task' = task /\ index' = index
  OBVIOUS
<1>3. PlaceRight'
  <2>1. Ranges' = Ranges
    BY <1>2, RangesSame
  <2>2. \A r : Fits(r, task)' = Fits(r, task)
    BY <1>2 DEF Fits, Enough
  <2>3. Fits(file_range, task)' = Fits(file_range, task)
    BY <1>2, <2>2 DEF Fits, Enough
  <2> QED BY <1>2, <2>1, <2>3 DEF GInv, PlaceRight
<1>4. NodesRight'
  <2>1. ASSUME NEW n \in DOMAIN nodes'
        PROVE  \E i \in DOMAIN yaml' : \E j \in Instances(i)' :
                 /\ i < task' \/ (i = task' /\ j < index')
                 /\ NodeOf(i, j, nodes[n])'
    <3>1. PICK i \in DOMAIN yaml : \E j \in Instances(i) :
                /\ i < task \/ (i = task /\ j < index)
                /\ NodeOf(i, j, nodes[n])
      BY <1>1 DEF GInv, NodesRight
    <3>2. PICK j \in Instances(i) :
                /\ i < task \/ (i = task /\ j < index)
                /\ NodeOf(i, j, nodes[n])
      BY <3>1
    <3>3. NodeOf(i, j, nodes'[n])
      BY <1>1, <3>2 DEF NodeOf
    <3>4. NodeOf(i, j, nodes[n])'
      BY <1>2, <3>3, YamlSame
    <3> QED BY <1>2, <3>2, <3>4, YamlSame
  <2>2. \A m, n \in DOMAIN nodes' : m < n =>
          nodes'[m].start_proc + nodes'[m].nprocs <= nodes'[n].start_proc
    BY <1>1 DEF GInv, NodesRight
  <2> QED BY <2>1, <2>2 DEF NodesRight
<1>5. NamesDiffer'
  <2>1. FuncsApart' = FuncsApart
    BY <1>2, YamlSame
  <2> QED BY <1>1, <2>1 DEF GInv, NamesDiffer
<1>6. NodeIds' = NodeIds /\ (nodes # <<>> => nodes' # <<>>)
  <2>1. nodes # <<>> => nodes' # <<>>
    BY <1>1
  <2> QED BY <2>1 DEF NodeIds
<1>7. TableRight'
  <2>1. \A w : Entered(w) => Entered(w)'
    BY <1>6 DEF Entered
  <2> QED BY <2>1 DEF GInv, TableRight
<1>8. ASSUME NEW i \in DOMAIN links' PROVE LinkRight(links[i])'
  <2>1. LinkRight(links'[i])
    OBVIOUS
  <2>2. ASSUME NEW n \in NodeIds
        PROVE  /\ Node(n)'.func = Node(n).func
               /\ Node(n)'.l5_inports = Node(n).l5_inports
    <3>1. n + 1 \in DOMAIN nodes
      BY <1>1 DEF NodeIds
    <3> QED BY <3>1 DEF Node
  <2>3. \A ports, under : PolicyOf(ports, under)' = PolicyOf(ports, under)
    BY DEF PolicyOf
  <2>4. \A k, ports : Matching(k, ports)' = Matching(k, ports)
    BY DEF Matching
  <2> QED BY <1>6, <2>1, <2>2, <2>3, <2>4 DEF LinkRight
<1> QED BY <1>3, <1>4, <1>5, <1>7, <1>8 DEF GInv, IsList

(* The entries of a key are of nodes there are.                            *)
LEMMA EndsType ==
  ASSUME GInv, NEW k \in Paths
  PROVE  Producers(k) \in Seq(NodeIds) /\ Consumers(k) \in Seq(NodeIds)
<1> DEFINE list == workflow_links[k]
           cons == Taken(list, Nat \ {0}, {})
           prods == Taken(list, {v \in Int : v <= 0}, {})
<1>1. list \in Seq(Int) /\ \A v \in ToSet(list) : Entered(v)
  BY DEF GInv, TableRight
<1>2. Len(nodes) \in Nat /\ (nodes # <<>> => Len(nodes) # 0)
  <2>1. nodes \in Seq(Nodes)
    BY DEF GInv, NodesRight
  <2> QED BY <2>1, EmptySeq, LenProperties
<1> HIDE DEF list
<1>3. /\ cons \in Seq(Int) /\ prods \in Seq(Int)
      /\ \A v \in ToSet(cons) : v \in Nat \ {0} /\ v \in ToSet(list)
      /\ \A v \in ToSet(prods) : v \in {w \in Int : w <= 0} /\ v \in ToSet(list)
  BY <1>1, TakenProperties DEF TakesRight
<1> HIDE DEF cons, prods
<1>4. ASSUME NEW i \in DOMAIN cons
      PROVE  (IF cons[i] = Sentinel THEN 0 ELSE cons[i]) \in NodeIds
  <2>1. cons[i] \in ToSet(cons)
    BY DEF ToSet
  <2>2. cons[i] \in Nat \ {0} /\ Entered(cons[i])
    BY <1>1, <1>3, <2>1
  <2> QED BY <1>2, <2>2 DEF Entered, NodeIds
<1>5. ASSUME NEW i \in DOMAIN prods PROVE -prods[i] \in NodeIds
  <2>1. prods[i] \in ToSet(prods)
    BY DEF ToSet
  <2>2. prods[i] \in Int /\ prods[i] <= 0 /\ Entered(prods[i])
    BY <1>1, <1>3, <2>1
  <2>3. Sentinel \in Nat \ {0}
    BY YamlAssumption
  <2> QED BY <1>2, <2>2, <2>3 DEF Entered, NodeIds
<1>6. Consumers(k) = [i \in DOMAIN cons |->
                        IF cons[i] = Sentinel THEN 0 ELSE cons[i]]
  BY DEF Consumers, cons, list
<1>7. Producers(k) = [i \in DOMAIN prods |-> -prods[i]]
  BY DEF Producers, prods, list
<1>8. /\ DOMAIN cons = 1 .. Len(cons) /\ Len(cons) \in Nat
      /\ DOMAIN prods = 1 .. Len(prods) /\ Len(prods) \in Nat
  BY <1>3, LenProperties
<1>9. Consumers(k) \in Seq(NodeIds)
  BY <1>4, <1>6, <1>8
<1>10. Producers(k) \in Seq(NodeIds)
  BY <1>5, <1>7, <1>8
<1> QED BY <1>9, <1>10

(* Quotients of numbers of entries.                                        *)
LEMMA QuotientType ==
  ASSUME NEW n \in Nat, NEW p \in Nat \ {0}
  PROVE  n \div p \in Nat /\ (n >= p => n \div p # 0)
<1> DEFINE q == n \div p
           r == n % p
<1>1. q \in Int /\ r \in 0 .. p - 1 /\ n = p * q + r
  OBVIOUS
<1> HIDE DEF q, r
<1>2. q \in Nat
  <2> SUFFICES ASSUME q < 0 PROVE FALSE
    BY <1>1
  <2>1. ASSUME NEW a \in Nat \ {0} PROVE p * a >= p
    OBVIOUS
  <2>2. p * (-q) >= p /\ p * (-q) = r - n
    BY <1>1, <2>1
  <2> QED BY <1>1, <2>2
<1>3. n >= p => q # 0
  BY <1>1
<1> QED BY <1>2, <1>3 DEF q

(* The ports that a key may match.                                         *)
LEMMA MatchingType ==
  ASSUME NEW k, NEW ports, NEW under \in Matching(k, ports)
  PROVE  under \subseteq DOMAIN ports
<1> DEFINE results == [i \in DOMAIN ports |-> match(Name(k), Core(ports[i].name))]
<1>1. under \in Hits(results) /\ DOMAIN results = DOMAIN ports
  BY DEF Matching
<1> HIDE DEF results
<1> QED BY <1>1, HitsAre

(* The port of a link is one under the key, if there is one.               *)
LEMMA PortOfUnder ==
  ASSUME NEW S, NEW ports \in Seq(S), NEW under \in SUBSET DOMAIN ports, under # {}
  PROVE  \E i \in under : PortOf(ports, under) = ports[i] /\ i = Max(under)
<1>1. PortOf(ports, under) = ports[Max(under)]
  BY DEF PortOf
<1>2. under \in SUBSET (0 .. Len(ports)) /\ Len(ports) \in Nat
  BY LenProperties
<1>3. PICK m \in under : \A h \in under : h <= m
  BY <1>2, GreatestNumber
<1>4. \A h \in under : h \in Int
  BY <1>2
<1>5. \A h \in under : m >= h
  BY <1>3, <1>4
<1>6. Max(under) \in under
  BY <1>5 DEF Max
<1> QED BY <1>1, <1>6

(* The instance that a node is of.                                         *)
InstanceAt(n, i, j) ==
  /\ i \in DOMAIN yaml /\ j \in Instances(i)
  /\ NodeOf(i, j, Node(n))

LEMMA NodeIsInstance ==
  ASSUME GInv, NEW n \in NodeIds
  PROVE  /\ n + 1 \in DOMAIN nodes /\ Node(n) \in Nodes
         /\ \E i, j : InstanceAt(n, i, j)
<1>1. /\ nodes \in Seq(Nodes) /\ Len(nodes) \in Nat /\ DOMAIN nodes = 1 .. Len(nodes)
  BY LenProperties DEF GInv, NodesRight
<1>2. n + 1 \in DOMAIN nodes
  BY <1>1 DEF NodeIds
<1>3. Node(n) \in Nodes
  BY <1>1, <1>2 DEF Node
<1>4. PICK i \in DOMAIN yaml : \E j \in Instances(i) : NodeOf(i, j, nodes[n + 1])
  BY <1>2 DEF GInv, NodesRight
<1>5. PICK j \in Instances(i) : NodeOf(i, j, nodes[n + 1])
  BY <1>4
<1>6. InstanceAt(n, i, j)
  BY <1>5 DEF InstanceAt, Node
<1> QED BY <1>2, <1>3, <1>6

(* A port of a node, or none: it has a mode.                               *)
LEMMA PortOfRight ==
  ASSUME GInv, NEW n \in NodeIds,
         NEW ports \in {Node(n).l5_inports, Node(n).l5_outports},
         NEW under \in SUBSET DOMAIN ports
  PROVE  /\ PortOf(ports, under).passthru \in BOOLEAN
         /\ PortOf(ports, under).metadata \in BOOLEAN
         /\ PortOf(ports, under).passthru \/ PortOf(ports, under).metadata
<1>1. CASE under = {}
  BY <1>1 DEF PortOf, NoPort
<1>2. CASE under # {}
  <2>1. PICK i, j : InstanceAt(n, i, j)
    BY NodeIsInstance
  <2>2. ports \in Seq(NodePorts(i, j))
    BY <2>1 DEF InstanceAt, NodeOf
  <2>3. PICK m \in under : PortOf(ports, under) = ports[m]
    BY <1>2, <2>2, PortOfUnder
  <2>4. ports[m] \in NodePorts(i, j)
    BY <2>2
  <2> QED BY <2>3, <2>4 DEF NodePorts, NamedPorts
<1> QED BY <1>1, <1>2

(* A link between two nodes is right.                                      *)
LEMMA LinkIsRight ==
  ASSUME GInv, NEW k \in Paths, NEW ends, ends.prod \in NodeIds, ends.con \in NodeIds,
         NEW hits \in PortHits(k, ends)
  PROVE  LinkRight(Link(k, ends, hits))
<1> DEFINE ins == Node(ends.con).l5_inports
           outs == Node(ends.prod).l5_outports
           in == PortOf(ins, hits.ins)
           out == PortOf(outs, hits.outs)
           link == Link(k, ends, hits)
<1>1. hits.ins \in Matching(k, ins) /\ hits.outs \in Matching(k, outs)
  BY DEF PortHits
<1>2. hits.ins \subseteq DOMAIN ins /\ hits.outs \subseteq DOMAIN outs
  BY <1>1, MatchingType
<1>3. /\ in.passthru \in BOOLEAN /\ in.metadata \in BOOLEAN
      /\ in.passthru \/ in.metadata
  BY <1>2, PortOfRight
<1>4. /\ out.passthru \in BOOLEAN /\ out.metadata \in BOOLEAN
      /\ out.passthru \/ out.metadata
  BY <1>2, PortOfRight
<1> DEFINE mode == Mode(in, out)
<1>5. /\ link.prod = ends.prod /\ link.con = ends.con
      /\ link.execGroup = <<Node(ends.prod).func, Node(ends.con).func>>
      /\ link.in = mode /\ link.key = k
      /\ link.flow_policy = PolicyOf(ins, hits.ins)
      /\ link.out.passthru = out.passthru
      /\ link.out.metadata = out.metadata
  BY DEF Link, PolicyOf
<1> HIDE DEF in, out
<1>6. /\ mode.passthru \/ mode.metadata
      /\ mode.passthru => out.passthru
      /\ mode.metadata => out.metadata
  BY <1>3, <1>4 DEF Mode
<1> HIDE DEF mode, link
<1>7. \E under \in Matching(link.key, Node(link.con).l5_inports) :
        link.flow_policy = PolicyOf(Node(link.con).l5_inports, under)
  BY <1>1, <1>5
<1> QED BY <1>5, <1>6, <1>7 DEF LinkRight, link

(* A list of links followed by another.                                    *)
LEMMA ListsJoin ==
  ASSUME NEW s, NEW u, IsList(s), IsList(u)
  PROVE  /\ IsList(s \o u)
         /\ \A i \in DOMAIN (s \o u) :
              \/ \E j \in DOMAIN s : (s \o u)[i] = s[j]
              \/ \E j \in DOMAIN u : (s \o u)[i] = u[j]
<1> DEFINE S == ToSet(s) \cup ToSet(u)
<1>1. s \in Seq(S) /\ u \in Seq(S)
  <2> DEFINE A == ToSet(s)
             B == ToSet(u)
  <2>1. s \in Seq(A) /\ u \in Seq(B)
    BY DEF IsList
  <2> HIDE DEF A, B
  <2>2. s \in Seq(A \cup B) /\ u \in Seq(A \cup B)
    BY <2>1
  <2> QED BY <2>2 DEF A, B
<1> HIDE DEF S
<1>2. s \o u \in Seq(S) /\ ToSet(s \o u) = ToSet(s) \cup ToSet(u)
  BY <1>1, ConcatElements, ConcatProperties
<1>3. s \o u \in Seq(ToSet(s \o u))
  BY <1>2 DEF S
<1>4. ASSUME NEW i \in DOMAIN (s \o u)
      PROVE  \/ \E j \in DOMAIN s : (s \o u)[i] = s[j]
             \/ \E j \in DOMAIN u : (s \o u)[i] = u[j]
  <2>1. (s \o u)[i] \in ToSet(s \o u)
    BY DEF ToSet
  <2> QED BY <1>2, <2>1 DEF ToSet
<1> QED BY <1>3, <1>4 DEF IsList

(* The two lists of a key, and the places in the shorter one.              *)
LEMMA ListsType ==
  ASSUME GInv, NEW k \in Paths
  PROVE  /\ LongerList(k) \in Seq(NodeIds) /\ ShorterList(k) \in Seq(NodeIds)
         /\ DOMAIN LongerList(k) = 1 .. Len(LongerList(k))
         /\ DOMAIN ShorterList(k) = 1 .. Len(ShorterList(k))
         /\ Len(LongerList(k)) \in Nat /\ Len(ShorterList(k)) \in Nat
         /\ Len(LongerList(k)) >= Len(ShorterList(k))
<1>1. Producers(k) \in Seq(NodeIds) /\ Consumers(k) \in Seq(NodeIds)
  BY EndsType
<1>2. /\ Len(Producers(k)) \in Nat /\ Len(Consumers(k)) \in Nat
      /\ DOMAIN Producers(k) = 1 .. Len(Producers(k))
      /\ DOMAIN Consumers(k) = 1 .. Len(Consumers(k))
  BY <1>1, LenProperties
<1> QED BY <1>1, <1>2 DEF LongerList, ShorterList, ByCon

LEMMA PlaceOfType ==
  ASSUME GInv, NEW k \in Paths, Producers(k) # <<>>, Consumers(k) # <<>>,
         NEW i \in DOMAIN LongerList(k)
  PROVE  PlaceOf(k, i) \in Nat \ {0}
<1> DEFINE l == Len(LongerList(k))
           s == Len(ShorterList(k))
           q == l \div s
<1>1. l \in Nat /\ s \in Nat /\ l >= s /\ i \in 1 .. l
  BY ListsType
<1>2. s # 0
  <2>1. ShorterList(k) # <<>>
    BY DEF ShorterList
  <2> QED BY <2>1, ListsType, EmptySeq
<1>3. q \in Nat \ {0}
  <2> HIDE DEF l, s
  <2> QED BY <1>1, <1>2, QuotientType
<1>4. i - 1 \in Nat
  BY <1>1
<1>5. PlaceOf(k, i) = (i - 1) \div q + 1
  BY DEF PlaceOf, Partner
<1> HIDE DEF q, l, s
<1>6. (i - 1) \div q \in Nat
  BY <1>3, <1>4, QuotientType
<1> QED BY <1>5, <1>6

(* The ends of the links of a key, and their links.                        *)
EndsOf(k, junk) == [i \in DOMAIN LongerList(k) |-> Ends(k, i, junk)]

LinksOf(k, ends, hits) == [i \in DOMAIN ends |-> Link(k, ends[i], hits[i])]

HitsOf(k, ends) == OneOfEach([i \in DOMAIN ends |-> PortHits(k, ends[i])])

LEMMA EndsThere ==
  ASSUME GInv, NEW k \in Paths, Producers(k) # <<>>, Consumers(k) # <<>>,
         NEW junk \in [Past(k) -> NodeIds], NEW i \in DOMAIN LongerList(k)
  PROVE  Ends(k, i, junk).prod \in NodeIds /\ Ends(k, i, junk).con \in NodeIds
<1>1. i \notin Past(k) => PlaceOf(k, i) \in DOMAIN ShorterList(k)
  BY ListsType, PlaceOfType DEF Past
<1>2. LongerList(k)[i] \in NodeIds
  BY ListsType
<1>3. i \notin Past(k) => ShorterList(k)[PlaceOf(k, i)] \in NodeIds
  BY <1>1, ListsType
<1>4. i \in Past(k) => junk[i] \in NodeIds
  OBVIOUS
<1> QED BY <1>2, <1>3, <1>4 DEF Ends

(* The step that goes through a key with both ends.                        *)
Linked(k, junk, hits) ==
  /\ \A i \in DOMAIN LongerList(k) : Cuttable(Ends(k, i, junk))
  /\ hits \in HitsOf(k, EndsOf(k, junk))
  /\ links' = links \o LinksOf(k, EndsOf(k, junk), hits)
  /\ phase' = phase

LEMMA GenerateLinksDoes ==
  ASSUME NEW k, GenerateLinks(k)
  PROVE  /\ Producers(k) # <<>> /\ Consumers(k) # <<>> /\ key' = k
         /\ UNCHANGED <<yaml, task, index, file_range, nodes, workflow_links>>
         /\ \E junk \in [Past(k) -> NodeIds] :
              \/ \E hits : Linked(k, junk, hits)
              \/ /\ \/ \E i \in DOMAIN LongerList(k) : ~Cuttable(Ends(k, i, junk))
                    \/ Past(k) # {}
                 /\ phase' = "exit" /\ links' = links
<1>1. PICK junk \in [Past(k) -> NodeIds] :
        LET ends == [i \in DOMAIN LongerList(k) |-> Ends(k, i, junk)]
            cut  == \A i \in DOMAIN ends : Cuttable(ends[i])
        IN \/ /\ cut
              /\ \E hits \in OneOfEach([i \in DOMAIN ends |-> PortHits(k, ends[i])]) :
                   links' = links \o [i \in DOMAIN ends |-> Link(k, ends[i], hits[i])]
              /\ UNCHANGED phase
           \/ /\ ~cut \/ Past(k) # {}
              /\ phase' = "exit"
              /\ UNCHANGED links
  BY DEF GenerateLinks
<1> DEFINE ends == EndsOf(k, junk)
<1>2. /\ DOMAIN ends = DOMAIN LongerList(k)
      /\ \A i \in DOMAIN ends : ends[i] = Ends(k, i, junk)
  BY DEF EndsOf
<1>3. \/ /\ \A i \in DOMAIN ends : Cuttable(ends[i])
         /\ \E hits \in HitsOf(k, ends) : links' = links \o LinksOf(k, ends, hits)
         /\ phase' = phase
      \/ /\ ~(\A i \in DOMAIN ends : Cuttable(ends[i])) \/ Past(k) # {}
         /\ phase' = "exit" /\ links' = links
  BY <1>1 DEF EndsOf, HitsOf, LinksOf
<1> HIDE DEF ends
<1>4. \/ \E hits : Linked(k, junk, hits)
      \/ /\ \/ \E i \in DOMAIN LongerList(k) : ~Cuttable(Ends(k, i, junk))
            \/ Past(k) # {}
         /\ phase' = "exit" /\ links' = links
  BY <1>2, <1>3 DEF Linked, ends
<1> QED BY <1>4 DEF GenerateLinks

LEMMA LinksOfRight ==
  ASSUME GInv, NEW k \in Paths, Producers(k) # <<>>, Consumers(k) # <<>>,
         NEW junk \in [Past(k) -> NodeIds], NEW hits \in HitsOf(k, EndsOf(k, junk))
  PROVE  LET u == LinksOf(k, EndsOf(k, junk), hits)
         IN /\ IsList(u) /\ DOMAIN u = 1 .. Len(LongerList(k))
            /\ Len(u) = Len(LongerList(k))
            /\ \A i \in DOMAIN u :
                 /\ hits[i] \in PortHits(k, Ends(k, i, junk))
                 /\ u[i] = Link(k, Ends(k, i, junk), hits[i])
                 /\ LinkRight(u[i])
<1> DEFINE ends == EndsOf(k, junk)
           u == LinksOf(k, ends, hits)
           sets == [i \in DOMAIN ends |-> PortHits(k, ends[i])]
<1>1. /\ DOMAIN ends = 1 .. Len(LongerList(k)) /\ Len(LongerList(k)) \in Nat
      /\ \A i \in DOMAIN ends : ends[i] = Ends(k, i, junk)
  BY ListsType DEF EndsOf
<1>2. \A i \in DOMAIN ends : hits[i] \in PortHits(k, ends[i])
  <2>1. hits \in OneOfEach(sets) /\ DOMAIN sets = DOMAIN ends
        /\ \A i \in DOMAIN ends : sets[i] = PortHits(k, ends[i])
    BY DEF HitsOf
  <2> HIDE DEF sets, ends
  <2> QED BY <2>1, OneOfEachPicks
<1>3. /\ DOMAIN u = 1 .. Len(LongerList(k))
      /\ u = [i \in 1 .. Len(LongerList(k)) |-> u[i]]
      /\ \A i \in DOMAIN u : u[i] = Link(k, ends[i], hits[i])
  <2> HIDE DEF ends
  <2> QED BY <1>1 DEF LinksOf
<1> HIDE DEF u, ends, sets
<1>4. ASSUME NEW i \in DOMAIN u
      PROVE  /\ hits[i] \in PortHits(k, Ends(k, i, junk))
             /\ u[i] = Link(k, Ends(k, i, junk), hits[i])
             /\ LinkRight(u[i])
  <2>1. i \in DOMAIN ends /\ i \in DOMAIN LongerList(k) /\ ends[i] = Ends(k, i, junk)
    BY <1>1, <1>3, ListsType
  <2>2. hits[i] \in PortHits(k, Ends(k, i, junk)) /\ u[i] = Link(k, Ends(k, i, junk), hits[i])
    BY <1>2, <1>3, <2>1
  <2>3. Ends(k, i, junk).prod \in NodeIds /\ Ends(k, i, junk).con \in NodeIds
    BY <2>1, EndsThere
  <2>4. LinkRight(Link(k, Ends(k, i, junk), hits[i]))
    BY <2>2, <2>3, LinkIsRight
  <2> QED BY <2>2, <2>4
<1>5. u \in [1 .. Len(LongerList(k)) -> ToSet(u)]
  <2>1. \A i \in 1 .. Len(LongerList(k)) : u[i] \in ToSet(u)
    BY <1>3 DEF ToSet
  <2> QED BY <1>3, <2>1
<1>6. IsList(u) /\ Len(u) = Len(LongerList(k))
  <2>1. u \in Seq(ToSet(u))
    BY <1>1, <1>5, SeqDef
  <2> QED BY <1>1, <1>3, <2>1, LenProperties DEF IsList
<1> QED BY <1>3, <1>4, <1>6 DEF u, ends

(* The links of a key.                                                     *)
LEMMA GenerateLinksStep ==
  ASSUME GInv, NEW k \in Paths, GenerateLinks(k)
  PROVE  GInv'
<1>1. /\ Producers(k) # <<>> /\ Consumers(k) # <<>> /\ key' = k
      /\ UNCHANGED <<yaml, task, index, file_range, nodes, workflow_links>>
  BY GenerateLinksDoes
<1>2. PICK junk \in [Past(k) -> NodeIds] :
        (\E hits : Linked(k, junk, hits)) \/ (phase' = "exit" /\ links' = links)
  BY GenerateLinksDoes
<1>3. ASSUME NEW i \in DOMAIN links PROVE LinkRight(links[i])
  BY DEF GInv
<1>4. IsList(links)
  BY DEF GInv
<1>5. IsList(links') /\ \A i \in DOMAIN links' : LinkRight(links'[i])
  <2>1. CASE links' = links
    BY <1>3, <1>4, <2>1
  <2>2. ASSUME NEW hits, Linked(k, junk, hits)
        PROVE  IsList(links') /\ \A i \in DOMAIN links' : LinkRight(links'[i])
    <3> DEFINE u == LinksOf(k, EndsOf(k, junk), hits)
    <3>1. links' = links \o u /\ hits \in HitsOf(k, EndsOf(k, junk))
      BY <2>2 DEF Linked
    <3>2. IsList(u) /\ \A i \in DOMAIN u : LinkRight(u[i])
      BY <1>1, <3>1, LinksOfRight
    <3> HIDE DEF u
    <3>3. ASSUME NEW i \in DOMAIN links' PROVE LinkRight(links'[i])
      <4>1. \/ \E j \in DOMAIN links : links'[i] = links[j]
            \/ \E j \in DOMAIN u : links'[i] = u[j]
        BY <1>4, <3>1, <3>2, ListsJoin
      <4> QED BY <1>3, <3>2, <4>1
    <3> QED BY <1>4, <3>1, <3>2, <3>3, ListsJoin
  <2> QED BY <1>2, <2>1, <2>2
<1>6. phase' \in {"nodes", "links", "done", "exit"} /\ key' \in Paths \cup {0}
  <2>1. phase' = phase \/ phase' = "exit"
    BY <1>2 DEF Linked
  <2> QED BY <1>1, <2>1 DEF GInv, PlaceRight
<1>7. nodes' = nodes /\ nodes' \in Seq(Nodes)
  BY <1>1 DEF GInv, NodesRight
<1> QED BY <1>1, <1>5, <1>6, <1>7, NodesKept

(* The files on disk of a key: ports of the nodes under it.                *)
LEMMA OnDiskIs ==
  ASSUME NEW k, NEW ports, NEW S \in OnDisk(k, ports)
  PROVE  /\ S \subseteq ToSet(ports)
         /\ \A p \in ToSet(ports) :
              /\ p \in S => TRUE \in match(Name(k), p.name)
              /\ p \notin S => FALSE \in match(Name(k), p.name)
<1> DEFINE results == [p \in ToSet(ports) |-> match(Name(k), p.name)]
<1>1. /\ S \in Hits(results) /\ DOMAIN results = ToSet(ports)
      /\ \A p \in ToSet(ports) : results[p] = match(Name(k), p.name)
  BY DEF OnDisk
<1> HIDE DEF results
<1> QED BY <1>1, HitsAre

LEMMA UnlinkedIs ==
  ASSUME NEW k, NEW files \in Unlinked(k)
  PROVE  /\ DOMAIN files = ToSet(IF Producers(k) = <<>> THEN Consumers(k) ELSE Producers(k))
         /\ \A n \in DOMAIN files :
              files[n] \in OnDisk(k, IF Producers(k) = <<>> THEN Node(n).l5_inports
                                                            ELSE Node(n).l5_outports)
<1>1. CASE Producers(k) = <<>>
  <2> DEFINE sets == [n \in ToSet(Consumers(k)) |-> OnDisk(k, Node(n).l5_inports)]
  <2>1. /\ files \in OneOfEach(sets) /\ DOMAIN sets = ToSet(Consumers(k))
        /\ \A n \in ToSet(Consumers(k)) : sets[n] = OnDisk(k, Node(n).l5_inports)
    BY <1>1 DEF Unlinked
  <2> HIDE DEF sets
  <2> QED BY <1>1, <2>1, OneOfEachPicks
<1>2. CASE Producers(k) # <<>>
  <2> DEFINE sets == [n \in ToSet(Producers(k)) |-> OnDisk(k, Node(n).l5_outports)]
  <2>1. /\ files \in OneOfEach(sets) /\ DOMAIN sets = ToSet(Producers(k))
        /\ \A n \in ToSet(Producers(k)) : sets[n] = OnDisk(k, Node(n).l5_outports)
    BY <1>2 DEF Unlinked
  <2> HIDE DEF sets
  <2> QED BY <1>2, <2>1, OneOfEachPicks
<1> QED BY <1>1, <1>2

(* Files on disk are noted at the nodes there are.                         *)
Noted(files, i) == {p.name : p \in files[i - 1]}

LEMMA PassthruStep ==
  ASSUME GInv, NEW k \in Paths, AddPassthruFiles(k)
  PROVE  GInv'
<1>1. PICK files \in Unlinked(k) :
        nodes' = [i \in DOMAIN nodes |->
            IF i - 1 \in DOMAIN files
            THEN [nodes[i] EXCEPT !.passthru_files = @ \cup Noted(files, i)]
            ELSE nodes[i]]
  BY DEF AddPassthruFiles, Noted
<1>2. /\ key' = k
      /\ UNCHANGED <<yaml, phase, task, index, file_range, workflow_links, links>>
  BY DEF AddPassthruFiles
<1>3. /\ nodes \in Seq(Nodes) /\ Len(nodes) \in Nat
      /\ DOMAIN nodes = 1 .. Len(nodes) /\ \A i \in DOMAIN nodes : nodes[i] \in Nodes
  BY LenProperties DEF GInv, NodesRight
<1>4. ASSUME NEW i \in DOMAIN nodes, i - 1 \in DOMAIN files
      PROVE  Noted(files, i) \in SUBSET AllNames
  <2>1. Node(i - 1) = nodes[i]
    <3>1. (i - 1) + 1 = i
      BY <1>3
    <3> QED BY <3>1 DEF Node
  <2>2. \/ files[i - 1] \in OnDisk(k, nodes[i].l5_inports)
        \/ files[i - 1] \in OnDisk(k, nodes[i].l5_outports)
    BY <1>4, <2>1, UnlinkedIs
  <2>3. nodes[i].l5_inports \in Seq(NamedPorts) /\ nodes[i].l5_outports \in Seq(NamedPorts)
    BY <1>3 DEF Nodes
  <2>4. /\ ToSet(nodes[i].l5_inports) \subseteq NamedPorts
        /\ ToSet(nodes[i].l5_outports) \subseteq NamedPorts
    BY <2>3, LenProperties, ElementOfSeq DEF ToSet
  <2>5. files[i - 1] \subseteq NamedPorts
    BY <2>2, <2>4, OnDiskIs
  <2>6. \A p \in NamedPorts : p.name \in AllNames
    BY DEF NamedPorts
  <2> QED BY <2>5, <2>6 DEF Noted
<1> HIDE DEF Noted
<1>5. ASSUME NEW i \in DOMAIN nodes
      PROVE  /\ nodes'[i] \in Nodes
             /\ nodes'[i].func = nodes[i].func
             /\ nodes'[i].start_proc = nodes[i].start_proc
             /\ nodes'[i].nprocs = nodes[i].nprocs
             /\ nodes'[i].l5_inports = nodes[i].l5_inports
             /\ nodes'[i].l5_outports = nodes[i].l5_outports
  <2>1. CASE i - 1 \in DOMAIN files
    <3>1. nodes'[i] = [nodes[i] EXCEPT !.passthru_files = @ \cup Noted(files, i)]
      BY <1>1, <2>1
    <3>2. Noted(files, i) \in SUBSET AllNames /\ nodes[i] \in Nodes
      BY <1>3, <1>4, <2>1
    <3> QED BY <3>1, <3>2 DEF Nodes
  <2>2. CASE i - 1 \notin DOMAIN files
    BY <1>1, <1>3, <2>2
  <2> QED BY <2>1, <2>2
<1>6. DOMAIN nodes' = DOMAIN nodes /\ nodes' \in [1 .. Len(nodes) -> Nodes]
  <2>1. nodes' = [i \in DOMAIN nodes |-> nodes'[i]]
    BY <1>1
  <2> QED BY <1>3, <1>5, <2>1
<1>7. nodes' \in Seq(Nodes) /\ Len(nodes') = Len(nodes)
  BY <1>3, <1>6, SeqDef, LenProperties
<1>8. IsList(links') /\ \A i \in DOMAIN links' : LinkRight(links'[i])
  BY <1>2 DEF GInv
<1>9. phase' \in {"nodes", "links", "done", "exit"} /\ key' \in Paths \cup {0}
  BY <1>2 DEF GInv, PlaceRight
<1> QED BY <1>2, <1>5, <1>7, <1>8, <1>9, NodesKept

(* Steps that only go on to the next phase, or give up.                    *)
LEMMA PhaseStep ==
  ASSUME GInv, phase' \in {"nodes", "links", "done", "exit"},
         UNCHANGED <<yaml, task, index, file_range, nodes, workflow_links, key,
                     links>>
  PROVE  GInv'
<1>1. nodes' \in Seq(Nodes) /\ key' \in Paths \cup {0}
  BY DEF GInv, NodesRight, PlaceRight
<1>2. IsList(links') /\ \A i \in DOMAIN links' : LinkRight(links'[i])
  BY DEF GInv
<1> QED BY <1>1, <1>2, NodesKept

(* Every step keeps the invariant, and the first state has it.             *)
LEMMA GInvNext == GInv /\ [Next]_vars => GInv'
<1> SUFFICES ASSUME GInv, [Next]_vars PROVE GInv'
  OBVIOUS
<1>1. CASE AddNode
  BY <1>1, AddNodeStep
<1>2. CASE RejectTask \/ AllNodes \/ AllLinks
  BY <1>2, PhaseStep DEF RejectTask, AllNodes, AllLinks
<1>3. ASSUME NEW k \in Paths, AddPassthruFiles(k) PROVE GInv'
  BY <1>3, PassthruStep
<1>4. ASSUME NEW k \in Paths, RejectUnlinked(k) PROVE GInv'
  BY <1>4, PhaseStep DEF RejectUnlinked
<1>5. ASSUME NEW k \in Paths, GenerateLinks(k) PROVE GInv'
  BY <1>5, GenerateLinksStep
<1>6. CASE UNCHANGED vars
  <2>1. phase' \in {"nodes", "links", "done", "exit"}
    BY <1>6 DEF GInv, PlaceRight, vars
  <2> QED BY <1>6, <2>1, PhaseStep DEF vars
<1> QED BY <1>1, <1>2, <1>3, <1>4, <1>5, <1>6 DEF Next

LEMMA GInvInit == Init => GInv
<1> SUFFICES ASSUME Init PROVE GInv
  OBVIOUS
<1>1. Len(yaml) \in Nat
  BY YamlType DEF Init
<1>2. PlaceRight
  <2>1. MaxInstances \in Nat /\ 1 .. MaxInstances \subseteq Numbers
    BY YamlAssumption
  <2>2. file_range \in [1 .. MaxInstances -> Int]
    BY DEF Init
  <2>3. file_range \in Seq(Int) /\ Len(file_range) = MaxInstances
    BY <2>1, <2>2, SeqDef, LenProperties
  <2>4. Fits(file_range, task)
    BY <2>3 DEF Fits, Enough
  <2> QED BY <1>1, <2>1, <2>3, <2>4 DEF Init, PlaceRight
<1>3. NodesRight /\ NamesDiffer
  BY DEF Init, NodesRight, NamesDiffer
<1>4. TableRight
  <2>1. \A k \in Paths : workflow_links[k] = <<>> /\ ToSet(workflow_links[k]) = {}
    BY DEF Init, ToSet
  <2>2. workflow_links \in [Paths -> Seq(Int)]
    BY DEF Init
  <2> QED BY <2>1, <2>2 DEF TableRight
<1>5. IsList(links) /\ \A i \in DOMAIN links : LinkRight(links[i])
  BY DEF Init, IsList
<1> QED BY <1>2, <1>3, <1>4, <1>5 DEF GInv

-----------------------------------------------------------------------------
(* Every entry of a key, and both ends of every link, are nodes there are, *)
(* whatever the numbers of instances, also where generateLinks goes past   *)
(* the end of a vector and yields any node.                                *)
THEOREM TypeCorrect == Spec => []TypeOK
<1>1. GInv => TypeOK
  BY DEF GInv, TypeOK, PlaceRight, TableRight, Entered, LinkRight
<1> QED BY <1>1, GInvInit, GInvNext, PTL DEF Spec

(* The consumer of a link expects no mode that its producer does not       *)
(* provide, and has one, in every description.                             *)
THEOREM ModesAgreeCorrect == Spec => []ModesAgree
<1>1. GInv => ModesAgree
  BY DEF GInv, ModesAgree, LinkRight
<1> QED BY <1>1, GInvInit, GInvNext, PTL DEF Spec

(* In every description whose tasks have funcs of their own, an execution  *)
(* group has one producer and one consumer, and nodes share no rank: what  *)
(* Intercomms assumes of its constants.                                    *)
THEOREM EndsApartCorrect == Spec => []EndsApart
<1>1. GInv => EndsApart
  <2> SUFFICES ASSUME GInv, FuncsApart
               PROVE  /\ \A i, j \in DOMAIN links :
                           links[i].execGroup = links[j].execGroup =>
                             /\ links[i].prod = links[j].prod
                             /\ links[i].con = links[j].con
                      /\ \A m, n \in NodeIds : m < n =>
                           Node(m).start_proc + Node(m).nprocs
                             <= Node(n).start_proc
    BY DEF EndsApart, FuncsApart
  <2>1. /\ nodes \in Seq(Nodes) /\ Len(nodes) \in Nat
        /\ DOMAIN nodes = 1 .. Len(nodes)
    BY LenProperties DEF GInv, NodesRight
  <2>2. \A n \in NodeIds : n \in Int /\ n + 1 \in DOMAIN nodes
    BY <2>1 DEF NodeIds
  <2>3. ASSUME NEW m \in NodeIds, NEW n \in NodeIds, Node(m).func = Node(n).func
        PROVE  m = n
    <3>1. m + 1 = n + 1
      BY <2>2, <2>3 DEF GInv, NamesDiffer, Node
    <3> QED BY <2>2, <3>1
  <2>4. ASSUME NEW i \in DOMAIN links, NEW j \in DOMAIN links,
               links[i].execGroup = links[j].execGroup
        PROVE  links[i].prod = links[j].prod /\ links[i].con = links[j].con
    <3>1. LinkRight(links[i]) /\ LinkRight(links[j])
      BY DEF GInv
    <3> DEFINE a == Node(links[i].prod).func
               b == Node(links[i].con).func
               c == Node(links[j].prod).func
               d == Node(links[j].con).func
    <3>2. a = c /\ b = d
      <4>1. links[i].execGroup = <<a, b>> /\ links[j].execGroup = <<c, d>>
        BY <3>1 DEF LinkRight
      <4> HIDE DEF a, b, c, d
      <4>2. <<a, b>> = <<c, d>>
        BY <2>4, <4>1
      <4> QED BY <4>2
    <3> QED BY <2>3, <3>1, <3>2 DEF LinkRight
  <2>5. ASSUME NEW m \in NodeIds, NEW n \in NodeIds, m < n
        PROVE  Node(m).start_proc + Node(m).nprocs <= Node(n).start_proc
    <3>1. m + 1 < n + 1
      BY <2>2, <2>5
    <3> QED BY <2>2, <3>1 DEF GInv, NodesRight, Node
  <2> QED BY <2>4, <2>5
<1> QED BY <1>1, GInvInit, GInvNext, PTL DEF Spec

(* A task without ranges numbers the files of its instances from 1, also   *)
(* after tasks with ranges, with any number of ports and instances for     *)
(* which file_range has places (Enough), in every description whose tasks  *)
(* have funcs of their own.                                                *)
THEOREM DefaultNumbersCorrect ==
  ASSUME \A y \in Yamls : \A i, j \in DOMAIN y : y[i].func = y[j].func => i = j
  PROVE  Spec => []DefaultNumbers
<1>1. GInv => DefaultNumbers
  <2> SUFFICES ASSUME GInv, NEW i \in DOMAIN yaml,
                      NoRanges(i), Enough(i), yaml[i].taskCount > 1,
                      NEW n \in NodeIds, Node(n).func[1] = yaml[i].func,
                      NEW p \in ToSet(Node(n).l5_inports \o Node(n).l5_outports)
               PROVE  p.name = InstName(p.path, Node(n).func[2])
    BY DEF DefaultNumbers
  <2>1. PICK h, j : InstanceAt(n, h, j)
    BY NodeIsInstance
  <2>2. /\ Node(n).func = Func(h, j) /\ h \in DOMAIN yaml
        /\ Node(n).l5_inports \in Seq(NodePorts(h, j))
        /\ Node(n).l5_outports \in Seq(NodePorts(h, j))
    BY <2>1 DEF InstanceAt, NodeOf
  <2>3. h = i
    <3>1. yaml[h].func = yaml[i].func
      BY <2>2 DEF Func
    <3> QED BY <2>2, <3>1 DEF GInv, PlaceRight
  <2>4. p \in NodePorts(h, j)
    <3> DEFINE Q == NodePorts(h, j)
    <3>1. ToSet(Node(n).l5_inports \o Node(n).l5_outports)
            = ToSet(Node(n).l5_inports) \cup ToSet(Node(n).l5_outports)
      BY <2>2, ConcatElements
    <3> HIDE DEF Q
    <3>2. \A q \in ToSet(Node(n).l5_inports) \cup ToSet(Node(n).l5_outports) :
            q \in Q
      <4>1. Node(n).l5_inports \in Seq(Q) /\ Node(n).l5_outports \in Seq(Q)
        BY <2>2 DEF Q
      <4> QED BY <4>1, ElementOfSeq, LenProperties DEF ToSet
    <3> QED BY <3>1, <3>2 DEF Q
  <2> QED BY <2>2, <2>3, <2>4 DEF NodePorts, NamedFor
<1> QED BY <1>1, GInvInit, GInvNext, PTL DEF Spec

-----------------------------------------------------------------------------
(* What match makes of the names of two paths, and what they mean.         *)
LEMMA Accepted ==
  ASSUME NEW k \in Paths, NEW p \in Paths, Results[<<k, p>>] # BOOLEAN,
         TRUE \in Results[<<k, p>>]
  PROVE  <<k, p>> \in Covers
<1>1. /\ Name(k) \in Seq(STRING) /\ Name(p) \in Seq(STRING)
      /\ Results[<<k, p>>] = match(Name(k), Name(p))
  BY PathFacts
<1>2. match(Name(k), Name(p)) \in Answers
  BY <1>1, MatchAnswers
<1>3. match(Name(k), Name(p)) = {TRUE}
  BY <1>1, <1>2 DEF Answers
<1>4. Meant(Name(k), Name(p))
  BY <1>1, <1>3, MatchMeant
<1> QED BY <1>4 DEF Covers

LEMMA OwnName == \A p \in Paths : <<p, p>> \in Covers
<1> SUFFICES ASSUME NEW p \in Paths PROVE <<p, p>> \in Covers
  OBVIOUS
<1>1. Results[<<p, p>>] = {TRUE}
  BY PathFacts
<1>2. FALSE \in BOOLEAN /\ FALSE \notin {TRUE}
  OBVIOUS
<1>3. Results[<<p, p>>] # BOOLEAN /\ TRUE \in Results[<<p, p>>]
  BY <1>1, <1>2
<1> QED BY <1>3, Accepted

(* Where match decides, it decides as meant.                               *)
LEMMA DecidedRight ==
  ASSUME NEW k \in Paths, NEW p \in Paths, Decided(k, p)
  PROVE  /\ TRUE \in Results[<<k, p>>] => <<k, p>> \in Covers
         /\ FALSE \in Results[<<k, p>>] => <<k, p>> \notin Covers
<1>1. TRUE \in Results[<<k, p>>] => <<k, p>> \in Covers
  BY Accepted DEF Decided
<1>2. ASSUME FALSE \in Results[<<k, p>>], <<k, p>> \in Covers PROVE FALSE
  <2> DEFINE s == Name(k)
             t == Name(p)
  <2>1. /\ s \in Seq(STRING) /\ t \in Seq(STRING)
        /\ Results[<<k, p>>] = match(s, t)
    BY PathFacts
  <2>2. k # p
    <3>1. FALSE \notin {TRUE}
      OBVIOUS
    <3> QED BY <1>2, <3>1, PathFacts
  <2>3. /\ \A i \in DOMAIN t : t[i] # "*"
        /\ ~EndsWithStars(s) /\ match(s, t) # BOOLEAN
    BY <1>2, <2>1, <2>2 DEF Decided
  <2>4. Meant(s, t) /\ Meant(s, t) \in BOOLEAN
    BY <1>2 DEF Covers, Meant
  <2> HIDE DEF s, t
  <2>5. match(s, t) = {Meant(s, t)}
    BY <2>1, <2>3, MatchDecides
  <2>6. Meant(s, t) = TRUE
    BY <2>4
  <2>7. match(s, t) = {TRUE}
    BY <2>5, <2>6
  <2> QED BY <1>2, <2>1, <2>7
<1> QED BY <1>1, <1>2

(* The ports of a node, which generateLinks knows by the names of their    *)
(* paths, if these do not contain "-inst".                                 *)
LEMMA PortKnown ==
  ASSUME GInv, NEW n \in NodeIds,
         NEW ports \in {Node(n).l5_inports, Node(n).l5_outports},
         NEW i \in DOMAIN ports
  PROVE  /\ ports \in Seq(NamedPorts) /\ ports[i] \in NamedPorts
         /\ ports[i].path \in Paths
         /\ Found(Name(ports[i].path), Inst) = {} =>
              Core(ports[i].name) = Name(ports[i].path)
<1>1. PICK h, j : InstanceAt(n, h, j)
  BY NodeIsInstance
<1>2. Node(n) \in Nodes
  BY NodeIsInstance
<1>3. ports \in Seq(NamedPorts) /\ ports \in Seq(NodePorts(h, j))
  BY <1>1, <1>2 DEF InstanceAt, NodeOf, Nodes
<1> DEFINE p == ports[i]
<1>4. p \in NodePorts(h, j) /\ p \in NamedPorts
  <2>1. i \in 1 .. Len(ports)
    BY <1>3, LenProperties
  <2> QED BY <1>3, <2>1, ElementOfSeq
<1> HIDE DEF p
<1>5. p.path \in Paths /\ NamedFor(h, j, p)
  BY <1>4 DEF NodePorts, NamedPorts
<1>6. ASSUME Found(Name(p.path), Inst) = {} PROVE Core(p.name) = Name(p.path)
  <2>1. CASE yaml[h].taskCount > 1
    <3>1. PICK m \in Numbers : p.name = InstName(p.path, m)
      BY <1>5, <2>1 DEF NamedFor
    <3>2. Dotted(Files[p.path])
      BY <1>5, <2>1 DEF NamedFor
    <3> QED BY <1>5, <1>6, <3>1, <3>2, CoreRestores
  <2>2. CASE ~(yaml[h].taskCount > 1)
    <3>1. p.name = Name(p.path)
      BY <1>5, <2>2 DEF NamedFor
    <3> QED BY <1>5, <1>6, <3>1, CoreRestores
  <2> QED BY <2>1, <2>2
<1> QED BY <1>3, <1>4, <1>5, <1>6 DEF p

(* A link has the io_freq of every port it brings data to, if they agree,  *)
(* whatever else its consumer reads: in every description, of the nodes    *)
(* none of whose inports has "-inst" in its name or one that match cannot  *)
(* decide about.                                                           *)
THEOREM FrequencyMeantCorrect == Spec => []FrequencyMeant
<1>1. GInv => FrequencyMeant
  <2> SUFFICES ASSUME GInv, NEW l \in ToSet(links),
                      \A q \in ToSet(Node(l.con).l5_inports) :
                        Found(Name(q.path), Inst) = {} /\ Decided(l.key, q.path),
                      NEW p \in ToSet(Node(l.con).l5_inports),
                      <<l.key, p.path>> \in Covers,
                      \A q \in ToSet(Node(l.con).l5_inports) :
                        <<l.key, q.path>> \in Covers => q.io_freq = p.io_freq
               PROVE  l.flow_policy = IoFreq[p.io_freq]
    BY DEF FrequencyMeant
  <2> DEFINE k == l.key
             ports == Node(l.con).l5_inports
             results == [i \in DOMAIN ports |-> match(Name(k), Core(ports[i].name))]
  <2>1. LinkRight(l)
    BY DEF GInv, ToSet
  <2>2. l.con \in NodeIds /\ k \in Paths
    BY <2>1 DEF LinkRight
  <2>3. PICK under \in Matching(k, ports) : l.flow_policy = PolicyOf(ports, under)
    BY <2>1 DEF LinkRight
  <2>4. PICK m \in DOMAIN ports : p = ports[m]
    BY DEF ToSet
  <2>5. ASSUME NEW i \in DOMAIN ports
        PROVE  /\ ports[i] \in NamedPorts /\ ports[i] \in ToSet(ports)
               /\ ports[i].path \in Paths
               /\ results[i] = Results[<<k, ports[i].path>>]
               /\ Decided(k, ports[i].path)
    <3>1. /\ ports[i] \in NamedPorts /\ ports[i].path \in Paths
          /\ Found(Name(ports[i].path), Inst) = {} =>
               Core(ports[i].name) = Name(ports[i].path)
      BY <2>2, PortKnown
    <3>2. ports[i] \in ToSet(ports)
      BY DEF ToSet
    <3>3. Found(Name(ports[i].path), Inst) = {} /\ Decided(k, ports[i].path)
      BY <3>2
    <3>4. results[i] = match(Name(k), Name(ports[i].path))
      BY <3>1, <3>3
    <3> HIDE DEF results, ports, k
    <3> QED BY <2>2, <3>1, <3>2, <3>3, <3>4, PathFacts
  <2>6. ports \in Seq(NamedPorts)
    BY <2>2, <2>4, PortKnown
  <2>7. under \in Hits(results) /\ DOMAIN results = DOMAIN ports
    BY DEF Matching
  <2> HIDE DEF ports, results, k
  <2>8. /\ under \subseteq DOMAIN ports
        /\ \A i \in under : TRUE \in results[i]
        /\ \A i \in DOMAIN ports \ under : FALSE \in results[i]
    BY <2>7, HitsAre
  <2>9. m \in under
    BY <2>2, <2>4, <2>5, <2>8, DecidedRight DEF k
  <2>10. PICK i \in under : PortOf(ports, under) = ports[i]
    BY <2>6, <2>8, <2>9, PortOfUnder
  <2>11. <<k, ports[i].path>> \in Covers
    BY <2>2, <2>5, <2>8, DecidedRight
  <2>12. ports[i].io_freq = p.io_freq
    BY <2>5, <2>8, <2>11 DEF k, ports
  <2>13. ports[i] # NoPort
    <3>1. "path" \in DOMAIN ports[i]
      BY <2>5, <2>8 DEF NamedPorts
    <3>2. "path" \notin DOMAIN NoPort
      BY DEF NoPort
    <3> QED BY <3>1, <3>2
  <2> QED BY <2>3, <2>10, <2>12, <2>13 DEF PolicyOf
<1> QED BY <1>1, GInvInit, GInvNext, PTL DEF Spec

(* The paths of the description, and the key one of them belongs to: the   *)
(* wildcard that matches it, or else the path itself.                      *)
Listed == {PathAt(a) : a \in Places}

Below(h, r) == h # r /\ <<h, r>> \in Covers

Home(r) == IF \E h \in Listed : Below(h, r)
           THEN CHOOSE h \in Listed : Below(h, r) ELSE r

(* The ports of a node are those of its task, in their order.              *)
Same(p, q) == p.path = q.path /\ p.io_freq = q.io_freq /\ p.metadata = q.metadata

Copies(list, ports) ==
  Len(list) = Len(ports) /\ \A m \in 1 .. Len(ports) : Same(list[m], ports[m])

CopyOf(i, node) ==
  /\ Copies(node.l5_inports, yaml[i].inports)
  /\ Copies(node.l5_outports, yaml[i].outports)
  /\ \E j : /\ node.l5_inports \in Seq(NodePorts(i, j))
           /\ node.l5_outports \in Seq(NodePorts(i, j))

CopiesRight ==
  /\ \A n \in DOMAIN nodes : \E i \in DOMAIN yaml : CopyOf(i, nodes[n])
  /\ \A i \in DOMAIN yaml : i < task => \E n \in DOMAIN nodes : CopyOf(i, nodes[n])

(* A port listed at a was entered before the node at hand.                 *)
Read(a) == a[1] < task \/ (a[1] = task /\ 0 < index)

(* Keys are homes of paths, the node of every entry has a port that belongs *)
(* there, and every port is entered under its home.                        *)
InAt(n, k) == \E p \in ToSet(Node(n).l5_inports) : Home(p.path) = k
OutAt(n, k) == \E p \in ToSet(Node(n).l5_outports) : Home(p.path) = k

HomesRight ==
  /\ \A k \in Paths : workflow_links[k] # <<>> => \E r \in Listed : Home(r) = k
  /\ \A a \in Places : Read(a) => workflow_links[Home(PathAt(a))] # <<>>
  /\ \A k \in Paths : \A v \in ToSet(workflow_links[k]) :
       \/ \E n \in NodeIds : v = AsConsumer(n) /\ v > 0 /\ InAt(n, k)
       \/ \E n \in NodeIds : v = -n /\ OutAt(n, k)
  /\ \A n \in NodeIds : \A k \in Paths :
       /\ InAt(n, k) => AsConsumer(n) \in ToSet(workflow_links[k])
       /\ OutAt(n, k) => -n \in ToSet(workflow_links[k])

(* The links of a key, from place off on: link i joins entry i of the      *)
(* longer list and an entry of the shorter one.                            *)
LongEnd(k) == IF ByCon(k) THEN "con" ELSE "prod"
ShortEnd(k) == IF ByCon(k) THEN "prod" ELSE "con"

Joins(k, i, l) ==
  /\ l.key = k
  /\ l[LongEnd(k)] = LongerList(k)[i]
  /\ PlaceOf(k, i) <= Len(ShorterList(k)) =>
       l[ShortEnd(k)] = ShorterList(k)[PlaceOf(k, i)]

BlockAt(k, off) ==
  /\ off + Len(LongerList(k)) <= Len(links)
  /\ \A i \in 1 .. Len(LongerList(k)) : Joins(k, i, links[off + i])
  /\ \A i \in DOMAIN links : links[i].key = k =>
       off < i /\ i <= off + Len(LongerList(k))

OneSided(k) == Producers(k) = <<>> \/ Consumers(k) = <<>>

KeyDone(k) ==
  IF OneSided(k)
  THEN \E files \in Unlinked(k) : \A n \in DOMAIN files : \A p \in files[n] :
         ~p.metadata /\ p.name \in Node(n).passthru_files
  ELSE \E off \in 0 .. Len(links) : BlockAt(k, off)

(* A task one of whose ports has a name without a dot.                     *)
Nameless(t) ==
  \E p \in ToSet(PortsOf(t)) :
    ~Dotted(IF t.taskCount > 1 THEN Files[p.path] ELSE Name(p.path))

(* Why make_wflow_from_yaml gave up.                                       *)
GaveUp ==
  \/ \E i \in DOMAIN yaml : Wrong(yaml[i]) \/ Nameless(yaml[i])
  \/ /\ task = Len(yaml) + 1
     /\ \E k \in Keys : OneSided(k) /\ \E files \in Unlinked(k) :
          \E n \in DOMAIN files : \E p \in files[n] : p.metadata
  \/ \E k \in Keys : ~Even(k)

LinksRight ==
  /\ phase = "nodes" => key = 0 /\ links = <<>>
  /\ phase \in {"links", "done"} => task = Len(yaml) + 1
  /\ phase \in {"links", "done"} => \A k \in Keys : k <= key => KeyDone(k)
  /\ phase \in {"links", "done"} =>
       \A i \in DOMAIN links : LET k == links[i].key IN
         k \in Keys /\ k <= key /\ ~OneSided(k)
  /\ phase = "done" => \A k \in Keys : k <= key
  /\ phase = "exit" => GaveUp

-----------------------------------------------------------------------------
(* The ports of a node are copies.                                         *)

(* What one port adds.                                                     *)
Adds(acc, met, v, new) ==
  /\ new.table = [acc.table EXCEPT
                    ![KeyFor(acc.table, met.port.path, met.hits)] = Append(@, v)]
  /\ \E p : Same(p, met.port) /\ new.ports = Append(acc.ports, p)

(* What AddPort makes of a port.                                           *)
LEMMA AddPortAdds ==
  ASSUME NEW acc, NEW met, NEW v
  PROVE  Adds(acc, met, v, AddPort(acc, met, v))
<1> DEFINE port == met.port
           range == IF port.range = <<>> THEN acc.range ELSE port.range
           number == IF index < Len(range) THEN range[index + 1] ELSE met.past
           p == [path |-> port.path,
                 name |-> IF yaml[task].taskCount > 1
                          THEN InstName(port.path, number) ELSE Name(port.path),
                 io_freq |-> port.io_freq,
                 passthru |-> port.passthru, metadata |-> port.metadata]
<1>1. Same(p, port)
  BY DEF Same
<1>2. AddPort(acc, met, v).ports = Append(acc.ports, p)
  BY DEF AddPort
<1>3. AddPort(acc, met, v).table
        = [acc.table EXCEPT ![KeyFor(acc.table, port.path, met.hits)] = Append(@, v)]
  BY DEF AddPort
<1> HIDE DEF p
<1> QED BY <1>1, <1>2, <1>3 DEF Adds

(* What the loop over some ports of the task at hand assumes.              *)
Looping(V, v, table, range, ports, mets) ==
  /\ Adding /\ V \in SUBSET Int /\ v \in V
  /\ table \in Tables(V) /\ range \in Ranges
  /\ ports \in Seq(Ports) /\ ToSet(ports) \subseteq ToSet(PortsOf(yaml[task]))
  /\ mets \in Meets(ports)

(* Its rounds.                                                             *)
LEMMA LoopRounds ==
  ASSUME NEW V, NEW v, NEW table, NEW range, NEW ports, NEW mets,
         Looping(V, v, table, range, ports, mets)
  PROVE  /\ HasRounds(Accs(V), table, range, mets, v)
         /\ Len(mets) = Len(ports) /\ Len(ports) \in Nat
         /\ \A i \in 1 .. Len(ports) : /\ mets[i].port = ports[i]
                                      /\ mets[i].hits \in KeyHits(ports[i].path)
<1>1. Started(table, range) \in Accs(V)
  BY EmptySeq DEF Accs, Started, Looping
<1>2. /\ mets \in Seq(MetsOf(ports)) /\ ToSet(mets) \subseteq MetsOf(ports)
      /\ Len(mets) = Len(ports)
      /\ \A i \in DOMAIN ports : mets[i] \in MetsOf(ports) /\ mets[i].port = ports[i]
  BY MeetsRight DEF Looping
<1>3. Len(ports) \in Nat /\ DOMAIN ports = 1 .. Len(ports)
  BY LenProperties DEF Looping
<1>4. \A acc \in Accs(V) : \A m \in ToSet(mets) : AddPort(acc, m, v) \in Accs(V)
  BY <1>2, AddPortStep DEF Looping
<1>5. HasRounds(Accs(V), table, range, mets, v)
  BY <1>1, <1>2, <1>4, AddPortsRounds
<1>6. \A i \in DOMAIN ports : mets[i].hits \in KeyHits(ports[i].path)
  <2> SUFFICES ASSUME NEW i \in DOMAIN ports
               PROVE  mets[i].hits \in KeyHits(ports[i].path)
    OBVIOUS
  <2>1. mets[i].hits \in KeyHits(mets[i].port.path)
    BY <1>2 DEF MetsOf
  <2> QED BY <1>2, <2>1
<1> QED BY <1>2, <1>3, <1>5, <1>6

(* The ports of a node are copies of those it is given.                    *)
LEMMA AddPortsCopies ==
  ASSUME NEW V, NEW v, NEW table, NEW range, NEW ports, NEW mets,
         Looping(V, v, table, range, ports, mets)
  PROVE  Copies(AddPorts(table, range, mets, v).ports, ports)
<1> DEFINE n == Len(ports)
<1>1. /\ n \in Nat /\ Len(mets) = n
      /\ \A i \in 1 .. n : mets[i].port = ports[i]
  BY LoopRounds
<1>2. PICK y \in [0 .. n -> Accs(V)] :
             /\ y[0] = Started(table, range)
             /\ \A i \in 1 .. n : y[i] = AddPort(y[i - 1], mets[i], v)
             /\ y[n] = AddPorts(table, range, mets, v)
  BY <1>1, LoopRounds DEF HasRounds
<1> DEFINE D == {i \in 0 .. n :
                   /\ Len(y[i].ports) = i
                   /\ \A m \in 1 .. i : Same(y[i].ports[m], ports[m])}
<1>3. 0 \in D
  BY <1>1, <1>2, EmptySeq DEF Started
<1>4. ASSUME NEW i \in 1 .. n, i - 1 \in D PROVE i \in D
  <2> DEFINE S == NodePorts(task, index)
             s == y[i - 1].ports
  <2>1. i - 1 \in 0 .. n /\ i \in 0 .. n /\ (i - 1) + 1 = i
    BY <1>1
  <2>2. s \in Seq(S) /\ y[i].ports \in Seq(S)
    BY <1>2, <2>1 DEF Accs
  <2>3. PICK p : Same(p, ports[i]) /\ y[i].ports = Append(s, p)
    <3>1. Adds(y[i - 1], mets[i], v, y[i])
      BY <1>2, AddPortAdds
    <3> QED BY <1>1, <3>1 DEF Adds
  <2> HIDE DEF S
  <2>4. /\ Len(s) = i - 1 /\ \A m \in 1 .. i - 1 : Same(s[m], ports[m])
    BY <1>4
  <2> DEFINE u == Append(s, p)
  <2>5. /\ Len(u) = Len(s) + 1
        /\ \A m \in 1 .. Len(s) : u[m] = s[m]
        /\ u[Len(s) + 1] = p
    <3> HIDE DEF s
    <3>1. s \in Seq(S \cup {p})
      BY <2>2
    <3> QED BY <3>1, AppendProperties
  <2> HIDE DEF s, u
  <2>6. ASSUME NEW m \in 1 .. i PROVE Same(u[m], ports[m])
    <3>1. CASE m = i
      BY <2>1, <2>3, <2>4, <2>5, <3>1
    <3>2. CASE m # i
      <4>1. m \in 1 .. i - 1
        BY <1>1, <3>2
      <4> QED BY <2>4, <2>5, <4>1
    <3> QED BY <3>1, <3>2
  <2>7. y[i].ports = u
    BY <2>3 DEF u
  <2> QED BY <2>1, <2>4, <2>5, <2>6, <2>7
<1>5. n \in D
  <2> HIDE DEF D
  <2>1. \A i \in 0 .. n : i \in D
    BY <1>1, <1>3, <1>4, UpTo
  <2> QED BY <1>1, <2>1
<1> QED BY <1>2, <1>5 DEF Copies

(* The loops over the ports of a new node.                                 *)
LoopsOf(mins, mouts) ==
  /\ AddsNode(mins, mouts)
  /\ Looping(NewEntries, AsConsumer(Len(nodes)), workflow_links, RangeAt(index),
             yaml[task].inports, mins)
  /\ Looping(NewEntries, -Len(nodes), InsAdded(mins).table, InsAdded(mins).range,
             yaml[task].outports, mouts)

LEMMA NodeLoops ==
  ASSUME GInv, AddNode
  PROVE  Adding /\ \E mins, mouts : LoopsOf(mins, mouts)
<1> DEFINE V == NewEntries
           a == AsConsumer(Len(nodes))
           b == -Len(nodes)
           t == yaml[task]
<1>1. Adding
  BY AddNodeAdds
<1>2. PICK mins \in Meets(t.inports) : \E mouts \in Meets(t.outports) : AddsNode(mins, mouts)
  BY AddNodeAdds
<1>3. PICK mouts \in Meets(t.outports) : AddsNode(mins, mouts)
  BY <1>2
<1>4. V \in SUBSET Int /\ a \in V /\ b \in V
  <2>1. Len(nodes) \in Nat /\ Sentinel \in Nat
    BY LenProperties, YamlAssumption DEF GInv, NodesRight
  <2> QED BY <2>1 DEF NewEntries, AsConsumer
<1>5. /\ t.inports \in Seq(Ports) /\ t.outports \in Seq(Ports)
      /\ ToSet(t.inports) \subseteq ToSet(PortsOf(t))
      /\ ToSet(t.outports) \subseteq ToSet(PortsOf(t))
  <2>1. task \in DOMAIN yaml /\ yaml[task] \in Tasks /\ yaml \in Yamls
    BY <1>1, AddingFacts DEF Adding, PlaceRight
  <2> QED BY <2>1, YamlType DEF Tasks
<1>6. workflow_links \in Tables(V)
  BY DEF GInv, TableRight, Tables
<1>7. RangeAt(index) \in Ranges
  BY <1>1, RangeAtRight
<1> DEFINE ins == InsAdded(mins)
<1>8. ins \in Accs(V)
  BY <1>3 DEF AddsNode, NodeAdded
<1> HIDE DEF V, ins, a, b
<1>9. ins.table \in Tables(V) /\ ins.range \in Ranges
  BY <1>8 DEF Accs
<1>10. Looping(V, a, workflow_links, RangeAt(index), t.inports, mins)
  BY <1>1, <1>2, <1>4, <1>5, <1>6, <1>7 DEF Looping
<1>11. Looping(V, b, ins.table, ins.range, t.outports, mouts)
  BY <1>1, <1>3, <1>4, <1>5, <1>9 DEF Looping
<1>12. LoopsOf(mins, mouts)
  BY <1>3, <1>10, <1>11 DEF LoopsOf, V, a, b, ins
<1> QED BY <1>1, <1>12

(* The ports of a new node are those of its task.                          *)
LEMMA NewNodeCopies ==
  ASSUME NEW mins, NEW mouts, LoopsOf(mins, mouts)
  PROVE  CopyOf(task, NodeRecord(InsAdded(mins), OutsAdded(mins, mouts)))
<1> DEFINE ins == InsAdded(mins)
           outs == OutsAdded(mins, mouts)
<1>1. /\ Copies(ins.ports, yaml[task].inports)
      /\ Copies(outs.ports, yaml[task].outports)
  BY AddPortsCopies DEF LoopsOf, InsAdded, OutsAdded
<1>2. ins \in Accs(NewEntries) /\ outs \in Accs(NewEntries)
  BY DEF LoopsOf, AddsNode, NodeAdded
<1> HIDE DEF ins, outs
<1>3. /\ ins.ports \in Seq(NodePorts(task, index))
      /\ outs.ports \in Seq(NodePorts(task, index))
  BY <1>2 DEF Accs
<1>4. CopyOf(task, NodeRecord(ins, outs))
  BY <1>1, <1>3 DEF CopyOf, NodeRecord
<1> QED BY <1>4 DEF ins, outs

(* The steps of nodes that neither add one nor change ports.               *)
NodesSame ==
  /\ Len(nodes') = Len(nodes) /\ DOMAIN nodes' = DOMAIN nodes
  /\ \A n \in DOMAIN nodes :
       /\ nodes'[n].l5_inports = nodes[n].l5_inports
       /\ nodes'[n].l5_outports = nodes[n].l5_outports
  /\ UNCHANGED <<yaml, task, index, workflow_links>>

LEMMA CopyOfSame ==
  ASSUME yaml' = yaml
  PROVE  \A i, node : CopyOf(i, node)' <=> CopyOf(i, node)
<1>1. \A i, j : NodePorts(i, j)' = NodePorts(i, j)
  BY YamlSame
<1> QED BY <1>1 DEF CopyOf

(* CopiesRight is kept.                                                    *)
LEMMA CopiesStep ==
  ASSUME GInv, CopiesRight, AddNode \/ NodesSame
  PROVE  CopiesRight'
<1>1. CASE AddNode
  <2>0. PICK mins, mouts : LoopsOf(mins, mouts)
    BY <1>1, NodeLoops
  <2> DEFINE l == Len(nodes) + 1
             ins == InsAdded(mins)
             outs == OutsAdded(mins, mouts)
             new == NodeRecord(ins, outs)
  <2>1. Adding /\ NodeAdded(NewEntries, ins, outs) /\ CopyOf(task, new)
    BY <1>1, <2>0, NodeLoops, NewNodeCopies DEF LoopsOf, AddsNode
  <2> HIDE DEF ins, outs
  <2>2. /\ nodes' \in Seq(Nodes) /\ Len(nodes) \in Nat /\ Len(nodes') = l
        /\ DOMAIN nodes = 1 .. Len(nodes)
        /\ \A m \in DOMAIN nodes : nodes'[m] = nodes[m]
        /\ nodes'[l] = new
    BY <2>1, NodesGrow
  <2>3. DOMAIN nodes' = 1 .. l
    BY <2>2, LenProperties
  <2>4. CopyOf(task, new) /\ task \in DOMAIN yaml /\ yaml' = yaml
    BY <2>1, AddingFacts DEF NodeAdded
  <2>5. DOMAIN yaml = 1 .. Len(yaml) /\ Len(yaml) \in Nat
    BY YamlType DEF GInv, PlaceRight
  <2>6. ASSUME NEW n \in DOMAIN nodes'
        PROVE  \E i \in DOMAIN yaml' : CopyOf(i, nodes[n])'
    <3>1. CASE n \in DOMAIN nodes
      <4>1. PICK i \in DOMAIN yaml : CopyOf(i, nodes[n])
        BY <3>1 DEF CopiesRight
      <4>2. CopyOf(i, nodes'[n])
        BY <2>2, <3>1, <4>1
      <4> QED BY <2>4, <4>2, CopyOfSame
    <3>2. CASE n = l
      <4>1. CopyOf(task, nodes'[n])
        BY <2>2, <2>4, <3>2
      <4> QED BY <2>4, <4>1, CopyOfSame
    <3> QED BY <2>2, <2>3, <3>1, <3>2
  <2>7. ASSUME NEW i \in DOMAIN yaml', i < task'
        PROVE  \E n \in DOMAIN nodes' : CopyOf(i, nodes[n])'
    <3>1. CASE i < task
      <4>1. PICK n \in DOMAIN nodes : CopyOf(i, nodes[n])
        BY <2>4, <3>1 DEF CopiesRight
      <4>2. n \in DOMAIN nodes' /\ nodes'[n] = nodes[n]
        BY <2>2, <2>3
      <4>3. CopyOf(i, nodes'[n])
        BY <4>1, <4>2
      <4> QED BY <2>4, <4>2, <4>3, CopyOfSame
    <3>2. CASE ~(i < task)
      <4>1. task' = task \/ task' = task + 1
        BY <2>1 DEF NodeAdded
      <4>2. i = task
        BY <2>4, <2>5, <2>7, <3>2, <4>1
      <4>3. l \in DOMAIN nodes' /\ CopyOf(i, nodes'[l])
        BY <2>2, <2>3, <2>4, <4>2
      <4> QED BY <2>4, <4>3, CopyOfSame
    <3> QED BY <3>1, <3>2
  <2> QED BY <2>6, <2>7 DEF CopiesRight
<1>2. CASE NodesSame
  <2>1. yaml' = yaml /\ task' = task /\ DOMAIN nodes' = DOMAIN nodes
    BY <1>2 DEF NodesSame
  <2>2. \A n \in DOMAIN nodes : \A i : CopyOf(i, nodes'[n]) <=> CopyOf(i, nodes[n])
    BY <1>2 DEF NodesSame, CopyOf
  <2>3. \A n \in DOMAIN nodes : \A i : CopyOf(i, nodes[n])' <=> CopyOf(i, nodes[n])
    BY <2>1, <2>2, CopyOfSame
  <2> QED BY <2>1, <2>3 DEF CopiesRight
<1> QED BY <1>1, <1>2

-----------------------------------------------------------------------------
(* Homes.                                                                  *)

(* The places of the description: first the inports of a task, then its     *)
(* outports.                                                               *)
InPlace(i, m) == <<i, m>>
OutPlace(i, m) == <<i, Len(yaml[i].inports) + m>>

(* The ports of a task, at their places: its inports, then its outports.   *)
LEMMA PortsOfType ==
  ASSUME yaml \in Yamls, NEW i \in DOMAIN yaml
  PROVE  /\ Len(yaml[i].inports) \in Nat /\ Len(yaml[i].outports) \in Nat
         /\ DOMAIN PortsOf(yaml[i])
              = 1 .. Len(yaml[i].inports) + Len(yaml[i].outports)
         /\ \A m \in 1 .. Len(yaml[i].inports) :
              /\ InPlace(i, m) \in Places
              /\ PathAt(InPlace(i, m)) = yaml[i].inports[m].path
              /\ yaml[i].inports[m].path \in Paths
         /\ \A m \in 1 .. Len(yaml[i].outports) :
              /\ OutPlace(i, m) \in Places
              /\ PathAt(OutPlace(i, m)) = yaml[i].outports[m].path
              /\ yaml[i].outports[m].path \in Paths
<1> DEFINE s == yaml[i].inports
           u == yaml[i].outports
<1>1. s \in Seq(Ports) /\ u \in Seq(Ports)
  BY YamlType DEF Tasks
<1>2. /\ (\A m \in DOMAIN s : s[m] \in Ports)
      /\ (\A m \in DOMAIN u : u[m] \in Ports)
  <2> HIDE DEF s, u
  <2> QED BY <1>1
<1>3. PortsOf(yaml[i]) = s \o u
  BY DEF PortsOf
<1> HIDE DEF s, u
<1>4. /\ DOMAIN s = 1 .. Len(s) /\ DOMAIN u = 1 .. Len(u)
      /\ DOMAIN (s \o u) = 1 .. Len(s) + Len(u)
      /\ Len(s) \in Nat /\ Len(u) \in Nat
      /\ \A m \in 1 .. Len(s) + Len(u) :
           (s \o u)[m] = IF m <= Len(s) THEN s[m] ELSE u[m - Len(s)]
  BY <1>1, ConcatProperties, LenProperties
<1>5. ASSUME NEW m \in 1 .. Len(s) + Len(u)
      PROVE  <<i, m>> \in Places /\ PathAt(<<i, m>>) = (s \o u)[m].path
  BY <1>3, <1>4 DEF Places, PathAt
<1>6. ASSUME NEW m \in 1 .. Len(s)
      PROVE  /\ InPlace(i, m) \in Places
             /\ PathAt(InPlace(i, m)) = s[m].path /\ s[m].path \in Paths
  <2>1. m \in 1 .. Len(s) + Len(u) /\ (s \o u)[m] = s[m]
    BY <1>4
  <2>2. s[m] \in Ports
    BY <1>2, <1>4
  <2> QED BY <1>5, <2>1, <2>2 DEF InPlace, Ports
<1>7. ASSUME NEW m \in 1 .. Len(u)
      PROVE  /\ OutPlace(i, m) \in Places
             /\ PathAt(OutPlace(i, m)) = u[m].path /\ u[m].path \in Paths
  <2>1. /\ Len(s) + m \in 1 .. Len(s) + Len(u)
        /\ ~(Len(s) + m <= Len(s)) /\ (Len(s) + m) - Len(s) = m
    BY <1>4
  <2>2. (s \o u)[Len(s) + m] = u[m]
    BY <1>4, <2>1
  <2>3. u[m] \in Ports
    BY <1>2, <1>4
  <2> QED BY <1>5, <2>1, <2>2, <2>3 DEF OutPlace, Ports, s
<1> QED BY <1>3, <1>4, <1>6, <1>7 DEF s, u

(* There are no other places.                                              *)
LEMMA PlaceCases ==
  ASSUME yaml \in Yamls, NEW a \in Places
  PROVE  \E i \in DOMAIN yaml :
           /\ a[1] = i
           /\ \/ \E m \in 1 .. Len(yaml[i].inports) : a = InPlace(i, m)
              \/ \E m \in 1 .. Len(yaml[i].outports) : a = OutPlace(i, m)
<1>1. PICK i \in DOMAIN yaml : a \in {i} \X DOMAIN PortsOf(yaml[i])
  BY DEF Places
<1> DEFINE n == Len(yaml[i].inports)
           l == Len(yaml[i].outports)
<1>2. n \in Nat /\ l \in Nat /\ DOMAIN PortsOf(yaml[i]) = 1 .. n + l
  BY PortsOfType
<1> HIDE DEF n, l
<1>3. PICK m \in 1 .. n + l : a = <<i, m>>
  BY <1>1, <1>2
<1>4. CASE m <= n
  <2>1. m \in 1 .. n /\ a = InPlace(i, m)
    BY <1>2, <1>3, <1>4 DEF InPlace
  <2> QED BY <1>3, <2>1 DEF n
<1>5. CASE ~(m <= n)
  <2>1. m - n \in 1 .. l /\ n + (m - n) = m
    BY <1>2, <1>5
  <2>2. a = OutPlace(i, m - n)
    BY <1>3, <2>1 DEF OutPlace, n
  <2> QED BY <1>3, <2>1, <2>2 DEF l
<1> QED BY <1>4, <1>5

(* Listed paths are paths.                                                 *)
LEMMA ListedType ==
  ASSUME yaml \in Yamls
  PROVE  \A r \in Listed : r \in Paths
<1>1. ASSUME NEW a \in Places PROVE PathAt(a) \in Paths
  <2>1. PICK i \in DOMAIN yaml :
           \/ \E m \in 1 .. Len(yaml[i].inports) : a = InPlace(i, m)
           \/ \E m \in 1 .. Len(yaml[i].outports) : a = OutPlace(i, m)
    BY PlaceCases
  <2>2. CASE \E m \in 1 .. Len(yaml[i].inports) : a = InPlace(i, m)
    <3>1. PICK m \in 1 .. Len(yaml[i].inports) : a = InPlace(i, m)
      BY <2>2
    <3>2. PathAt(InPlace(i, m)) \in Paths
      BY PortsOfType
    <3> QED BY <3>1, <3>2
  <2>3. CASE \E m \in 1 .. Len(yaml[i].outports) : a = OutPlace(i, m)
    <3>1. PICK m \in 1 .. Len(yaml[i].outports) : a = OutPlace(i, m)
      BY <2>3
    <3>2. PathAt(OutPlace(i, m)) \in Paths
      BY PortsOfType
    <3> QED BY <3>1, <3>2
  <2> QED BY <2>1, <2>2, <2>3
<1> QED BY <1>1 DEF Listed

(* What an unambiguous description says of paths.                          *)
LEMMA UnambiguousPaths ==
  ASSUME Unambiguous, NEW h \in Listed, NEW r \in Listed, Below(h, r),
         NEW c \in Listed
  PROVE  /\ Below(h, c) => c = r
         /\ Below(c, r) => c = h
         /\ ~Below(r, c)
<1>1. PICK a \in Places : h = PathAt(a)
  BY DEF Listed
<1>2. PICK b \in Places : r = PathAt(b)
  BY DEF Listed
<1>3. PICK d \in Places : c = PathAt(d)
  BY DEF Listed
<1>4. Other(a, b)
  BY <1>1, <1>2 DEF Other, Below
<1>5. /\ Other(a, d) => PathAt(d) = PathAt(b)
      /\ Other(d, b) => PathAt(d) = PathAt(a)
      /\ ~Other(b, d)
  BY <1>4 DEF Unambiguous
<1> QED BY <1>1, <1>2, <1>3, <1>5 DEF Other, Below

(* In an unambiguous description a home is a home of its own, and a path   *)
(* has one.                                                                *)
LEMMA HomeFacts ==
  ASSUME Unambiguous, NEW r \in Listed
  PROVE  /\ Home(r) \in Listed /\ Home(Home(r)) = Home(r)
         /\ Home(r) = r \/ Below(Home(r), r)
         /\ \A h \in Listed : Below(h, r) => Home(r) = h
<1>1. CASE \E h \in Listed : Below(h, r)
  <2> DEFINE h == CHOOSE h \in Listed : Below(h, r)
  <2>1. h \in Listed /\ Below(h, r) /\ Home(r) = h
    BY <1>1 DEF Home
  <2> HIDE DEF h
  <2>2. \A c \in Listed : Below(c, r) => c = h
    BY <2>1, UnambiguousPaths
  <2>3. \A c \in Listed : ~Below(c, h)
    BY <2>1, UnambiguousPaths
  <2>4. Home(h) = h
    BY <2>3 DEF Home
  <2> QED BY <2>1, <2>2, <2>4
<1>2. CASE ~\E h \in Listed : Below(h, r)
  BY <1>2 DEF Home
<1> QED BY <1>1, <1>2

(* Ports that match have the same home, and ports with the same home match. *)
LEMMA SameHome ==
  ASSUME Unambiguous, yaml \in Yamls, NEW r \in Listed, NEW s \in Listed
  PROVE  Home(r) = Home(s) <=> (<<r, s>> \in Covers \/ <<s, r>> \in Covers)
<1>1. r \in Paths /\ s \in Paths /\ <<r, r>> \in Covers
  BY ListedType, OwnName
<1>2. ASSUME NEW x \in Listed, NEW y \in Listed, <<x, y>> \in Covers
      PROVE  Home(x) = Home(y)
  <2>1. CASE x = y
    BY <2>1
  <2>2. CASE x # y
    <3>1. Below(x, y)
      BY <1>2, <2>2 DEF Below
    <3>2. \A c \in Listed : ~Below(c, x)
      BY <3>1, UnambiguousPaths
    <3>3. Home(x) = x
      BY <3>2 DEF Home
    <3> QED BY <3>1, <3>3, HomeFacts
  <2> QED BY <2>1, <2>2
<1>3. ASSUME Home(r) = Home(s)
      PROVE  <<r, s>> \in Covers \/ <<s, r>> \in Covers
  <2> DEFINE h == Home(r)
  <2>1. /\ h \in Listed /\ (h = r \/ Below(h, r)) /\ (h = s \/ Below(h, s))
    BY <1>3, HomeFacts
  <2> HIDE DEF h
  <2>2. CASE h = r \/ h = s
    BY <1>1, <2>1, <2>2 DEF Below
  <2>3. CASE Below(h, r) /\ Below(h, s)
    <3>1. s = r
      BY <2>1, <2>3, UnambiguousPaths
    <3> QED BY <1>1, <3>1
  <2> QED BY <2>1, <2>2, <2>3
<1> QED BY <1>2, <1>3

(* The keys that match returns true for; and it decides between two paths  *)
(* of a legible description.                                               *)
LEMMA KeyHitsAre ==
  ASSUME NEW path \in Paths, NEW hits \in KeyHits(path)
  PROVE  /\ hits \subseteq Paths
         /\ \A k \in hits : TRUE \in Results[<<k, path>>]
         /\ \A k \in Paths \ hits : FALSE \in Results[<<k, path>>]
<1> DEFINE results == [k \in Paths |-> Results[<<k, path>>]]
<1>1. /\ hits \in Hits(results) /\ DOMAIN results = Paths
      /\ \A k \in Paths : results[k] = Results[<<k, path>>]
  BY DEF KeyHits
<1> HIDE DEF results
<1> QED BY <1>1, HitsAre

LEMMA ListedDecided ==
  ASSUME Legible, NEW h \in Listed, NEW r \in Listed
  PROVE  Decided(h, r)
<1>1. PICK a \in Places : h = PathAt(a)
  BY DEF Listed
<1>2. PICK b \in Places : r = PathAt(b)
  BY DEF Listed
<1> QED BY <1>1, <1>2 DEF Legible

(* Only homes of paths are keys.                                           *)
HomeKeys(table) == \A k \in Paths : table[k] # <<>> => \E r \in Listed : Home(r) = k

(* The homes of all places before this one are keys.                       *)
Ready(table, b) ==
  \A a \in Places : Before(a, b) => table[Home(PathAt(a))] # <<>>

(* Then a path is entered under its home.                                  *)
LEMMA KeyIsHome ==
  ASSUME Unambiguous, Legible, yaml \in Yamls,
         NEW table, NEW b \in Places, HomeKeys(table), Ready(table, b),
         NEW hits \in KeyHits(PathAt(b))
  PROVE  KeyFor(table, PathAt(b), hits) = Home(PathAt(b))
<1> DEFINE r == PathAt(b)
           matching == {k \in hits : table[k] # <<>>}
<1>1. r \in Listed /\ r \in Paths
  BY ListedType DEF Listed
<1>0. /\ hits \subseteq Paths
      /\ \A h \in Listed : h \in Paths /\ (h \in hits <=> <<h, r>> \in Covers)
  <2>1. /\ hits \subseteq Paths
        /\ \A h \in hits : TRUE \in Results[<<h, r>>]
        /\ \A h \in Paths \ hits : FALSE \in Results[<<h, r>>]
    BY <1>1, KeyHitsAre
  <2>2. \A h \in Listed : h \in Paths /\ Decided(h, r)
    BY <1>1, ListedType, ListedDecided
  <2> HIDE DEF r
  <2> QED BY <1>1, <2>1, <2>2, DecidedRight
<1>2. ASSUME NEW k \in matching PROVE k = Home(r)
  <2>1. PICK x \in Listed : Home(x) = k
    BY <1>0 DEF HomeKeys
  <2>2. k \in Listed /\ Home(k) = k
    BY <2>1, HomeFacts
  <2>3. <<k, r>> \in Covers
    BY <1>0, <2>2
  <2>4. CASE k = r
    BY <2>2, <2>4
  <2>5. CASE k # r
    <3>1. Below(k, r)
      BY <2>3, <2>5 DEF Below
    <3> QED BY <1>1, <2>2, <3>1, HomeFacts
  <2> QED BY <2>4, <2>5
<1>3. CASE Home(r) = r
  <2>1. CASE matching = {}
    BY <1>3, <2>1 DEF KeyFor
  <2>2. CASE matching # {}
    <3>1. matching = {Home(r)}
      BY <1>2, <2>2
    <3>2. KeyFor(table, r, hits) = CHOOSE k \in matching : \A j \in matching : k <= j
      <4>1. KeyFor(table, r, hits) =
              IF matching = {} THEN r
              ELSE CHOOSE k \in matching : \A j \in matching : k <= j
        BY DEF KeyFor
      <4> HIDE DEF matching
      <4> QED BY <2>2, <4>1
    <3>3. Home(r) <= Home(r)
      <4>1. r \in Nat
        BY <1>1, PathFacts
      <4> HIDE DEF r
      <4> QED BY <1>3, <4>1
    <3> HIDE DEF matching
    <3> QED BY <3>1, <3>2, <3>3
  <2> QED BY <2>1, <2>2
<1>4. CASE Home(r) # r
  <2> DEFINE h == Home(r)
  <2>1. h \in Listed /\ Below(h, r) /\ Home(h) = h /\ h \in Paths
    BY <1>1, <1>4, HomeFacts, ListedType
  <2>2. PICK a \in Places : h = PathAt(a)
    BY <2>1 DEF Listed
  <2>3. Before(a, b)
    <3>1. Other(a, b)
      BY <2>1, <2>2 DEF Other, Below
    <3> QED BY <3>1 DEF Unambiguous
  <2>4. table[h] # <<>>
    BY <2>1, <2>2, <2>3 DEF Ready
  <2>5. h \in matching
    BY <1>0, <2>1, <2>4 DEF Below
  <2>6. matching = {h} /\ h <= h
    <3>1. (\A k \in matching : k = h) /\ h \in Nat
      BY <1>2, <2>1, PathFacts
    <3> HIDE DEF matching, h
    <3>2. matching = {h}
      BY <2>5, <3>1
    <3>3. h <= h
      BY <3>1
    <3> QED BY <3>2, <3>3
  <2>7. KeyFor(table, r, hits) = CHOOSE k \in matching : \A j \in matching : k <= j
    BY <2>5 DEF KeyFor
  <2> HIDE DEF matching, h
  <2> QED BY <2>6, <2>7 DEF h
<1> QED BY <1>3, <1>4

-----------------------------------------------------------------------------
(* What the loop over the ports of a node enters: v under the home of each. *)
Homed(ports, i, k) == \E m \in 1 .. i : Home(ports[m].path) = k

After(table, ports, i, v, new) ==
  \A k \in Paths :
    ToSet(new[k]) = ToSet(table[k]) \cup {w \in {v} : Homed(ports, i, k)}

(* The ports listed from place off on of the task at hand, all places      *)
(* before them being keys.                                                 *)
ListedFrom(off, ports) ==
  \A m \in 1 .. Len(ports) :
    /\ <<task, off + m>> \in Places
    /\ PathAt(<<task, off + m>>) = ports[m].path

ReadTo(table, off) ==
  \A a \in Places : a[1] < task \/ (a[1] = task /\ a[2] <= off) =>
    table[Home(PathAt(a))] # <<>>

(* A list is empty if it has no elements.                                  *)
LEMMA NoElements ==
  ASSUME NEW S, NEW s \in Seq(S)
  PROVE  s = <<>> <=> ToSet(s) = {}
<1>1. s = <<>> => ToSet(s) = {}
  BY DEF ToSet
<1>2. ASSUME s # <<>> PROVE ToSet(s) # {}
  <2>1. Len(s) # 0 /\ Len(s) \in Nat /\ DOMAIN s = 1 .. Len(s)
    BY <1>2, EmptySeq, LenProperties
  <2>2. s[1] \in ToSet(s)
    BY <2>1 DEF ToSet
  <2> QED BY <2>2
<1> QED BY <1>1, <1>2

(* The homes of listed paths are paths.                                    *)
LEMMA HomeType ==
  ASSUME Unambiguous, yaml \in Yamls, NEW a \in Places
  PROVE  PathAt(a) \in Paths /\ PathAt(a) \in Listed /\ Home(PathAt(a)) \in Paths
BY ListedType, HomeFacts DEF Listed

(* If the places before are keys, the loop enters every port under its     *)
(* home.                                                                   *)
LEMMA LoopEnters ==
  ASSUME Unambiguous, Legible, NEW V, NEW v, NEW table, NEW range,
         NEW ports, NEW mets, Looping(V, v, table, range, ports, mets),
         NEW off \in Nat,
         ListedFrom(off, ports), ReadTo(table, off), HomeKeys(table)
  PROVE  LET new == AddPorts(table, range, mets, v).table IN
           After(table, ports, Len(ports), v, new) /\ HomeKeys(new)
<1> DEFINE n == Len(ports)
<1>1. n \in Nat /\ yaml \in Yamls /\ task \in Nat
  <2>1. DOMAIN yaml = 1 .. Len(yaml) /\ Len(yaml) \in Nat
    BY YamlType DEF Looping, Adding, PlaceRight
  <2> QED BY <2>1, LenProperties DEF Looping, Adding, PlaceRight
<1>2. PICK y \in [0 .. n -> Accs(V)] :
             /\ y[0] = Started(table, range)
             /\ \A i \in 1 .. n : y[i] = AddPort(y[i - 1], mets[i], v)
             /\ y[n] = AddPorts(table, range, mets, v)
  BY LoopRounds DEF HasRounds
<1>3. \A i \in 0 .. n : /\ y[i].table \in [Paths -> Seq(Int)]
                        /\ \A k \in Paths : y[i].table[k] \in Seq(Int)
  BY <1>2 DEF Accs, Tables
<1>4. table \in [Paths -> Seq(Int)] /\ \A k \in Paths : table[k] \in Seq(Int)
  BY DEF Looping, Tables
<1> DEFINE D == {i \in 0 .. n : /\ After(table, ports, i, v, y[i].table)
                                /\ HomeKeys(y[i].table)}
<1>5. 0 \in D
  <2>1. y[0].table = table
    BY <1>2 DEF Started
  <2>2. \A k : ~Homed(ports, 0, k)
    BY DEF Homed
  <2>3. After(table, ports, 0, v, table)
    BY <2>2 DEF After
  <2> QED BY <1>1, <2>1, <2>3
<1>6. ASSUME NEW i \in 1 .. n, i - 1 \in D PROVE i \in D
  <2> DEFINE old == y[i - 1].table
             new == y[i].table
             b == <<task, off + i>>
             h == Home(PathAt(b))
  <2>1. i - 1 \in 0 .. n /\ i \in 0 .. n
    BY <1>1
  <2>2. b \in Places /\ PathAt(b) = ports[i].path
    BY DEF ListedFrom
  <2>3. /\ old \in [Paths -> Seq(Int)] /\ \A k \in Paths : old[k] \in Seq(Int)
    BY <1>3, <2>1
  <2>4. After(table, ports, i - 1, v, old) /\ HomeKeys(old)
    BY <1>6
  <2>5. h \in Paths /\ PathAt(b) \in Listed
    BY <1>1, <2>2, HomeType
  <2>6. Ready(old, b)
    <3> SUFFICES ASSUME NEW a \in Places, Before(a, b)
                 PROVE  old[Home(PathAt(a))] # <<>>
      BY DEF Ready
    <3> DEFINE k == Home(PathAt(a))
    <3>1. k \in Paths
      BY <1>1, HomeType
    <3>2. CASE a[1] < task \/ (a[1] = task /\ a[2] <= off)
      <4>1. table[k] # <<>>
        BY <3>2 DEF ReadTo
      <4>2. ToSet(table[k]) # {}
        BY <1>4, <3>1, <4>1, NoElements
      <4>3. ToSet(old[k]) # {}
        BY <2>4, <3>1, <4>2 DEF After
      <4> QED BY <2>3, <3>1, <4>3, NoElements
    <3>3. CASE a[1] = task /\ ~(a[2] <= off)
      <4>1. a[2] \in Nat /\ a = <<a[1], a[2]>>
        <5>1. PICK t \in DOMAIN yaml : a \in {t} \X DOMAIN PortsOf(yaml[t])
          BY DEF Places
        <5> DEFINE A == Len(yaml[t].inports)
                   B == Len(yaml[t].outports)
        <5>2. A \in Nat /\ B \in Nat /\ DOMAIN PortsOf(yaml[t]) = 1 .. A + B
          BY <1>1, PortsOfType
        <5> HIDE DEF A, B
        <5>3. PICK m \in 1 .. A + B : a = <<t, m>>
          BY <5>1, <5>2
        <5> QED BY <5>2, <5>3
      <4>2. a[2] < off + i
        BY <1>1, <3>3 DEF Before
      <4> DEFINE m == a[2] - off
      <4>3. m \in 1 .. i - 1 /\ m \in 1 .. n /\ off + m = a[2]
        BY <1>1, <3>3, <4>1, <4>2
      <4>4. PathAt(a) = ports[m].path
        BY <3>3, <4>1, <4>3 DEF ListedFrom
      <4>5. Homed(ports, i - 1, k)
        BY <4>3, <4>4 DEF Homed
      <4>6. v \in ToSet(old[k])
        BY <2>4, <3>1, <4>5 DEF After
      <4>7. ToSet(old[k]) # {}
        BY <4>6
      <4> QED BY <2>3, <3>1, <4>7, NoElements
    <3>4. a[1] < task \/ a[1] = task
      BY DEF Before
    <3> QED BY <3>2, <3>3, <3>4
  <2>7. KeyFor(old, mets[i].port.path, mets[i].hits) = h
    <3>1. mets[i].port = ports[i] /\ mets[i].hits \in KeyHits(PathAt(b))
      BY <2>2, LoopRounds
    <3> HIDE DEF old, b
    <3>2. KeyFor(old, PathAt(b), mets[i].hits) = Home(PathAt(b))
      BY <1>1, <2>2, <2>4, <2>6, <3>1, KeyIsHome
    <3> QED BY <2>2, <3>1, <3>2
  <2>8. new = [old EXCEPT ![h] = Append(@, v)]
    <3>1. Adds(y[i - 1], mets[i], v, y[i])
      BY <1>2, AddPortAdds
    <3> QED BY <2>7, <3>1 DEF Adds
  <2> HIDE DEF old, new, h
  <2>9. v \in Int
    BY DEF Looping
  <2>10. ToSet(new[h]) = ToSet(old[h]) \cup {v}
    <3> DEFINE s == old[h]
               u == Append(s, v)
    <3>1. s \in Seq(Int) /\ new[h] = u
      BY <2>3, <2>5, <2>8
    <3> HIDE DEF s
    <3>2. /\ DOMAIN s = 1 .. Len(s) /\ Len(s) \in Nat
          /\ DOMAIN u = 1 .. Len(s) + 1
          /\ \A j \in 1 .. Len(s) : u[j] = s[j]
          /\ u[Len(s) + 1] = v
      BY <2>9, <3>1, AppendProperties, LenProperties
    <3> HIDE DEF u
    <3>3. \A x \in ToSet(u) : x \in ToSet(s) \cup {v}
      <4>1. \A j \in 1 .. Len(s) + 1 : j \in 1 .. Len(s) \/ j = Len(s) + 1
        BY <3>2
      <4> QED BY <3>2, <4>1 DEF ToSet
    <3>4. v \in ToSet(u)
      <4>1. Len(s) + 1 \in 1 .. Len(s) + 1
        BY <3>2
      <4> QED BY <3>2, <4>1 DEF ToSet
    <3>5. \A x \in ToSet(s) : x \in ToSet(u)
      <4>1. \A j \in 1 .. Len(s) : j \in 1 .. Len(s) + 1
        BY <3>2
      <4> QED BY <3>2, <4>1 DEF ToSet
    <3> QED BY <3>1, <3>3, <3>4, <3>5 DEF s
  <2>11. \A k \in Paths : k # h => new[k] = old[k]
    BY <2>3, <2>8
  <2>12. \A k : Homed(ports, i, k) <=> Homed(ports, i - 1, k) \/ k = h
    <3>1. \A m \in 1 .. i : m \in 1 .. i - 1 \/ m = i
      BY <1>1
    <3>2. \A m \in 1 .. i - 1 : m \in 1 .. i
      BY <1>1
    <3>3. i \in 1 .. i /\ h = Home(ports[i].path)
      BY <1>1, <2>2 DEF h
    <3> QED BY <3>1, <3>2, <3>3 DEF Homed
  <2>13. After(table, ports, i, v, new)
    <3> SUFFICES ASSUME NEW k \in Paths
                 PROVE  ToSet(new[k]) = ToSet(table[k])
                                          \cup {w \in {v} : Homed(ports, i, k)}
      BY DEF After
    <3>1. ToSet(old[k]) = ToSet(table[k])
                            \cup {w \in {v} : Homed(ports, i - 1, k)}
      BY <2>4 DEF After
    <3>2. CASE k = h
      BY <2>10, <2>12, <3>1, <3>2
    <3>3. CASE k # h
      BY <2>11, <2>12, <3>1, <3>3
    <3> QED BY <3>2, <3>3
  <2>14. HomeKeys(new)
    <3> SUFFICES ASSUME NEW k \in Paths, new[k] # <<>>
                 PROVE  \E r \in Listed : Home(r) = k
      BY DEF HomeKeys
    <3>1. CASE k = h
      BY <2>5, <3>1 DEF h
    <3>2. CASE k # h
      BY <2>4, <2>11, <3>2 DEF HomeKeys
    <3> QED BY <3>1, <3>2
  <2> QED BY <2>1, <2>13, <2>14 DEF new
<1>7. n \in D
  <2> HIDE DEF D
  <2>1. \A i \in 0 .. n : i \in D
    BY <1>1, <1>5, <1>6, UpTo
  <2> QED BY <1>1, <2>1
<1> QED BY <1>2, <1>7

(* What depends on the description alone stays.                            *)
LEMMA HomeSame ==
  ASSUME yaml' = yaml
  PROVE  /\ Places' = Places /\ Listed' = Listed
         /\ \A a : PathAt(a)' = PathAt(a)
         /\ \A r : Home(r)' = Home(r)
         /\ Unambiguous' = Unambiguous /\ Legible' = Legible
<1>1. Places' = Places /\ \A a : PathAt(a)' = PathAt(a)
  BY DEF Places, PathAt
<1>2. Listed' = Listed
  BY <1>1 DEF Listed
<1>3. \A r : Home(r)' = Home(r)
  BY <1>2 DEF Home
<1>4. \A a, b : Other(a, b)' = Other(a, b)
  BY <1>1 DEF Other
<1>5. Unambiguous' = Unambiguous
  BY <1>1, <1>4 DEF Unambiguous
<1>6. Legible' = Legible
  BY <1>1 DEF Legible
<1> QED BY <1>1, <1>2, <1>3, <1>5, <1>6

(* The homes of the ports of a node are those of its task's ports.         *)
LEMMA CopiesHomed ==
  ASSUME NEW S, NEW list \in Seq(S), NEW ports, Copies(list, ports), NEW k
  PROVE  (\E p \in ToSet(list) : Home(p.path) = k) <=> Homed(ports, Len(ports), k)
<1>1. DOMAIN list = 1 .. Len(ports) /\ \A m \in 1 .. Len(ports) : Same(list[m], ports[m])
  BY LenProperties DEF Copies
<1>2. \A m \in 1 .. Len(ports) : list[m].path = ports[m].path
  BY <1>1 DEF Same
<1>3. ASSUME NEW p \in ToSet(list), Home(p.path) = k
      PROVE  Homed(ports, Len(ports), k)
  <2>1. PICK m \in 1 .. Len(ports) : p = list[m]
    BY <1>1 DEF ToSet
  <2> QED BY <1>2, <1>3, <2>1 DEF Homed
<1>4. ASSUME Homed(ports, Len(ports), k)
      PROVE  \E p \in ToSet(list) : Home(p.path) = k
  <2>1. PICK m \in 1 .. Len(ports) : Home(ports[m].path) = k
    BY <1>4 DEF Homed
  <2>2. list[m] \in ToSet(list)
    BY <1>1 DEF ToSet
  <2> QED BY <1>2, <2>1, <2>2
<1> QED BY <1>3, <1>4

(* The entries a new node adds.                                            *)
EntriesAdded ==
  /\ HomeKeys(workflow_links')
  /\ \A k \in Paths :
       ToSet(workflow_links'[k]) =
         ToSet(workflow_links[k])
           \cup {w \in {AsConsumer(Len(nodes))} :
                   Homed(yaml[task].inports, Len(yaml[task].inports), k)}
           \cup {w \in {-Len(nodes)} :
                   Homed(yaml[task].outports, Len(yaml[task].outports), k)}

(* AddNode enters its inports as consumer, then its outports as producer,  *)
(* under their homes.                                                      *)
LEMMA AddNodeEnters ==
  ASSUME GInv, HomesRight, Unambiguous, Legible, AddNode
  PROVE  EntriesAdded
<1>0. PICK mins, mouts : LoopsOf(mins, mouts)
  BY NodeLoops
<1> DEFINE V == NewEntries
           a == AsConsumer(Len(nodes))
           b == -Len(nodes)
           ip == yaml[task].inports
           op == yaml[task].outports
           ins == InsAdded(mins)
           outs == OutsAdded(mins, mouts)
<1>1. /\ Looping(V, a, workflow_links, RangeAt(index), ip, mins)
      /\ Looping(V, b, ins.table, ins.range, op, mouts)
  BY <1>0 DEF LoopsOf
<1>2. /\ yaml \in Yamls /\ task \in DOMAIN yaml /\ task \in Nat
      /\ DOMAIN yaml = 1 .. Len(yaml) /\ Len(yaml) \in Nat
  BY <1>1, AddingFacts, YamlType DEF Looping, Adding, PlaceRight
<1>3. /\ Len(ip) \in Nat /\ Len(op) \in Nat
      /\ \A m \in 1 .. Len(ip) : /\ InPlace(task, m) \in Places
                                 /\ PathAt(InPlace(task, m)) = ip[m].path
      /\ \A m \in 1 .. Len(op) : /\ OutPlace(task, m) \in Places
                                 /\ PathAt(OutPlace(task, m)) = op[m].path
  BY <1>2, PortsOfType
<1>4. ListedFrom(0, ip)
  <2>1. \A m \in 1 .. Len(ip) : <<task, 0 + m>> = InPlace(task, m)
    BY <1>3 DEF InPlace
  <2> QED BY <1>3, <2>1 DEF ListedFrom
<1>5. ListedFrom(Len(ip), op)
  BY <1>3 DEF ListedFrom, OutPlace
<1>6. ASSUME NEW c \in Places
      PROVE  /\ c[1] \in Nat /\ c[2] \in Nat \ {0}
             /\ (c[1] = task /\ c[2] <= Len(ip)) =>
                  \E m \in 1 .. Len(ip) : PathAt(c) = ip[m].path
  <2>1. PICK i \in DOMAIN yaml :
           /\ c[1] = i
           /\ \/ \E m \in 1 .. Len(yaml[i].inports) : c = InPlace(i, m)
              \/ \E m \in 1 .. Len(yaml[i].outports) : c = OutPlace(i, m)
    BY <1>2, PlaceCases
  <2>2. Len(yaml[i].inports) \in Nat /\ Len(yaml[i].outports) \in Nat /\ i \in Nat
    BY <1>2, PortsOfType
  <2>3. CASE \E m \in 1 .. Len(yaml[i].inports) : c = InPlace(i, m)
    <3>1. PICK m \in 1 .. Len(yaml[i].inports) : c = InPlace(i, m)
      BY <2>3
    <3>2. c[2] = m
      BY <3>1 DEF InPlace
    <3>3. c[1] = task => PathAt(c) = ip[m].path /\ m \in 1 .. Len(ip)
      BY <1>3, <2>1, <3>1
    <3> QED BY <2>1, <2>2, <3>2, <3>3
  <2>4. CASE \E m \in 1 .. Len(yaml[i].outports) : c = OutPlace(i, m)
    <3>1. PICK m \in 1 .. Len(yaml[i].outports) : c = OutPlace(i, m)
      BY <2>4
    <3>2. c[2] = Len(yaml[i].inports) + m
      BY <3>1 DEF OutPlace
    <3>3. c[2] \in Nat \ {0} /\ ~(c[2] <= Len(yaml[i].inports))
      BY <2>2, <3>2
    <3> QED BY <2>1, <2>2, <3>3
  <2> QED BY <2>1, <2>3, <2>4
<1>7. ASSUME NEW c \in Places, c[1] < task
      PROVE  /\ workflow_links[Home(PathAt(c))] # <<>>
             /\ Home(PathAt(c)) \in Paths
  BY <1>2, <1>7, HomeType DEF HomesRight, Read
<1>8. ReadTo(workflow_links, 0) /\ HomeKeys(workflow_links)
  <2>1. ReadTo(workflow_links, 0)
    BY <1>6, <1>7 DEF ReadTo
  <2>2. HomeKeys(workflow_links)
    BY DEF HomesRight, HomeKeys
  <2> QED BY <2>1, <2>2
<1>9. After(workflow_links, ip, Len(ip), a, ins.table) /\ HomeKeys(ins.table)
  BY <1>1, <1>4, <1>8, LoopEnters DEF InsAdded
<1>10. ReadTo(ins.table, Len(ip))
  <2> SUFFICES ASSUME NEW c \in Places,
                      c[1] < task \/ (c[1] = task /\ c[2] <= Len(ip))
               PROVE  ins.table[Home(PathAt(c))] # <<>>
    BY DEF ReadTo
  <2> DEFINE k == Home(PathAt(c))
  <2>1. k \in Paths
    BY <1>2, HomeType
  <2>2. workflow_links[k] \in Seq(Int) /\ ins.table[k] \in Seq(Int)
    BY <1>1, <2>1 DEF Looping, Tables
  <2>3. ToSet(ins.table[k]) # {}
    <3>1. CASE c[1] < task
      <4>1. ToSet(workflow_links[k]) # {}
        BY <1>7, <2>2, <3>1, NoElements
      <4> QED BY <1>9, <2>1, <4>1 DEF After
    <3>2. CASE c[1] = task /\ c[2] <= Len(ip)
      <4>1. Homed(ip, Len(ip), k)
        BY <1>6, <3>2 DEF Homed
      <4>2. a \in ToSet(ins.table[k])
        BY <1>9, <2>1, <4>1 DEF After
      <4> QED BY <4>2
    <3> QED BY <3>1, <3>2
  <2> HIDE DEF ins, k
  <2> QED BY <2>2, <2>3, NoElements DEF k
<1>11. /\ After(ins.table, op, Len(op), b, outs.table)
       /\ HomeKeys(outs.table)
  BY <1>1, <1>3, <1>5, <1>9, <1>10, LoopEnters DEF OutsAdded
<1>12. workflow_links' = outs.table
  BY <1>0 DEF LoopsOf, AddsNode, NodeAdded
<1> HIDE DEF ins, outs, a, b, ip, op
<1>13. ASSUME NEW k \in Paths
       PROVE  ToSet(workflow_links'[k]) =
                ToSet(workflow_links[k])
                  \cup {w \in {a} : Homed(ip, Len(ip), k)}
                  \cup {w \in {b} : Homed(op, Len(op), k)}
  BY <1>9, <1>11, <1>12 DEF After
<1> QED BY <1>11, <1>12, <1>13 DEF EntriesAdded, a, b, ip, op

(* HomesRight is kept by AddNode, and by every other step.                 *)
LEMMA HomesStep ==
  ASSUME GInv, HomesRight, Unambiguous, Legible, AddNode
  PROVE  HomesRight'
<1>0. PICK N : N = Len(nodes)
  OBVIOUS
<1>a. PICK mins, mouts : LoopsOf(mins, mouts)
  BY NodeLoops
<1> DEFINE a == AsConsumer(N)
           b == -N
           ip == yaml[task].inports
           op == yaml[task].outports
           ins == InsAdded(mins)
           outs == OutsAdded(mins, mouts)
           new == NodeRecord(ins, outs)
<1>1. Adding /\ NodeAdded(NewEntries, ins, outs)
  BY <1>a, NodeLoops DEF LoopsOf, AddsNode
<1>2. /\ N \in Nat /\ Len(nodes') = N + 1
      /\ DOMAIN nodes = 1 .. N
      /\ \A m \in DOMAIN nodes : nodes'[m] = nodes[m]
      /\ nodes'[N + 1] = new
  BY <1>0, <1>1, NodesGrow
<1>3. /\ yaml' = yaml /\ yaml \in Yamls /\ task \in DOMAIN yaml
      /\ workflow_links' = outs.table
      /\ ins.ports \in Seq(NodePorts(task, index))
      /\ outs.ports \in Seq(NodePorts(task, index))
  BY <1>1, AddingFacts DEF NodeAdded, Adding, PlaceRight, Accs
<1>4. Copies(ins.ports, ip) /\ Copies(outs.ports, op)
  BY <1>a, NewNodeCopies DEF CopyOf, NodeRecord
<1>5. EntriesAdded
  BY AddNodeEnters
<1>6. /\ Places' = Places /\ Listed' = Listed
      /\ \A c : PathAt(c)' = PathAt(c)
      /\ \A r : Home(r)' = Home(r)
  BY <1>3, HomeSame
<1>7. NodeIds' = NodeIds \cup {N} /\ NodeIds = 0 .. N - 1 /\ N \notin NodeIds
  BY <1>0, <1>2 DEF NodeIds
<1>8. ASSUME NEW n \in NodeIds, NEW k
      PROVE  (InAt(n, k)' <=> InAt(n, k)) /\ (OutAt(n, k)' <=> OutAt(n, k))
  <2>1. Node(n)' = Node(n)
    BY <1>2, <1>7 DEF Node
  <2> QED BY <1>6, <2>1 DEF InAt, OutAt
<1>9. ASSUME NEW k
      PROVE  /\ InAt(N, k)' <=> Homed(ip, Len(ip), k)
             /\ OutAt(N, k)' <=> Homed(op, Len(op), k)
  <2>1. nodes'[N + 1].l5_inports = ins.ports /\ nodes'[N + 1].l5_outports = outs.ports
    BY <1>2 DEF NodeRecord
  <2>2. InAt(N, k)' <=> \E p \in ToSet(ins.ports) : Home(p.path) = k
    BY <1>2, <1>6, <2>1 DEF InAt, Node
  <2>3. OutAt(N, k)' <=> \E p \in ToSet(outs.ports) : Home(p.path) = k
    BY <1>2, <1>6, <2>1 DEF OutAt, Node
  <2> HIDE DEF ins, outs, ip, op
  <2> QED BY <1>3, <1>4, <2>2, <2>3, CopiesHomed
<1> DEFINE old(k) == ToSet(workflow_links[k])
           now(k) == ToSet(workflow_links'[k])
<1>10. ASSUME NEW k \in Paths
       PROVE  now(k) = old(k) \cup {w \in {a} : Homed(ip, Len(ip), k)}
                              \cup {w \in {b} : Homed(op, Len(op), k)}
  BY <1>0, <1>5 DEF EntriesAdded
<1>11. \A k \in Paths : workflow_links[k] \in Seq(Int) /\ workflow_links'[k] \in Seq(Int)
  <2>1. outs.table \in Tables(NewEntries)
    BY <1>1 DEF NodeAdded, Accs
  <2> QED BY <1>3, <2>1 DEF Tables, GInv, TableRight
<1> HIDE DEF a, b, ins, outs, new, ip, op
<1>12. \A k \in Paths : workflow_links'[k] # <<>> => \E r \in Listed' : Home(r)' = k
  BY <1>5, <1>6 DEF EntriesAdded, HomeKeys
<1>13. ASSUME NEW c \in Places, Read(c)'
       PROVE  workflow_links'[Home(PathAt(c))] # <<>>
  <2> DEFINE k == Home(PathAt(c))
  <2>0. Unambiguous /\ yaml \in Yamls
    BY <1>3
  <2>1. k \in Paths
    BY <2>0, HomeType
  <2>2. now(k) # {}
    <3>1. PICK i \in DOMAIN yaml :
             /\ c[1] = i
             /\ \/ \E m \in 1 .. Len(yaml[i].inports) : c = InPlace(i, m)
                \/ \E m \in 1 .. Len(yaml[i].outports) : c = OutPlace(i, m)
      BY <1>3, PlaceCases
    <3>2. c[1] < task \/ c[1] = task
      <4>1. i \in Nat /\ task \in Nat
        BY <1>3, YamlType
      <4>2. task' = task \/ (task' = task + 1 /\ index' = 0)
        BY <1>1 DEF NodeAdded
      <4> QED BY <1>13, <3>1, <4>1, <4>2 DEF Read
    <3>3. CASE c[1] < task
      <4>1. workflow_links[k] # <<>>
        BY <3>3 DEF HomesRight, Read
      <4>2. old(k) # {}
        BY <1>11, <2>1, <4>1, NoElements
      <4> QED BY <1>10, <2>1, <4>2
    <3>4. CASE c[1] = task
      <4>1. CASE \E m \in 1 .. Len(ip) : c = InPlace(task, m)
        <5>1. Homed(ip, Len(ip), k)
          BY <1>3, <4>1, PortsOfType DEF Homed, ip
        <5>2. a \in now(k)
          BY <1>10, <2>1, <5>1
        <5> QED BY <5>2
      <4>2. CASE \E m \in 1 .. Len(op) : c = OutPlace(task, m)
        <5>1. Homed(op, Len(op), k)
          BY <1>3, <4>2, PortsOfType DEF Homed, op
        <5>2. b \in now(k)
          BY <1>10, <2>1, <5>1
        <5> QED BY <5>2
      <4> QED BY <3>1, <3>4, <4>1, <4>2 DEF ip, op
    <3> QED BY <3>2, <3>3, <3>4
  <2> HIDE DEF k
  <2> QED BY <1>11, <2>1, <2>2, NoElements DEF k
<1>14. ASSUME NEW k \in Paths, NEW w \in now(k)
       PROVE  \/ \E n \in NodeIds' : w = AsConsumer(n) /\ w > 0 /\ InAt(n, k)'
              \/ \E n \in NodeIds' : w = -n /\ OutAt(n, k)'
  <2>1. CASE w \in old(k)
    <3>1. \/ \E n \in NodeIds : w = AsConsumer(n) /\ w > 0 /\ InAt(n, k)
          \/ \E n \in NodeIds : w = -n /\ OutAt(n, k)
      BY <2>1 DEF HomesRight
    <3> QED BY <1>7, <1>8, <3>1
  <2>2. CASE w = a /\ Homed(ip, Len(ip), k)
    <3>1. a = AsConsumer(N) /\ a > 0
      <4>1. Sentinel > 0
        BY YamlAssumption
      <4> QED BY <1>2, <4>1 DEF a, AsConsumer
    <3> QED BY <1>7, <1>9, <2>2, <3>1
  <2>3. CASE w = b /\ Homed(op, Len(op), k)
    BY <1>7, <1>9, <2>3 DEF b
  <2> QED BY <1>10, <2>1, <2>2, <2>3
<1>15. ASSUME NEW n \in NodeIds', NEW k \in Paths
       PROVE  /\ InAt(n, k)' => AsConsumer(n) \in now(k)
              /\ OutAt(n, k)' => -n \in now(k)
  <2>1. CASE n \in NodeIds
    <3>1. /\ InAt(n, k) => AsConsumer(n) \in old(k)
          /\ OutAt(n, k) => -n \in old(k)
      BY <2>1 DEF HomesRight
    <3> QED BY <1>8, <1>10, <2>1, <3>1
  <2>2. CASE n = N
    BY <1>9, <1>10, <2>2 DEF a, b
  <2> QED BY <1>7, <2>1, <2>2
<1> QED BY <1>6, <1>12, <1>13, <1>14, <1>15 DEF HomesRight, AsConsumer

(* Other steps change neither entries nor ports.                           *)
LEMMA HomesKept ==
  ASSUME GInv, HomesRight, NodesSame
  PROVE  HomesRight'
<1>1. /\ yaml' = yaml /\ task' = task /\ index' = index
      /\ workflow_links' = workflow_links /\ NodeIds' = NodeIds
  BY DEF NodesSame, NodeIds
<1>2. /\ Places' = Places /\ Listed' = Listed
      /\ \A c : PathAt(c)' = PathAt(c)
      /\ \A r : Home(r)' = Home(r)
  BY <1>1, HomeSame
<1>3. \A c : Read(c)' <=> Read(c)
  BY <1>1 DEF Read
<1>4. ASSUME NEW n \in NodeIds, NEW k
      PROVE  (InAt(n, k)' <=> InAt(n, k)) /\ (OutAt(n, k)' <=> OutAt(n, k))
  <2>0. n + 1 \in DOMAIN nodes
    BY LenProperties DEF GInv, NodesRight, NodeIds
  <2>1. /\ Node(n)'.l5_inports = Node(n).l5_inports
        /\ Node(n)'.l5_outports = Node(n).l5_outports
    BY <2>0 DEF NodesSame, Node
  <2> QED BY <1>2, <2>1 DEF InAt, OutAt
<1> QED BY <1>1, <1>2, <1>3, <1>4 DEF HomesRight, AsConsumer

-----------------------------------------------------------------------------
(* Which links a key gets.                                                 *)

(* Multiples of q are q apart, and dividing by q finds them again.         *)
LEMMA Multiples ==
  ASSUME NEW q \in Nat \ {0}, NEW d \in Int, NEW e \in Int
  PROVE  /\ d < e => q * d + q <= q * e
         /\ \A r \in 0 .. q - 1 : (q * d + r) \div q = d
<1>1. ASSUME NEW x \in Int, NEW y \in Int, x < y PROVE q * x + q <= q * y
  <2>1. y - x >= 1
    BY <1>1
  <2>2. q * (y - x) >= q
    <3>1. ASSUME NEW a \in Nat \ {0} PROVE q * a >= q
      OBVIOUS
    <3>2. y - x \in Nat \ {0}
      BY <2>1
    <3> QED BY <3>1, <3>2
  <2>3. q * (y - x) = q * y - q * x
    OBVIOUS
  <2>4. q * y \in Int /\ q * x \in Int
    OBVIOUS
  <2> QED BY <2>2, <2>3, <2>4
<1>2. ASSUME NEW r \in 0 .. q - 1 PROVE (q * d + r) \div q = d
  <2> DEFINE x == q * d + r
             s == x \div q
             t == x % q
  <2>1. x \in Int
    OBVIOUS
  <2>2. s \in Int /\ t \in 0 .. q - 1 /\ x = q * s + t
    <3> HIDE DEF x
    <3> QED BY <2>1
  <2> HIDE DEF s, t
  <2>3. q * d + r = q * s + t /\ q * d \in Int /\ q * s \in Int
    BY <2>2
  <2>4. ~(s < d)
    <3> SUFFICES ASSUME s < d PROVE FALSE
      OBVIOUS
    <3>1. q * s + q <= q * d
      BY <1>1, <2>2
    <3> QED BY <2>2, <2>3, <3>1
  <2>5. ~(d < s)
    <3> SUFFICES ASSUME d < s PROVE FALSE
      OBVIOUS
    <3>1. q * d + q <= q * s
      BY <1>1, <2>2
    <3> QED BY <2>2, <2>3, <3>1
  <2> QED BY <2>2, <2>4, <2>5 DEF s
<1> QED BY <1>1, <1>2

(* With multiples every place of the shorter list has quot links: links     *)
(* quot * (j - 1) + 1 to quot * j go to place j.                           *)
LEMMA PartnerPlaces ==
  ASSUME NEW L \in Nat, NEW S \in Nat \ {0}, L >= S, L % S = 0
  PROVE  /\ L \div S \in Nat \ {0} /\ L = (L \div S) * S
         /\ \A i \in 1 .. L :
              /\ Partner(i - 1, L, S) \in 1 .. S
              /\ \A j \in 1 .. S : Partner(i - 1, L, S) = j <=>
                   /\ (L \div S) * (j - 1) < i
                   /\ i <= (L \div S) * (j - 1) + (L \div S)
<1> DEFINE q == L \div S
<1>1. q \in Nat \ {0}
  BY QuotientType
<1>2. L = q * S
  <2>1. q \in Int /\ L = S * q + (L % S)
    OBVIOUS
  <2> QED BY <2>1
<1>3. ASSUME NEW i \in 1 .. L
      PROVE  /\ Partner(i - 1, L, S) \in 1 .. S
             /\ \A j \in 1 .. S : Partner(i - 1, L, S) = j <=>
                  q * (j - 1) < i /\ i <= q * (j - 1) + q
  <2> DEFINE d == (i - 1) \div q
             r == (i - 1) % q
  <2>1. Partner(i - 1, L, S) = d + 1
    BY DEF Partner
  <2> HIDE DEF q
  <2>2. i - 1 \in Nat
    OBVIOUS
  <2>3. d \in Nat
    BY <1>1, <2>2, QuotientType
  <2>4. r \in 0 .. q - 1 /\ i - 1 = q * d + r /\ q * d \in Int
    BY <1>1, <2>2, <2>3
  <2> HIDE DEF d, r
  <2>5. d < S
    <3> SUFFICES ASSUME S <= d PROVE FALSE
      BY <2>3
    <3>1. q * S <= q * d
      <4>1. CASE S = d
        BY <2>4, <4>1
      <4>2. CASE S < d
        <5>1. q * S + q <= q * d /\ q * S \in Int
          BY <1>1, <2>3, <4>2, Multiples
        <5> QED BY <1>1, <2>4, <5>1
      <4> QED BY <2>3, <4>1, <4>2
    <3> QED BY <1>2, <2>4, <3>1
  <2>6. ASSUME NEW j \in 1 .. S
        PROVE  d + 1 = j <=> q * (j - 1) < i /\ i <= q * (j - 1) + q
    <3>1. j - 1 \in Int /\ q * (j - 1) \in Int
      BY <1>1
    <3>2. CASE d = j - 1
      BY <1>1, <2>3, <2>4, <3>1, <3>2
    <3>3. CASE d < j - 1
      <4>1. q * d + q <= q * (j - 1)
        BY <1>1, <2>3, <3>1, <3>3, Multiples
      <4> QED BY <1>1, <2>3, <2>4, <3>1, <3>3, <4>1
    <3>4. CASE j - 1 < d
      <4>1. q * (j - 1) + q <= q * d
        BY <1>1, <2>3, <3>1, <3>4, Multiples
      <4> QED BY <1>1, <2>3, <2>4, <3>1, <3>4, <4>1
    <3> QED BY <2>3, <3>1, <3>2, <3>3, <3>4
  <2> QED BY <2>1, <2>3, <2>5, <2>6
<1> QED BY <1>1, <1>2, <1>3

(* The two lists of a key with both ends.                                  *)
LEMMA TwoLists ==
  ASSUME GInv, NEW k \in Paths, ~OneSided(k)
  PROVE  /\ LongerList(k) \in Seq(NodeIds) /\ ShorterList(k) \in Seq(NodeIds)
         /\ Len(LongerList(k)) \in Nat /\ Len(ShorterList(k)) \in Nat \ {0}
         /\ Len(LongerList(k)) >= Len(ShorterList(k))
         /\ DOMAIN LongerList(k) = 1 .. Len(LongerList(k))
         /\ DOMAIN ShorterList(k) = 1 .. Len(ShorterList(k))
         /\ Even(k) <=> Len(LongerList(k)) % Len(ShorterList(k)) = 0
<1> DEFINE p == Producers(k)
           c == Consumers(k)
<1>1. p \in Seq(NodeIds) /\ c \in Seq(NodeIds) /\ p # <<>> /\ c # <<>>
  BY EndsType DEF OneSided
<1> HIDE DEF p, c
<1>2. /\ Len(p) \in Nat \ {0} /\ Len(c) \in Nat \ {0}
      /\ DOMAIN p = 1 .. Len(p) /\ DOMAIN c = 1 .. Len(c)
  BY <1>1, EmptySeq, LenProperties
<1>3. /\ LongerList(k) = IF Len(p) <= Len(c) THEN c ELSE p
      /\ ShorterList(k) = IF Len(p) <= Len(c) THEN p ELSE c
      /\ Longer(k) = Len(LongerList(k)) /\ Shorter(k) = Len(ShorterList(k))
  BY DEF LongerList, ShorterList, ByCon, p, c, Longer, Shorter
<1>4. Len(ShorterList(k)) # 0
  BY <1>2, <1>3
<1>5. Even(k) <=> Len(LongerList(k)) % Len(ShorterList(k)) = 0
  BY <1>3, <1>4 DEF Even
<1>6. CASE Len(p) <= Len(c)
  BY <1>1, <1>2, <1>3, <1>5, <1>6
<1>7. CASE ~(Len(p) <= Len(c))
  BY <1>1, <1>2, <1>3, <1>5, <1>7
<1> QED BY <1>6, <1>7

(* The links that generateLinks appends.                                   *)
NewBlock(k, u) ==
  /\ IsList(u) /\ Len(u) = Len(LongerList(k)) /\ links' = links \o u
  /\ phase' = phase /\ \A i \in 1 .. Len(u) : Joins(k, i, u[i])

(* What makes it give up: a port without a dot in its name, or a place past *)
(* the end of the shorter list.                                            *)
PortsAt(n) == ToSet(Node(n).l5_inports) \cup ToSet(Node(n).l5_outports)

NoDot == \E n \in NodeIds : \E p \in PortsAt(n) : ~Dotted(p.name)

LEMMA BlockMade ==
  ASSUME GInv, NEW k \in Paths, GenerateLinks(k)
  PROVE  \/ \E u : NewBlock(k, u)
         \/ links' = links /\ phase' = "exit" /\ (NoDot \/ ~Even(k))
<1>1. Producers(k) # <<>> /\ Consumers(k) # <<>> /\ ~OneSided(k)
  BY DEF GenerateLinks, OneSided
<1>2. PICK junk \in [Past(k) -> NodeIds] :
        \/ \E hits : Linked(k, junk, hits)
        \/ /\ \/ \E i \in DOMAIN LongerList(k) : ~Cuttable(Ends(k, i, junk))
              \/ Past(k) # {}
           /\ phase' = "exit" /\ links' = links
  BY GenerateLinksDoes
<1>3. /\ Len(LongerList(k)) \in Nat /\ DOMAIN LongerList(k) = 1 .. Len(LongerList(k))
      /\ Len(ShorterList(k)) \in Nat \ {0} /\ Len(LongerList(k)) >= Len(ShorterList(k))
      /\ Even(k) <=> Len(LongerList(k)) % Len(ShorterList(k)) = 0
  BY <1>1, TwoLists
<1>4. ASSUME NEW hits, Linked(k, junk, hits) PROVE \E u : NewBlock(k, u)
  <2> DEFINE u == LinksOf(k, EndsOf(k, junk), hits)
  <2>1. /\ hits \in HitsOf(k, EndsOf(k, junk))
        /\ links' = links \o u /\ phase' = phase
    BY <1>4 DEF Linked
  <2>2. /\ IsList(u) /\ DOMAIN u = 1 .. Len(LongerList(k))
        /\ Len(u) = Len(LongerList(k))
        /\ \A i \in DOMAIN u : u[i] = Link(k, Ends(k, i, junk), hits[i])
    BY <1>1, <2>1, LinksOfRight
  <2> HIDE DEF u
  <2>3. ASSUME NEW i \in 1 .. Len(u) PROVE Joins(k, i, u[i])
    <3> DEFINE e == Ends(k, i, junk)
    <3>1. i \in DOMAIN LongerList(k) /\ u[i] = Link(k, e, hits[i])
      BY <1>3, <2>2
    <3>2. u[i].key = k /\ u[i]["prod"] = e.prod /\ u[i]["con"] = e.con
      <4> HIDE DEF e
      <4> QED BY <3>1 DEF Link
    <3>3. PlaceOf(k, i) <= Len(ShorterList(k)) => i \notin Past(k)
      <4>1. PlaceOf(k, i) \in Nat /\ Len(ShorterList(k)) \in Nat
        BY <1>1, <1>3, <3>1, PlaceOfType
      <4> QED BY <4>1 DEF Past
    <3>4. CASE ByCon(k)
      BY <3>2, <3>3, <3>4 DEF Joins, LongEnd, ShortEnd, Ends
    <3>5. CASE ~ByCon(k)
      BY <3>2, <3>3, <3>5 DEF Joins, LongEnd, ShortEnd, Ends
    <3> QED BY <3>4, <3>5
  <2>4. NewBlock(k, u)
    BY <2>1, <2>2, <2>3 DEF NewBlock, u
  <2> QED BY <2>4
<1>5. ASSUME NEW i \in DOMAIN LongerList(k), ~Cuttable(Ends(k, i, junk))
      PROVE  NoDot
  <2> DEFINE e == Ends(k, i, junk)
  <2>1. e.prod \in NodeIds /\ e.con \in NodeIds
    BY <1>1, EndsThere
  <2> HIDE DEF e
  <2>2. PICK p \in ToSet(Node(e.prod).l5_outports) \cup ToSet(Node(e.con).l5_inports) :
          ~Dotted(p.name)
    BY <1>5 DEF Cuttable, e
  <2>3. p \in PortsAt(e.prod) \/ p \in PortsAt(e.con)
    BY DEF PortsAt
  <2> QED BY <2>1, <2>2, <2>3 DEF NoDot
<1>6. ASSUME Even(k), NEW i \in Past(k) PROVE FALSE
  <2> DEFINE l == Len(LongerList(k))
             s == Len(ShorterList(k))
  <2>1. i \in 1 .. l /\ PlaceOf(k, i) > s
    BY <1>3 DEF Past
  <2>2. l \in Nat /\ s \in Nat \ {0} /\ l >= s /\ l % s = 0
    BY <1>3, <1>6
  <2>3. PlaceOf(k, i) = Partner(i - 1, l, s)
    BY DEF PlaceOf
  <2> HIDE DEF l, s
  <2>4. Partner(i - 1, l, s) \in 1 .. s
    BY <2>1, <2>2, PartnerPlaces
  <2> QED BY <2>1, <2>2, <2>3, <2>4
<1> QED BY <1>2, <1>4, <1>5, <1>6

(* What depends on the entries alone stays.                                *)
LEMMA TableSame ==
  ASSUME workflow_links' = workflow_links
  PROVE  /\ Keys' = Keys
         /\ \A k : /\ Producers(k)' = Producers(k) /\ Consumers(k)' = Consumers(k)
                   /\ LongerList(k)' = LongerList(k) /\ ShorterList(k)' = ShorterList(k)
                   /\ OneSided(k)' = OneSided(k) /\ Even(k)' = Even(k)
                   /\ \A i, l : Joins(k, i, l)' = Joins(k, i, l)
<1>1. \A k : /\ Producers(k)' = Producers(k) /\ Consumers(k)' = Consumers(k)
             /\ ByCon(k)' = ByCon(k)
  BY DEF Producers, Consumers, ByCon
<1>2. \A k : /\ LongerList(k)' = LongerList(k) /\ ShorterList(k)' = ShorterList(k)
             /\ LongEnd(k)' = LongEnd(k) /\ ShortEnd(k)' = ShortEnd(k)
  BY <1>1 DEF LongerList, ShorterList, LongEnd, ShortEnd
<1>3. \A k, i : PlaceOf(k, i)' = PlaceOf(k, i)
  BY <1>2 DEF PlaceOf
<1>4. \A k, i, l : Joins(k, i, l)' = Joins(k, i, l)
  BY <1>2, <1>3 DEF Joins
<1>5. \A k : OneSided(k)' = OneSided(k) /\ Even(k)' = Even(k)
  BY <1>1 DEF OneSided, Even, Longer, Shorter
<1>6. Keys' = Keys
  BY DEF Keys
<1> QED BY <1>1, <1>2, <1>4, <1>5, <1>6

(* Unlinked looks at the ports of nodes there are.                         *)
LEMMA UnlinkedType ==
  ASSUME GInv, NEW k \in Paths, NEW files \in Unlinked(k)
  PROVE  \A n \in DOMAIN files : n \in NodeIds /\ n + 1 \in DOMAIN nodes
<1>1. Producers(k) \in Seq(NodeIds) /\ Consumers(k) \in Seq(NodeIds)
  BY EndsType
<1>2. \A n \in ToSet(Producers(k)) \cup ToSet(Consumers(k)) : n \in NodeIds
  BY <1>1 DEF ToSet
<1>3. \A n \in NodeIds : n + 1 \in DOMAIN nodes
  BY LenProperties DEF GInv, NodesRight, NodeIds
<1>4. DOMAIN files = ToSet(IF Producers(k) = <<>> THEN Consumers(k) ELSE Producers(k))
  BY UnlinkedIs
<1> QED BY <1>2, <1>3, <1>4

(* It does not change when files are added.                                *)
LEMMA UnlinkedSame ==
  ASSUME GInv, NodesSame, NEW k \in Paths
  PROVE  Unlinked(k)' = Unlinked(k)
<1>1. Producers(k)' = Producers(k) /\ Consumers(k)' = Consumers(k)
  BY TableSame DEF NodesSame
<1>2. \A n \in NodeIds : /\ Node(n)'.l5_inports = Node(n).l5_inports
                         /\ Node(n)'.l5_outports = Node(n).l5_outports
  <2>1. \A n \in NodeIds : n + 1 \in DOMAIN nodes
    BY LenProperties DEF GInv, NodesRight, NodeIds
  <2> QED BY <2>1 DEF NodesSame, Node
<1>3. \A n \in ToSet(Producers(k)) \cup ToSet(Consumers(k)) : n \in NodeIds
  <2>1. Producers(k) \in Seq(NodeIds) /\ Consumers(k) \in Seq(NodeIds)
    BY EndsType
  <2> QED BY <2>1 DEF ToSet
<1>4. \A ports : OnDisk(k, ports)' = OnDisk(k, ports)
  BY DEF OnDisk
<1> QED BY <1>1, <1>2, <1>3, <1>4 DEF Unlinked

(* A step that takes no file from a node and adds no link to a key leaves  *)
(* it done.                                                                *)
LinksKept(k) ==
  /\ Len(links) <= Len(links') /\ IsList(links')
  /\ \A i \in 1 .. Len(links) : links'[i] = links[i]
  /\ \A i \in DOMAIN links' : i \notin DOMAIN links => links'[i].key # k

FilesKept ==
  \A n \in DOMAIN nodes : nodes[n].passthru_files \subseteq nodes'[n].passthru_files

(* A key gone through stays done while its links stay.                     *)
LEMMA KeyDoneKept ==
  ASSUME GInv, NodesSame, FilesKept, NEW k \in Paths, LinksKept(k), KeyDone(k)
  PROVE  KeyDone(k)'
<1>1. /\ OneSided(k)' = OneSided(k) /\ Unlinked(k)' = Unlinked(k)
      /\ LongerList(k)' = LongerList(k)
      /\ \A i, l : Joins(k, i, l)' = Joins(k, i, l)
  BY TableSame, UnlinkedSame DEF NodesSame
<1>2. CASE OneSided(k)
  <2>0. PICK files \in Unlinked(k) : \A n \in DOMAIN files : \A p \in files[n] :
          ~p.metadata /\ p.name \in Node(n).passthru_files
    BY <1>2 DEF KeyDone
  <2>1. ASSUME NEW n \in DOMAIN files, NEW p \in files[n]
        PROVE  ~p.metadata /\ p.name \in Node(n)'.passthru_files
    <3>1. ~p.metadata /\ p.name \in Node(n).passthru_files
      BY <2>0
    <3>2. Node(n).passthru_files \subseteq Node(n)'.passthru_files
      BY UnlinkedType DEF FilesKept, Node
    <3> QED BY <3>1, <3>2
  <2> QED BY <1>1, <1>2, <2>1 DEF KeyDone
<1>3. CASE ~OneSided(k)
  <2>1. PICK off \in 0 .. Len(links) : BlockAt(k, off)
    BY <1>3 DEF KeyDone
  <2> DEFINE n == Len(LongerList(k))
  <2>2. n \in Nat /\ Len(links) \in Nat /\ Len(links') \in Nat
        /\ DOMAIN links = 1 .. Len(links) /\ DOMAIN links' = 1 .. Len(links')
        /\ Len(links) <= Len(links')
    BY ListsType, LenProperties DEF GInv, IsList, LinksKept
  <2>3. off + n <= Len(links) /\ \A i \in 1 .. n : Joins(k, i, links[off + i])
    BY <2>1 DEF BlockAt
  <2> HIDE DEF n
  <2>4. \A i \in 1 .. n : off + i \in 1 .. Len(links)
    BY <2>2, <2>3
  <2>5. \A i \in 1 .. n : links'[off + i] = links[off + i]
    BY <2>4 DEF LinksKept
  <2>6. ASSUME NEW i \in DOMAIN links', links'[i].key = k
        PROVE  off < i /\ i <= off + n
    <3>1. i \in DOMAIN links
      BY <2>6 DEF LinksKept
    <3>2. links[i].key = k
      BY <2>2, <2>6, <3>1 DEF LinksKept
    <3> QED BY <2>1, <3>1, <3>2 DEF BlockAt, n
  <2>7. BlockAt(k, off)'
    <3>1. off + n <= Len(links')
      BY <2>2, <2>3
    <3>2. \A i \in 1 .. n : Joins(k, i, links'[off + i])
      BY <2>3, <2>5
    <3>3. Len(LongerList(k))' = n
      BY <1>1 DEF n
    <3> QED BY <1>1, <2>6, <3>1, <3>2, <3>3 DEF BlockAt
  <2>8. off \in 0 .. Len(links')
    BY <2>2
  <2> QED BY <1>1, <1>3, <2>7, <2>8 DEF KeyDone
<1> QED BY <1>2, <1>3

(* The links of a key that generateLinks has just gone through.            *)
LEMMA BlockDone ==
  ASSUME GInv, NEW k \in Paths, NEW u, NewBlock(k, u), ~OneSided(k),
         workflow_links' = workflow_links,
         \A i \in DOMAIN links : links[i].key # k
  PROVE  KeyDone(k)'
<1> DEFINE n == Len(LongerList(k))
<1>0. PICK m \in Nat : m = Len(links)
  BY LenProperties DEF GInv, IsList
<1>1. /\ OneSided(k)' = OneSided(k) /\ LongerList(k)' = LongerList(k)
      /\ \A i, l : Joins(k, i, l)' = Joins(k, i, l)
  BY TableSame
<1>2. n \in Nat /\ Len(u) = n /\ links' = links \o u
  BY ListsType DEF NewBlock
<1> DEFINE S == ToSet(links) \cup ToSet(u)
<1>3. links \in Seq(S) /\ u \in Seq(S)
  <2> DEFINE A == ToSet(links)
             B == ToSet(u)
  <2>1. links \in Seq(A) /\ u \in Seq(B)
    BY DEF GInv, NewBlock, IsList
  <2> HIDE DEF A, B
  <2>2. links \in Seq(A \cup B) /\ u \in Seq(A \cup B)
    BY <2>1
  <2> QED BY <2>2 DEF A, B
<1> HIDE DEF S, n
<1>4. /\ DOMAIN links = 1 .. m /\ DOMAIN links' = 1 .. m + n
      /\ Len(links') = m + n
      /\ \A i \in 1 .. m + n :
           links'[i] = IF i <= m THEN links[i] ELSE u[i - m]
  <2> DEFINE w == links \o u
  <2>1. /\ w \in Seq(S) /\ Len(w) = Len(links) + Len(u)
        /\ \A i \in 1 .. Len(links) + Len(u) :
             w[i] = IF i <= Len(links) THEN links[i] ELSE u[i - Len(links)]
    BY <1>3, ConcatProperties
  <2>2. DOMAIN links = 1 .. Len(links)
    BY <1>3, LenProperties
  <2>3. DOMAIN w = 1 .. Len(w)
    BY <2>1, LenProperties
  <2>4. links' = w
    BY <1>2
  <2> HIDE DEF w
  <2> QED BY <1>0, <1>2, <2>1, <2>2, <2>3, <2>4
<1>5. ASSUME NEW i \in 1 .. n PROVE Joins(k, i, links'[m + i])
  <2>1. m + i \in 1 .. m + n /\ ~(m + i <= m) /\ (m + i) - m = i
    BY <1>0, <1>2
  <2>2. links'[m + i] = u[i]
    BY <1>4, <2>1
  <2> QED BY <1>2, <2>2 DEF NewBlock
<1>6. ASSUME NEW i \in DOMAIN links', links'[i].key = k
      PROVE  m < i /\ i <= m + n
  <2>1. ~(i <= m)
    <3> SUFFICES ASSUME i <= m PROVE FALSE
      OBVIOUS
    <3>1. i \in DOMAIN links /\ links'[i] = links[i]
      BY <1>0, <1>2, <1>4
    <3> QED BY <1>6, <3>1
  <2> QED BY <1>0, <1>2, <1>4, <2>1
<1>7. Len(LongerList(k))' = n
  BY <1>1 DEF n
<1>8. BlockAt(k, m)'
  <2>1. m + n <= Len(links')
    BY <1>0, <1>2, <1>4
  <2> QED BY <1>1, <1>5, <1>6, <1>7, <2>1 DEF BlockAt
<1>9. m \in 0 .. Len(links')
  BY <1>0, <1>2, <1>4
<1> QED BY <1>1, <1>8, <1>9 DEF KeyDone

(* Files are only added to nodes, in every step that adds no node.         *)
LEMMA FilesStep ==
  ASSUME GInv, NEW k \in Paths, AddPassthruFiles(k)
  PROVE  /\ NodesSame /\ FilesKept
         /\ \E files \in Unlinked(k) : \A n \in DOMAIN files : \A p \in files[n] :
              ~p.metadata /\ p.name \in Node(n)'.passthru_files
<1>1. PICK files \in Unlinked(k) :
        /\ \A n \in DOMAIN files : \A p \in files[n] : ~p.metadata
        /\ nodes' = [i \in DOMAIN nodes |->
            IF i - 1 \in DOMAIN files
            THEN [nodes[i] EXCEPT !.passthru_files = @ \cup Noted(files, i)]
            ELSE nodes[i]]
  BY DEF AddPassthruFiles, Noted
<1>a. UNCHANGED <<yaml, task, index, workflow_links>>
  BY DEF AddPassthruFiles
<1>2. /\ nodes \in Seq(Nodes) /\ nodes' \in Seq(Nodes)
  BY PassthruStep DEF GInv, NodesRight
<1>3. DOMAIN nodes' = DOMAIN nodes /\ Len(nodes') = Len(nodes)
  <2>1. DOMAIN nodes' = DOMAIN nodes
    BY <1>1
  <2>2. /\ DOMAIN nodes = 1 .. Len(nodes) /\ Len(nodes) \in Nat
        /\ DOMAIN nodes' = 1 .. Len(nodes') /\ Len(nodes') \in Nat
    BY <1>2, LenProperties
  <2> QED BY <2>1, <2>2
<1>4. ASSUME NEW i \in DOMAIN nodes
      PROVE  /\ nodes'[i].l5_inports = nodes[i].l5_inports
             /\ nodes'[i].l5_outports = nodes[i].l5_outports
             /\ nodes[i].passthru_files \subseteq nodes'[i].passthru_files
             /\ i - 1 \in DOMAIN files => Noted(files, i) \subseteq nodes'[i].passthru_files
  <2>1. nodes[i] \in Nodes
    BY <1>2
  <2>2. CASE i - 1 \in DOMAIN files
    <3>1. nodes'[i] = [nodes[i] EXCEPT !.passthru_files = @ \cup Noted(files, i)]
      BY <1>1, <2>2
    <3> HIDE DEF Noted
    <3>2. nodes'[i].passthru_files = nodes[i].passthru_files \cup Noted(files, i)
      BY <2>1, <3>1 DEF Nodes
    <3>3. /\ nodes'[i].l5_inports = nodes[i].l5_inports
          /\ nodes'[i].l5_outports = nodes[i].l5_outports
      BY <3>1
    <3> QED BY <3>2, <3>3
  <2>3. CASE i - 1 \notin DOMAIN files
    BY <1>1, <2>3
  <2> QED BY <2>2, <2>3
<1>5. NodesSame /\ FilesKept
  BY <1>a, <1>3, <1>4 DEF NodesSame, FilesKept
<1>6. ASSUME NEW n \in DOMAIN files, NEW p \in files[n]
      PROVE  ~p.metadata /\ p.name \in Node(n)'.passthru_files
  <2>1. n + 1 \in DOMAIN nodes /\ n \in NodeIds
    BY UnlinkedType
  <2>2. (n + 1) - 1 = n
    <3>1. n \in Int
      BY <1>2, <2>1, LenProperties DEF NodeIds
    <3> QED BY <3>1
  <2>3. p.name \in Noted(files, n + 1)
    BY <2>2 DEF Noted
  <2>4. Noted(files, n + 1) \subseteq nodes'[n + 1].passthru_files
    BY <1>4, <2>1, <2>2
  <2> QED BY <1>1, <2>3, <2>4 DEF Node
<1> QED BY <1>5, <1>6

(* The steps that change no node.                                          *)
LEMMA OtherSteps ==
  ASSUME GInv, UNCHANGED <<yaml, task, index, nodes, workflow_links>>
  PROVE  NodesSame /\ FilesKept
<1>1. nodes' = nodes
  OBVIOUS
<1> QED BY <1>1 DEF NodesSame, FilesKept

LEMMA SameLinksKept ==
  ASSUME GInv, links' = links
  PROVE  \A k : LinksKept(k)
<1>1. Len(links) \in Nat /\ IsList(links)
  BY LenProperties DEF GInv, IsList
<1> QED BY <1>1 DEF LinksKept, IsList

(* Giving up stays.                                                        *)
LEMMA GaveUpSame ==
  ASSUME GInv, GaveUp, UNCHANGED <<yaml, task, index, nodes, workflow_links>>
  PROVE  GaveUp'
<1>1. Keys' = Keys /\ \A k : OneSided(k)' = OneSided(k) /\ Even(k)' = Even(k)
  BY TableSame
<1>2. \A k \in Paths : Unlinked(k)' = Unlinked(k)
  BY OtherSteps, UnlinkedSame
<1>3. \A t : Wrong(t)' = Wrong(t) /\ Nameless(t)' = Nameless(t)
  BY DEF Wrong, Nameless
<1>4. Keys \subseteq Paths
  BY DEF Keys
<1> QED BY <1>1, <1>2, <1>3, <1>4 DEF GaveUp

(* Keys are numbered from 1.                                               *)
LEMMA KeysType ==
  GInv => /\ Keys \subseteq Paths /\ \A k \in Keys : k \in Nat /\ k > 0
          /\ key \in Nat
<1> SUFFICES ASSUME GInv
             PROVE  /\ Keys \subseteq Paths
                    /\ \A k \in Keys : k \in Nat /\ k > 0
                    /\ key \in Nat
  OBVIOUS
<1>1. Keys \subseteq Paths BY DEF Keys
<1>2. \A k \in Paths : k \in Nat /\ k > 0 BY PathFacts
<1>3. key \in Nat
  <2>1. key \in Paths \cup {0} BY DEF GInv, PlaceRight
  <2> QED BY <1>2, <2>1
<1> QED BY <1>1, <1>2, <1>3

(* New links are not those of another key.                                 *)
LEMMA LinksAppended ==
  ASSUME GInv, NEW k \in Paths, NEW u, NewBlock(k, u), NEW j, j # k, ~OneSided(k)
  PROVE  LinksKept(j)
<1> DEFINE S == ToSet(links) \cup ToSet(u)
           w == links \o u
           n == Len(u)
           m == Len(links)
<1>1. links \in Seq(S) /\ u \in Seq(S) /\ IsList(links) /\ IsList(u)
  <2> DEFINE A == ToSet(links)
             B == ToSet(u)
  <2>1. links \in Seq(A) /\ u \in Seq(B)
    BY DEF GInv, NewBlock, IsList
  <2> HIDE DEF A, B
  <2>2. links \in Seq(A \cup B) /\ u \in Seq(A \cup B)
    BY <2>1
  <2> QED BY <2>1, <2>2 DEF A, B, IsList
<1> HIDE DEF S
<1>2. /\ w \in Seq(S) /\ Len(w) = m + n
      /\ \A i \in 1 .. m + n : w[i] = IF i <= m THEN links[i] ELSE u[i - m]
  BY <1>1, ConcatProperties
<1>3. DOMAIN links = 1 .. m /\ DOMAIN w = 1 .. m + n /\ m \in Nat /\ n \in Nat
  BY <1>1, <1>2, LenProperties
<1>4. IsList(w)
  BY <1>1, ListsJoin
<1>5. links' = w
  BY DEF NewBlock
<1> HIDE DEF w
<1>6. \A i \in 1 .. m : w[i] = links[i]
  BY <1>2, <1>3
<1>7. ASSUME NEW i \in DOMAIN w, i \notin DOMAIN links PROVE w[i].key # j
  <2>1. i - m \in 1 .. n /\ ~(i <= m) /\ i \in 1 .. m + n
    BY <1>3, <1>7
  <2>2. w[i] = u[i - m]
    BY <1>2, <2>1
  <2>3. u[i - m].key = k
    BY <2>1 DEF NewBlock, Joins
  <2> QED BY <2>2, <2>3
<1>8. m <= Len(w)
  BY <1>2, <1>3
<1> QED BY <1>4, <1>5, <1>6, <1>7, <1>8 DEF LinksKept, IsList

(* A port of a node is one of those of its task.                           *)
ComesFrom(p, q, i, j) ==
  /\ q \in ToSet(PortsOf(yaml[i])) /\ Same(p, q)
  /\ p \in NamedPorts /\ NamedFor(i, j, p)

LEMMA PortComesFrom ==
  ASSUME GInv, CopiesRight, NEW n \in NodeIds, NEW p \in PortsAt(n)
  PROVE  \E i \in DOMAIN yaml : \E q, j : ComesFrom(p, q, i, j)
<1>1. n + 1 \in DOMAIN nodes /\ Node(n) = nodes[n + 1]
  BY NodeIsInstance DEF Node
<1>2. PICK i \in DOMAIN yaml : CopyOf(i, Node(n))
  BY <1>1 DEF CopiesRight
<1> DEFINE ip == Node(n).l5_inports
           op == Node(n).l5_outports
<1>3. PICK j : ip \in Seq(NodePorts(i, j)) /\ op \in Seq(NodePorts(i, j))
  BY <1>2 DEF CopyOf
<1>4. /\ Copies(ip, yaml[i].inports) /\ Copies(op, yaml[i].outports)
  BY <1>2 DEF CopyOf
<1>5. /\ yaml \in Yamls /\ yaml[i].inports \in Seq(Ports)
      /\ yaml[i].outports \in Seq(Ports)
      /\ ToSet(PortsOf(yaml[i])) = ToSet(yaml[i].inports) \cup ToSet(yaml[i].outports)
  BY YamlType DEF GInv, PlaceRight, Tasks
<1>6. ASSUME NEW S, NEW list \in Seq(NodePorts(i, j)), NEW ports \in Seq(S),
             Copies(list, ports), p \in ToSet(list)
      PROVE  \E q \in ToSet(ports) : Same(p, q) /\ p \in NodePorts(i, j)
  <2>1. DOMAIN list = 1 .. Len(ports) /\ DOMAIN ports = 1 .. Len(ports)
    BY <1>6, LenProperties DEF Copies
  <2>2. PICK m \in 1 .. Len(ports) : p = list[m]
    BY <1>6, <2>1 DEF ToSet
  <2>3. Same(p, ports[m]) /\ ports[m] \in ToSet(ports)
    BY <1>6, <2>1, <2>2 DEF Copies, ToSet
  <2>4. p \in NodePorts(i, j)
    <3> DEFINE Q == NodePorts(i, j)
    <3>1. list \in Seq(Q) /\ m \in 1 .. Len(list)
      BY <1>6, <2>1, <2>2 DEF Copies
    <3> HIDE DEF Q
    <3>2. list[m] \in Q
      BY <3>1, ElementOfSeq
    <3> QED BY <2>2, <3>2 DEF Q
  <2> QED BY <2>3, <2>4
<1> HIDE DEF ip, op
<1>7. PICK q \in ToSet(PortsOf(yaml[i])) : Same(p, q) /\ p \in NodePorts(i, j)
  <2>1. p \in ToSet(ip) \/ p \in ToSet(op)
    BY DEF PortsAt, ip, op
  <2>2. CASE p \in ToSet(ip)
    BY <1>3, <1>4, <1>5, <1>6, <2>2
  <2>3. CASE p \in ToSet(op)
    BY <1>3, <1>4, <1>5, <1>6, <2>3
  <2> QED BY <2>1, <2>2, <2>3
<1>8. ComesFrom(p, q, i, j)
  BY <1>7 DEF ComesFrom, NodePorts
<1> QED BY <1>8

(* One without a dot in its name has none in the description.              *)
LEMMA NoDotNameless ==
  ASSUME GInv, CopiesRight, NoDot
  PROVE  \E i \in DOMAIN yaml : Nameless(yaml[i])
<1>1. PICK n \in NodeIds : \E p \in PortsAt(n) : ~Dotted(p.name)
  BY DEF NoDot
<1>2. PICK p \in PortsAt(n) : ~Dotted(p.name)
  BY <1>1
<1>3. PICK i \in DOMAIN yaml : \E q, j : ComesFrom(p, q, i, j)
  BY PortComesFrom
<1>4. PICK q, j : ComesFrom(p, q, i, j)
  BY <1>3
<1>5. /\ q \in ToSet(PortsOf(yaml[i])) /\ p.path = q.path
      /\ p.path \in Paths /\ NamedFor(i, j, p)
  BY <1>4 DEF ComesFrom, Same, NamedPorts
<1>6. ~(yaml[i].taskCount > 1)
  <2> SUFFICES ASSUME yaml[i].taskCount > 1 PROVE FALSE
    OBVIOUS
  <2>1. PICK m \in Numbers : p.name = InstName(p.path, m)
    BY <1>5 DEF NamedFor
  <2>2. Dotted(Files[p.path])
    BY <1>5 DEF NamedFor
  <2> QED BY <1>2, <1>5, <2>1, <2>2, InstDotted
<1>7. p.name = Name(q.path)
  BY <1>5, <1>6 DEF NamedFor
<1>8. Nameless(yaml[i])
  BY <1>2, <1>5, <1>6, <1>7 DEF Nameless
<1> QED BY <1>8

-----------------------------------------------------------------------------
(* The links made so far are those of the keys gone through.               *)
LEMMA LinksStep ==
  ASSUME GInv, GInv', LinksRight, CopiesRight, [Next]_vars
  PROVE  LinksRight'
<1> USE KeysType
<1>1. CASE AddNode
  BY <1>1 DEF AddNode, LinksRight
<1>2. CASE RejectTask
  <2>1. task \in DOMAIN yaml /\ yaml' = yaml /\ phase' = "exit"
    BY <1>2, YamlType DEF RejectTask, GInv, PlaceRight
  <2>2. Wrong(yaml[task]) \/ Nameless(yaml[task])
    BY <1>2 DEF RejectTask, Dotless, Nameless
  <2>3. GaveUp
    BY <2>1, <2>2 DEF GaveUp
  <2>4. GaveUp'
    BY <1>2, <2>3, GaveUpSame DEF RejectTask
  <2> QED BY <2>1, <2>4 DEF LinksRight
<1>3. CASE AllNodes
  <2>1. /\ phase' = "links" /\ key' = 0 /\ links' = <<>>
        /\ task' = Len(yaml) + 1 /\ yaml' = yaml
    BY <1>3, YamlType DEF AllNodes, LinksRight, GInv, PlaceRight
  <2>2. \A k \in Keys' : ~(k <= key')
    <3>1. Keys' = Keys
      BY <1>3, TableSame DEF AllNodes
    <3> QED BY <2>1, <3>1
  <2> QED BY <2>1, <2>2 DEF LinksRight
<1>4. CASE AllLinks
  <2>1. /\ phase = "links" /\ phase' = "done" /\ \A k \in Keys : k <= key
        /\ UNCHANGED <<yaml, task, index, nodes, workflow_links, key, links>>
    BY <1>4 DEF AllLinks
  <2>2. Keys' = Keys /\ \A k : OneSided(k)' = OneSided(k)
    BY <2>1, TableSame
  <2>3. ASSUME NEW k \in Keys, k <= key PROVE KeyDone(k)'
    <3>1. KeyDone(k) /\ k \in Paths
      BY <2>1, <2>3 DEF LinksRight
    <3>2. NodesSame /\ FilesKept /\ LinksKept(k)
      BY <2>1, OtherSteps, SameLinksKept
    <3> QED BY <3>1, <3>2, KeyDoneKept
  <2>4. \A i \in DOMAIN links : LET k == links[i].key IN
          k \in Keys /\ k <= key /\ ~OneSided(k)
    BY <2>1 DEF LinksRight
  <2>5. task = Len(yaml) + 1
    BY <2>1 DEF LinksRight
  <2> QED BY <2>1, <2>2, <2>3, <2>4, <2>5 DEF LinksRight
<1>5. ASSUME NEW k \in Paths, AddPassthruFiles(k) PROVE LinksRight'
  <2>1. /\ phase = "links" /\ phase' = "links" /\ k \in Keys /\ k > key /\ key' = k
        /\ \A j \in Keys : j > key => j >= k
        /\ OneSided(k) /\ links' = links
        /\ UNCHANGED <<yaml, task, index, workflow_links>>
    BY <1>5 DEF AddPassthruFiles, At, OneSided
  <2>2. Keys' = Keys /\ \A j : OneSided(j)' = OneSided(j)
    BY <2>1, TableSame
  <2>3. NodesSame /\ FilesKept
    BY <1>5, FilesStep
  <2>4. KeyDone(k)'
    <3>1. Unlinked(k)' = Unlinked(k)
      BY <2>3, UnlinkedSame
    <3>2. \E files \in Unlinked(k) : \A n \in DOMAIN files : \A p \in files[n] :
            ~p.metadata /\ p.name \in Node(n)'.passthru_files
      BY <1>5, FilesStep
    <3> QED BY <2>1, <2>2, <3>1, <3>2 DEF KeyDone
  <2>5. ASSUME NEW j \in Keys, j <= k PROVE KeyDone(j)'
    <3>1. CASE j = k
      BY <2>4, <3>1
    <3>2. CASE j # k
      <4>1. j <= key /\ j \in Paths
        BY <2>1, <2>5, <3>2
      <4>2. KeyDone(j)
        BY <2>1, <4>1 DEF LinksRight
      <4>3. LinksKept(j)
        BY <2>1, SameLinksKept
      <4> QED BY <2>3, <4>1, <4>2, <4>3, KeyDoneKept
    <3> QED BY <3>1, <3>2
  <2>6. ASSUME NEW i \in DOMAIN links
        PROVE  links[i].key \in Keys /\ links[i].key <= k /\ ~OneSided(links[i].key)
    <3>1. links[i].key \in Keys /\ links[i].key <= key /\ ~OneSided(links[i].key)
      BY <2>1 DEF LinksRight
    <3>2. links[i].key <= k
      BY <2>1, <3>1
    <3> QED BY <3>1, <3>2
  <2>7. task = Len(yaml) + 1
    BY <2>1 DEF LinksRight
  <2> QED BY <2>1, <2>2, <2>5, <2>6, <2>7 DEF LinksRight
<1>6. ASSUME NEW k \in Paths, RejectUnlinked(k) PROVE LinksRight'
  <2>1. /\ phase = "links" /\ phase' = "exit" /\ k \in Keys /\ OneSided(k)
        /\ \E files \in Unlinked(k) :
             \E n \in DOMAIN files : \E p \in files[n] : p.metadata
        /\ UNCHANGED <<yaml, task, index, nodes, workflow_links>>
    BY <1>6 DEF RejectUnlinked, At, OneSided
  <2>2. GaveUp
    BY <2>1 DEF GaveUp, LinksRight
  <2>3. GaveUp'
    BY <2>1, <2>2, GaveUpSame
  <2> QED BY <2>1, <2>3 DEF LinksRight
<1>7. ASSUME NEW k \in Paths, GenerateLinks(k) PROVE LinksRight'
  <2>1. /\ phase = "links" /\ k \in Keys /\ k > key /\ key' = k
        /\ \A j \in Keys : j > key => j >= k
        /\ ~OneSided(k)
        /\ UNCHANGED <<yaml, task, index, nodes, workflow_links>>
    BY <1>7 DEF GenerateLinks, At, OneSided
  <2>2. Keys' = Keys /\ \A j : OneSided(j)' = OneSided(j)
    BY <2>1, TableSame
  <2>3. CASE links' = links /\ phase' = "exit" /\ (NoDot \/ ~Even(k))
    <3>1. GaveUp
      BY <2>1, <2>3, NoDotNameless DEF GaveUp
    <3>2. GaveUp'
      BY <2>1, <3>1, GaveUpSame
    <3> QED BY <2>3, <3>2 DEF LinksRight
  <2>4. ASSUME NEW u, NewBlock(k, u) PROVE LinksRight'
    <3>1. phase' = "links"
      BY <2>1, <2>4 DEF NewBlock
    <3>2. ASSUME NEW i \in DOMAIN links
          PROVE  /\ links[i].key \in Keys /\ links[i].key <= k
                 /\ links[i].key # k /\ ~OneSided(links[i].key)
      <4>1. links[i].key \in Keys /\ links[i].key <= key /\ ~OneSided(links[i].key)
        BY <2>1 DEF LinksRight
      <4>2. links[i].key <= k /\ links[i].key # k
        BY <2>1, <4>1
      <4> QED BY <4>1, <4>2
    <3>3. NodesSame /\ FilesKept
      BY <2>1, OtherSteps
    <3>4. ASSUME NEW j \in Keys, j <= k PROVE KeyDone(j)'
      <4>1. CASE j = k
        <5>1. KeyDone(k)'
          BY <2>1, <2>4, <3>2, BlockDone
        <5> QED BY <4>1, <5>1
      <4>2. CASE j # k
        <5>1. j <= key /\ j \in Paths
          BY <2>1, <3>4, <4>2
        <5>2. KeyDone(j)
          BY <2>1, <5>1 DEF LinksRight
        <5>3. LinksKept(j)
          BY <2>1, <2>4, <4>2, LinksAppended
        <5> QED BY <3>3, <5>1, <5>2, <5>3, KeyDoneKept
      <4> QED BY <4>1, <4>2
    <3>5. ASSUME NEW i \in DOMAIN links'
          PROVE  /\ links'[i].key \in Keys /\ links'[i].key <= k
                 /\ ~OneSided(links'[i].key)
      <4>1. \/ \E m \in DOMAIN links : links'[i] = links[m]
            \/ \E m \in DOMAIN u : links'[i] = u[m]
        BY <2>4, ListsJoin DEF NewBlock, GInv
      <4>2. CASE \E m \in DOMAIN links : links'[i] = links[m]
        BY <3>2, <4>2
      <4>3. CASE \E m \in DOMAIN u : links'[i] = u[m]
        <5>1. DOMAIN u = 1 .. Len(u)
          BY <2>4, LenProperties DEF NewBlock, IsList
        <5>2. \A m \in DOMAIN u : u[m].key = k
          BY <2>4, <5>1 DEF NewBlock, Joins
        <5>3. links'[i].key = k
          BY <4>3, <5>2
        <5> QED BY <2>1, <5>3
      <4> QED BY <4>1, <4>2, <4>3
    <3>6. task = Len(yaml) + 1
      BY <2>1 DEF LinksRight
    <3> QED BY <2>1, <2>2, <3>1, <3>4, <3>5, <3>6 DEF LinksRight
  <2> QED BY <1>7, <2>3, <2>4, BlockMade
<1>8. CASE UNCHANGED vars
  <2>1. /\ UNCHANGED <<yaml, task, index, nodes, workflow_links>>
        /\ phase' = phase /\ key' = key /\ links' = links
    BY <1>8 DEF vars
  <2>2. Keys' = Keys /\ \A j : OneSided(j)' = OneSided(j)
    BY <2>1, TableSame
  <2>3. GaveUp => GaveUp'
    BY <2>1, GaveUpSame
  <2>4. \A k \in Keys : KeyDone(k) => KeyDone(k)'
    BY <2>1, OtherSteps, SameLinksKept, KeyDoneKept
  <2> QED BY <2>1, <2>2, <2>3, <2>4 DEF LinksRight
<1> QED BY <1>1, <1>2, <1>3, <1>4, <1>5, <1>6, <1>7, <1>8 DEF Next

-----------------------------------------------------------------------------
(* All of it, as one inductive invariant.                                  *)
LinksInv == GInv /\ LinksRight /\ CopiesRight

HomesInv == LinksInv /\ (Unambiguous /\ Legible => HomesRight)

(* The first state has it.                                                 *)
LEMMA LinksInvInit == Init => LinksInv
<1> SUFFICES ASSUME Init PROVE LinksRight /\ CopiesRight
  BY GInvInit DEF LinksInv
<1>1. LinksRight
  BY DEF Init, LinksRight
<1>2. CopiesRight
  <2>1. DOMAIN nodes = {} /\ task = 1
    BY DEF Init
  <2>2. \A i \in DOMAIN yaml : ~(i < 1)
    <3>1. DOMAIN yaml = 1 .. Len(yaml) /\ Len(yaml) \in Nat
      BY YamlType DEF Init
    <3> QED BY <3>1
  <2> QED BY <2>1, <2>2 DEF CopiesRight
<1> QED BY <1>1, <1>2

LEMMA HomesInvInit == Init => HomesInv
<1> SUFFICES ASSUME Init PROVE HomesRight
  BY LinksInvInit DEF HomesInv
<1>1. /\ \A k \in Paths : workflow_links[k] = <<>> /\ ToSet(workflow_links[k]) = {}
      /\ NodeIds = {} /\ task = 1 /\ index = 0
  BY DEF Init, ToSet, NodeIds
<1>2. \A a \in Places : ~Read(a)
  <2>1. \A i \in DOMAIN yaml : ~(i < 1)
    <3>1. DOMAIN yaml = 1 .. Len(yaml) /\ Len(yaml) \in Nat
      BY YamlType DEF Init
    <3> QED BY <3>1
  <2>2. \A a \in Places : a[1] \in DOMAIN yaml
    BY DEF Places
  <2> QED BY <1>1, <2>1, <2>2 DEF Read
<1> QED BY <1>1, <1>2 DEF HomesRight

(* Every step adds a node, or leaves the nodes' ports and the keys alone.  *)
LEMMA NodesStepCases ==
  ASSUME GInv, [Next]_vars
  PROVE  AddNode \/ NodesSame
<1>1. CASE RejectTask \/ AllNodes \/ AllLinks \/ UNCHANGED vars
  BY <1>1, OtherSteps DEF RejectTask, AllNodes, AllLinks, vars
<1>2. ASSUME NEW k \in Paths, AddPassthruFiles(k) PROVE NodesSame
  BY <1>2, FilesStep
<1>3. ASSUME NEW k \in Paths, RejectUnlinked(k) \/ GenerateLinks(k) PROVE NodesSame
  BY <1>3, OtherSteps DEF RejectUnlinked, GenerateLinks
<1> QED BY <1>1, <1>2, <1>3 DEF Next

(* Every step keeps it.                                                    *)
LEMMA LinksInvNext == LinksInv /\ [Next]_vars => LinksInv'
<1> SUFFICES ASSUME LinksInv, [Next]_vars PROVE LinksInv'
  OBVIOUS
<1>1. GInv /\ GInv'
  BY GInvNext DEF LinksInv
<1>2. LinksRight'
  BY <1>1, LinksStep DEF LinksInv
<1>3. CopiesRight'
  BY <1>1, CopiesStep, NodesStepCases DEF LinksInv
<1> QED BY <1>1, <1>2, <1>3 DEF LinksInv

LEMMA HomesInvNext == HomesInv /\ [Next]_vars => HomesInv'
<1> SUFFICES ASSUME HomesInv, [Next]_vars, Unambiguous', Legible' PROVE HomesRight'
  BY LinksInvNext DEF HomesInv
<1>1. GInv /\ (AddNode \/ NodesSame)
  BY NodesStepCases DEF HomesInv, LinksInv
<1>2. yaml' = yaml
  BY <1>1 DEF AddNode, NodesSame
<1>3. HomesRight /\ Unambiguous /\ Legible
  BY <1>2, HomeSame DEF HomesInv
<1> QED BY <1>1, <1>3, HomesStep, HomesKept

-----------------------------------------------------------------------------
(* The consumers and producers of a key are the nodes entered under it.    *)
LEMMA EntriesAreEnds ==
  ASSUME GInv, NEW k \in Paths, NEW n \in NodeIds
  PROVE  /\ -n \in ToSet(workflow_links[k]) => n \in ToSet(Producers(k))
         /\ AsConsumer(n) \in ToSet(workflow_links[k]) => Consumers(k) # <<>>
         /\ Len(nodes) <= Sentinel /\ AsConsumer(n) \in ToSet(workflow_links[k])
              => n \in ToSet(Consumers(k))
<1> DEFINE list == workflow_links[k]
           cons == Taken(list, Nat \ {0}, {})
           prods == Taken(list, {v \in Int : v <= 0}, {})
<1>1. list \in Seq(Int)
  BY DEF GInv, TableRight
<1>2. Len(nodes) \in Nat /\ n \in Nat /\ n < Len(nodes)
  <2>1. Len(nodes) \in Nat
    BY LenProperties DEF GInv, NodesRight
  <2> QED BY <2>1 DEF NodeIds
<1>3. AsConsumer(n) \in Nat \ {0}
  BY <1>2, YamlAssumption DEF AsConsumer
<1>4. /\ \A v \in ToSet(list) : v \in Nat \ {0} => v \in ToSet(cons)
      /\ \A v \in ToSet(list) : v \in {w \in Int : w <= 0} => v \in ToSet(prods)
  <2> DEFINE neg == {w \in Int : w <= 0}
             pos == Nat \ {0}
  <2> HIDE DEF list, neg, pos
  <2>1. /\ TakesRight(list, pos, {}, Taken(list, pos, {}))
        /\ TakesRight(list, neg, {}, Taken(list, neg, {}))
    BY <1>1, TakenProperties
  <2>2. /\ \A v \in ToSet(list) : v \in pos => v \in ToSet(Taken(list, pos, {}))
        /\ \A v \in ToSet(list) : v \in neg => v \in ToSet(Taken(list, neg, {}))
    BY <2>1 DEF TakesRight
  <2> QED BY <2>2 DEF neg, pos
<1>5. /\ Producers(k) = [i \in DOMAIN prods |-> -prods[i]]
      /\ Consumers(k) = [i \in DOMAIN cons |-> IF cons[i] = Sentinel THEN 0 ELSE cons[i]]
  BY DEF Producers, Consumers
<1> HIDE DEF list, cons, prods
<1>6. ASSUME -n \in ToSet(list) PROVE n \in ToSet(Producers(k))
  <2>1. -n \in ToSet(prods)
    BY <1>2, <1>4, <1>6
  <2>2. PICK i \in DOMAIN prods : prods[i] = -n
    BY <2>1 DEF ToSet
  <2>3. i \in DOMAIN Producers(k) /\ Producers(k)[i] = -(-n)
    BY <1>5, <2>2
  <2>4. -(-n) = n
    BY <1>2
  <2> QED BY <2>3, <2>4 DEF ToSet
<1>7. ASSUME AsConsumer(n) \in ToSet(list)
      PROVE  /\ Consumers(k) # <<>>
             /\ Len(nodes) <= Sentinel => n \in ToSet(Consumers(k))
  <2>1. AsConsumer(n) \in ToSet(cons)
    BY <1>3, <1>4, <1>7
  <2>2. PICK i \in DOMAIN cons : cons[i] = AsConsumer(n)
    BY <2>1 DEF ToSet
  <2>3. /\ i \in DOMAIN Consumers(k)
        /\ Consumers(k)[i] = IF AsConsumer(n) = Sentinel THEN 0 ELSE AsConsumer(n)
    BY <1>5, <2>2
  <2>4. Consumers(k) # <<>>
    BY <2>3
  <2>5. ASSUME Len(nodes) <= Sentinel
        PROVE  (IF AsConsumer(n) = Sentinel THEN 0 ELSE AsConsumer(n)) = n
    BY <1>2, <2>5, YamlAssumption DEF AsConsumer
  <2> QED BY <2>3, <2>4, <2>5 DEF ToSet
<1> QED BY <1>6, <1>7 DEF list

(* And only they are.                                                      *)
LEMMA EndsAreEntries ==
  ASSUME GInv, NEW k \in Paths
  PROVE  /\ \A n \in ToSet(Producers(k)) : -n \in ToSet(workflow_links[k])
         /\ \A n \in ToSet(Consumers(k)) :
              \E v \in ToSet(workflow_links[k]) :
                v > 0 /\ n = IF v = Sentinel THEN 0 ELSE v
<1> DEFINE list == workflow_links[k]
           cons == Taken(list, Nat \ {0}, {})
           prods == Taken(list, {v \in Int : v <= 0}, {})
<1>1. list \in Seq(Int)
  BY DEF GInv, TableRight
<1>2. /\ \A v \in ToSet(cons) : v \in Nat \ {0} /\ v \in ToSet(list)
      /\ \A v \in ToSet(prods) : v \in {w \in Int : w <= 0} /\ v \in ToSet(list)
  <2> HIDE DEF list
  <2> QED BY <1>1, TakenProperties DEF TakesRight
<1>3. /\ Producers(k) = [i \in DOMAIN prods |-> -prods[i]]
      /\ Consumers(k) = [i \in DOMAIN cons |-> IF cons[i] = Sentinel THEN 0 ELSE cons[i]]
  BY DEF Producers, Consumers
<1> HIDE DEF list, cons, prods
<1>4. ASSUME NEW n \in ToSet(Producers(k)) PROVE -n \in ToSet(list)
  <2>1. PICK i \in DOMAIN prods : n = -prods[i]
    BY <1>3 DEF ToSet
  <2>2. prods[i] \in ToSet(prods)
    BY DEF ToSet
  <2>3. prods[i] \in Int /\ prods[i] \in ToSet(list)
    BY <1>2, <2>2
  <2>4. -n = prods[i]
    BY <2>1, <2>3
  <2> QED BY <2>3, <2>4
<1>5. ASSUME NEW n \in ToSet(Consumers(k))
      PROVE  \E v \in ToSet(list) : v > 0 /\ n = IF v = Sentinel THEN 0 ELSE v
  <2>1. PICK i \in DOMAIN cons : n = IF cons[i] = Sentinel THEN 0 ELSE cons[i]
    BY <1>3 DEF ToSet
  <2>2. cons[i] \in ToSet(cons)
    BY DEF ToSet
  <2>3. cons[i] \in Nat \ {0} /\ cons[i] \in ToSet(list)
    BY <1>2, <2>2
  <2>4. cons[i] > 0
    BY <2>3
  <2> QED BY <2>1, <2>3, <2>4
<1> QED BY <1>4, <1>5 DEF list

(* And they have a port whose home it is.                                  *)
LEMMA EndsAreHome ==
  ASSUME GInv, HomesRight, NEW k \in Paths
  PROVE  /\ \A n \in ToSet(Producers(k)) : OutAt(n, k)
         /\ Len(nodes) <= Sentinel => \A n \in ToSet(Consumers(k)) : InAt(n, k)
<1>1. Len(nodes) \in Nat
  BY LenProperties DEF GInv, NodesRight
<1>2. /\ \A n \in ToSet(Producers(k)) : n \in NodeIds
      /\ \A n \in ToSet(Consumers(k)) : n \in NodeIds
  <2>1. Producers(k) \in Seq(NodeIds) /\ Consumers(k) \in Seq(NodeIds)
    BY EndsType
  <2> DEFINE p == Producers(k)
             c == Consumers(k)
  <2> HIDE DEF p, c
  <2>2. \A i \in DOMAIN p : p[i] \in NodeIds
    BY <2>1 DEF p
  <2>3. \A i \in DOMAIN c : c[i] \in NodeIds
    BY <2>1 DEF c
  <2> QED BY <2>2, <2>3 DEF p, c, ToSet
<1>3. \A v \in ToSet(workflow_links[k]) :
        \/ \E m \in NodeIds : v = AsConsumer(m) /\ v > 0 /\ InAt(m, k)
        \/ \E m \in NodeIds : v = -m /\ OutAt(m, k)
  BY DEF HomesRight
<1>4. \A m \in NodeIds : m \in Nat /\ m < Len(nodes)
  BY <1>1 DEF NodeIds
<1>5. ASSUME NEW n \in ToSet(Producers(k)) PROVE OutAt(n, k)
  <2>1. -n \in ToSet(workflow_links[k])
    BY EndsAreEntries
  <2>2. n \in Nat
    BY <1>2, <1>4
  <2>3. ~(-n > 0)
    BY <2>2
  <2>4. PICK m \in NodeIds : -n = -m /\ OutAt(m, k)
    BY <1>3, <2>1, <2>3
  <2>5. m = n
    BY <1>4, <2>2, <2>4
  <2> QED BY <2>4, <2>5
<1>6. ASSUME Len(nodes) <= Sentinel, NEW n \in ToSet(Consumers(k))
      PROVE  InAt(n, k)
  <2>1. PICK v \in ToSet(workflow_links[k]) :
           v > 0 /\ n = IF v = Sentinel THEN 0 ELSE v
    BY EndsAreEntries
  <2>2. CASE \E m \in NodeIds : v = AsConsumer(m) /\ InAt(m, k)
    <3>1. PICK m \in NodeIds : v = AsConsumer(m) /\ InAt(m, k)
      BY <2>2
    <3>2. m \in Nat /\ m < Sentinel /\ Sentinel \in Nat \ {0}
      BY <1>1, <1>4, <1>6, YamlAssumption
    <3>3. m = n
      BY <2>1, <3>1, <3>2 DEF AsConsumer
    <3> QED BY <3>1, <3>3
  <2>3. CASE \E m \in NodeIds : v = -m
    <3>1. PICK m \in NodeIds : v = -m
      BY <2>3
    <3>2. m \in Nat
      BY <1>4
    <3> QED BY <2>1, <3>1, <3>2
  <2> QED BY <1>3, <2>2, <2>3
<1> QED BY <1>5, <1>6

(* The ports of a node have listed paths, and, once all nodes are there, a *)
(* node has each listed port.                                              *)
LEMMA NodePaths ==
  ASSUME GInv, CopiesRight, NEW n \in NodeIds
  PROVE  /\ \A p \in ToSet(Node(n).l5_inports) :
              /\ p.path \in Listed
              /\ \E i \in DOMAIN yaml : \E q \in ToSet(yaml[i].inports) : Same(p, q)
         /\ \A p \in ToSet(Node(n).l5_outports) :
              /\ p.path \in Listed
              /\ \E i \in DOMAIN yaml : \E q \in ToSet(yaml[i].outports) : Same(p, q)
<1>1. n + 1 \in DOMAIN nodes /\ Node(n) = nodes[n + 1] /\ yaml \in Yamls
  BY LenProperties DEF GInv, NodesRight, NodeIds, Node, PlaceRight
<1>2. PICK i \in DOMAIN yaml : CopyOf(i, nodes[n + 1])
  BY <1>1 DEF CopiesRight
<1> DEFINE in == Node(n).l5_inports
           out == Node(n).l5_outports
           s == yaml[i].inports
           u == yaml[i].outports
<1>3. Copies(in, s) /\ Copies(out, u)
  BY <1>1, <1>2 DEF CopyOf
<1>4. s \in Seq(Ports) /\ u \in Seq(Ports)
  BY <1>1, YamlType DEF Tasks
<1>5. in \in Seq(ToSet(in)) /\ out \in Seq(ToSet(out))
  <2>1. in \in Seq(NamedPorts)
    <3>1. nodes[n + 1] \in Nodes
      BY <1>1 DEF GInv, NodesRight
    <3> QED BY <1>1, <3>1 DEF Nodes
  <2>2. out \in Seq(NamedPorts)
    <3>1. nodes[n + 1] \in Nodes
      BY <1>1 DEF GInv, NodesRight
    <3> QED BY <1>1, <3>1 DEF Nodes
  <2> HIDE DEF in, out
  <2> QED BY <2>1, <2>2 DEF ToSet
<1>6. /\ \A m \in 1 .. Len(s) : s[m].path \in Listed
      /\ \A m \in 1 .. Len(u) : u[m].path \in Listed
  BY <1>1, PortsOfType DEF Listed
<1> HIDE DEF in, out, s, u
<1>7. /\ DOMAIN in = 1 .. Len(s) /\ DOMAIN s = 1 .. Len(s)
      /\ DOMAIN out = 1 .. Len(u) /\ DOMAIN u = 1 .. Len(u)
  BY <1>3, <1>4, <1>5, LenProperties DEF Copies
<1>8. ASSUME NEW p \in ToSet(in)
      PROVE  p.path \in Listed /\ \E q \in ToSet(s) : Same(p, q)
  <2>1. PICK m \in 1 .. Len(s) : p = in[m]
    BY <1>7 DEF ToSet
  <2>2. Same(p, s[m]) /\ s[m] \in ToSet(s)
    BY <1>3, <1>7, <2>1 DEF Copies, ToSet
  <2> QED BY <1>6, <2>2 DEF Same
<1>9. ASSUME NEW p \in ToSet(out)
      PROVE  p.path \in Listed /\ \E q \in ToSet(u) : Same(p, q)
  <2>1. PICK m \in 1 .. Len(u) : p = out[m]
    BY <1>7 DEF ToSet
  <2>2. Same(p, u[m]) /\ u[m] \in ToSet(u)
    BY <1>3, <1>7, <2>1 DEF Copies, ToSet
  <2> QED BY <1>6, <2>2 DEF Same
<1> QED BY <1>8, <1>9 DEF in, out, s, u

(* Once all nodes are there, a port of the description is one of a node.   *)
LEMMA PortsHaveNodes ==
  ASSUME GInv, CopiesRight, task = Len(yaml) + 1, NEW i \in DOMAIN yaml
  PROVE  /\ \A q \in ToSet(yaml[i].inports) :
              q.path \in Listed /\ \E n \in NodeIds : InAt(n, Home(q.path))
         /\ \A q \in ToSet(yaml[i].outports) :
              q.path \in Listed /\ \E n \in NodeIds : OutAt(n, Home(q.path))
<1>1. yaml \in Yamls /\ DOMAIN yaml = 1 .. Len(yaml) /\ Len(yaml) \in Nat
  BY YamlType DEF GInv, PlaceRight
<1>2. i < task
  BY <1>1
<1>3. PICK m \in DOMAIN nodes : CopyOf(i, nodes[m])
  BY <1>2 DEF CopiesRight
<1>4. m - 1 \in NodeIds /\ Node(m - 1) = nodes[m]
  <2>1. DOMAIN nodes = 1 .. Len(nodes) /\ Len(nodes) \in Nat
    BY LenProperties DEF GInv, NodesRight
  <2>2. m \in Int /\ (m - 1) + 1 = m /\ m - 1 \in 0 .. Len(nodes) - 1
    BY <2>1
  <2> QED BY <2>2 DEF NodeIds, Node
<1> DEFINE in == nodes[m].l5_inports
           out == nodes[m].l5_outports
           s == yaml[i].inports
           u == yaml[i].outports
           P == NamedPorts
<1>5. Copies(in, s) /\ Copies(out, u)
  BY <1>3 DEF CopyOf
<1>6. s \in Seq(Ports) /\ u \in Seq(Ports)
  BY <1>1, YamlType DEF Tasks
<1>7. in \in Seq(P) /\ out \in Seq(P)
  <2>1. nodes[m] \in Nodes
    BY DEF GInv, NodesRight
  <2> QED BY <2>1 DEF Nodes
<1>8. /\ \A l \in 1 .. Len(s) : s[l].path \in Listed
      /\ \A l \in 1 .. Len(u) : u[l].path \in Listed
  BY <1>1, PortsOfType DEF Listed
<1> HIDE DEF in, out, s, u, P
<1>9. /\ DOMAIN in = 1 .. Len(s) /\ DOMAIN s = 1 .. Len(s)
      /\ DOMAIN out = 1 .. Len(u) /\ DOMAIN u = 1 .. Len(u)
  BY <1>5, <1>6, <1>7, LenProperties DEF Copies
<1>10. ASSUME NEW q \in ToSet(s)
       PROVE  q.path \in Listed /\ InAt(m - 1, Home(q.path))
  <2>1. PICK l \in 1 .. Len(s) : q = s[l]
    BY <1>9 DEF ToSet
  <2>2. in[l].path = q.path /\ in[l] \in ToSet(in)
    BY <1>5, <1>9, <2>1 DEF Copies, Same, ToSet
  <2> QED BY <1>4, <1>8, <2>1, <2>2 DEF InAt, in
<1>11. ASSUME NEW q \in ToSet(u)
       PROVE  q.path \in Listed /\ OutAt(m - 1, Home(q.path))
  <2>1. PICK l \in 1 .. Len(u) : q = u[l]
    BY <1>9 DEF ToSet
  <2>2. out[l].path = q.path /\ out[l] \in ToSet(out)
    BY <1>5, <1>9, <2>1 DEF Copies, Same, ToSet
  <2> QED BY <1>4, <1>8, <2>1, <2>2 DEF OutAt, out
<1> QED BY <1>4, <1>10, <1>11 DEF s, u

(* The key is listed, and a port belongs there if the key covers its path. *)
LEMMA UnderKey ==
  ASSUME GInv, HomesRight, Unambiguous, NEW k \in Keys, NEW r \in Listed
  PROVE  /\ k \in Listed /\ k \in Paths /\ r \in Paths /\ Home(k) = k
         /\ <<k, r>> \in Covers <=> Home(r) = k
<1>1. yaml \in Yamls /\ k \in Paths /\ workflow_links[k] # <<>>
  BY DEF GInv, PlaceRight, Keys
<1>2. PICK h \in Listed : Home(h) = k
  BY <1>1 DEF HomesRight
<1>3. k \in Listed /\ Home(k) = k
  BY <1>2, HomeFacts
<1>4. r \in Paths
  BY <1>1, ListedType
<1>5. <<k, r>> \in Covers => Home(r) = k
  BY <1>1, <1>3, SameHome
<1>6. Home(r) = k => <<k, r>> \in Covers
  <2>1. <<k, k>> \in Covers
    BY <1>1, OwnName
  <2>2. Home(r) = r \/ Below(Home(r), r)
    BY HomeFacts
  <2> QED BY <2>1, <2>2 DEF Below
<1> QED BY <1>1, <1>3, <1>4, <1>5, <1>6

(* The key matches the name of a port there as it should: of a port with   *)
(* its own name, and, if no number makes names fit, of every port.         *)
LEMMA UnderName ==
  ASSUME GInv, CopiesRight, HomesRight, Unambiguous, Legible, NEW k \in Keys,
         NEW n \in NodeIds, NEW p \in PortsAt(n), p.path \in Listed
  PROVE  /\ p.name = Name(p.path) /\ FALSE \in match(Name(k), p.name) =>
              <<k, p.path>> \notin Covers
         /\ NumbersFitNothing /\ TRUE \in match(Name(k), p.name) =>
              <<k, p.path>> \in Covers
<1>1. k \in Listed /\ k \in Paths /\ p.path \in Paths
  BY UnderKey
<1>2. Results[<<k, p.path>>] = match(Name(k), Name(p.path))
  BY <1>1, PathFacts
<1>3. /\ TRUE \in Results[<<k, p.path>>] => <<k, p.path>> \in Covers
      /\ FALSE \in Results[<<k, p.path>>] => <<k, p.path>> \notin Covers
  BY <1>1, ListedDecided, DecidedRight
<1>4. ASSUME NumbersFitNothing, TRUE \in match(Name(k), p.name)
      PROVE  <<k, p.path>> \in Covers
  <2>1. PICK i \in DOMAIN yaml : \E q, j : ComesFrom(p, q, i, j)
    BY PortComesFrom
  <2>2. PICK j : NamedFor(i, j, p)
    BY <2>1 DEF ComesFrom
  <2>3. CASE p.name = Name(p.path)
    BY <1>2, <1>3, <1>4, <2>3
  <2>4. CASE yaml[i].taskCount > 1
    <3>1. PICK m \in Numbers : p.name = InstName(p.path, m)
      BY <2>2, <2>4 DEF NamedFor
    <3>2. Dotted(Files[p.path])
      BY <2>2, <2>4 DEF NamedFor
    <3>3. PICK a, b \in Places : PathAt(a) = k /\ PathAt(b) = p.path
      BY <1>1 DEF Listed
    <3> QED BY <1>4, <3>1, <3>2, <3>3 DEF NumbersFitNothing
  <2> QED BY <2>2, <2>3, <2>4 DEF NamedFor
<1> QED BY <1>2, <1>3, <1>4

(* In every unambiguous and legible description whose lists of producers   *)
(* and consumers divide each other, and where no number makes names fit,   *)
(* make_wflow_from_yaml gives up only for a task without instances, a port *)
(* without a mode or with an unknown io_freq, a memory mode port that no   *)
(* port of the other direction matches, or a name without a dot.           *)
THEOREM OnlyRealErrorsCorrect == Spec => []OnlyRealErrors
<1> DEFINE AllOf(f) == UNION {ToSet(yaml[i][f]) : i \in DOMAIN yaml}
           Alone(f, g) == \E p \in AllOf(f) :
                            p.metadata /\ \A q \in AllOf(g) : ~Coupled(p, q)
<1>1. HomesInv => OnlyRealErrors
  <2> SUFFICES ASSUME HomesInv, phase = "exit", Unambiguous, Legible,
                      NumbersFitNothing, \A k \in Keys : Even(k),
                      ~\E i \in DOMAIN yaml : Wrong(yaml[i]) \/ Nameless(yaml[i])
               PROVE  Alone("inports", "outports") \/ Alone("outports", "inports")
    <3>1. OnlyRealErrors = (
            phase = "exit" /\ Unambiguous /\ Legible /\ NumbersFitNothing
              /\ (\A k \in Keys : Even(k)) =>
              \/ \E i \in DOMAIN yaml : Wrong(yaml[i]) \/ Nameless(yaml[i])
              \/ Alone("inports", "outports") \/ Alone("outports", "inports"))
      BY DEF OnlyRealErrors, Nameless
    <3> HIDE DEF Alone
    <3> QED BY <3>1
  <2>1. GInv /\ LinksRight /\ CopiesRight /\ HomesRight /\ yaml \in Yamls
    BY DEF HomesInv, LinksInv, GInv, PlaceRight
  <2>2. /\ task = Len(yaml) + 1
        /\ \E k \in Keys : OneSided(k) /\ \E files \in Unlinked(k) :
             \E n \in DOMAIN files : \E p \in files[n] : p.metadata
    <3>1. GaveUp
      BY <2>1 DEF LinksRight
    <3> QED BY <3>1 DEF GaveUp
  <2>3. PICK k \in Keys : OneSided(k) /\ \E files \in Unlinked(k) :
             \E n \in DOMAIN files : \E p \in files[n] : p.metadata
    BY <2>2
  <2>4. PICK files \in Unlinked(k) :
           \E n \in DOMAIN files : \E p \in files[n] : p.metadata
    BY <2>3
  <2>5. PICK n \in DOMAIN files : \E p \in files[n] : p.metadata
    BY <2>4
  <2>6. PICK p \in files[n] : p.metadata
    BY <2>5
  <2>7. /\ k \in Paths /\ n \in NodeIds
        /\ files[n] \in OnDisk(k, IF Producers(k) = <<>> THEN Node(n).l5_inports
                                                        ELSE Node(n).l5_outports)
    <3>1. k \in Paths
      BY DEF Keys
    <3> QED BY <2>1, <3>1, UnlinkedType, UnlinkedIs
  <2>8. /\ p \in ToSet(IF Producers(k) = <<>> THEN Node(n).l5_inports
                                             ELSE Node(n).l5_outports)
        /\ TRUE \in match(Name(k), p.name)
    BY <2>7, OnDiskIs
  <2>9. p \in PortsAt(n) /\ p.path \in Listed
    BY <2>1, <2>7, <2>8, NodePaths DEF PortsAt
  <2>10. <<k, p.path>> \in Covers
    BY <2>1, <2>7, <2>8, <2>9, UnderName
  <2>11. Home(p.path) = k
    BY <2>1, <2>9, <2>10, UnderKey
  <2>12. CASE Producers(k) = <<>>
    <3>1. p \in ToSet(Node(n).l5_inports)
      BY <2>8, <2>12
    <3>2. PICK i \in DOMAIN yaml : \E q \in ToSet(yaml[i].inports) : Same(p, q)
      BY <2>1, <2>7, <3>1, NodePaths
    <3>3. PICK q \in ToSet(yaml[i].inports) : Same(p, q)
      BY <3>2
    <3>4. q \in AllOf("inports") /\ q.metadata /\ q.path = p.path
      BY <2>6, <3>3 DEF Same
    <3>5. ASSUME NEW o \in AllOf("outports"), Coupled(q, o) PROVE FALSE
      <4>1. PICK j \in DOMAIN yaml : o \in ToSet(yaml[j].outports)
        OBVIOUS
      <4>2. o.path \in Listed /\ \E m \in NodeIds : OutAt(m, Home(o.path))
        BY <2>1, <2>2, <4>1, PortsHaveNodes
      <4>3. Home(o.path) = k
        BY <2>1, <2>9, <2>11, <3>4, <3>5, <4>2, SameHome DEF Coupled
      <4>4. PICK m \in NodeIds : OutAt(m, k)
        BY <4>2, <4>3
      <4>5. -m \in ToSet(workflow_links[k])
        BY <2>1, <2>7, <4>4 DEF HomesRight
      <4>6. m \in ToSet(Producers(k))
        BY <2>1, <2>7, <4>5, EntriesAreEnds
      <4> QED BY <2>12, <4>6 DEF ToSet
    <3> QED BY <3>4, <3>5
  <2>13. CASE Producers(k) # <<>>
    <3>1. p \in ToSet(Node(n).l5_outports) /\ Consumers(k) = <<>>
      BY <2>3, <2>8, <2>13 DEF OneSided
    <3>2. PICK i \in DOMAIN yaml : \E q \in ToSet(yaml[i].outports) : Same(p, q)
      BY <2>1, <2>7, <3>1, NodePaths
    <3>3. PICK q \in ToSet(yaml[i].outports) : Same(p, q)
      BY <3>2
    <3>4. q \in AllOf("outports") /\ q.metadata /\ q.path = p.path
      BY <2>6, <3>3 DEF Same
    <3>5. ASSUME NEW o \in AllOf("inports"), Coupled(q, o) PROVE FALSE
      <4>1. PICK j \in DOMAIN yaml : o \in ToSet(yaml[j].inports)
        OBVIOUS
      <4>2. o.path \in Listed /\ \E m \in NodeIds : InAt(m, Home(o.path))
        BY <2>1, <2>2, <4>1, PortsHaveNodes
      <4>3. Home(o.path) = k
        BY <2>1, <2>9, <2>11, <3>4, <3>5, <4>2, SameHome DEF Coupled
      <4>4. PICK m \in NodeIds : InAt(m, k)
        BY <4>2, <4>3
      <4>5. AsConsumer(m) \in ToSet(workflow_links[k])
        BY <2>1, <2>7, <4>4 DEF HomesRight
      <4> QED BY <2>1, <2>7, <3>1, <4>5, EntriesAreEnds
    <3> QED BY <3>4, <3>5
  <2> QED BY <2>12, <2>13
<1> QED BY <1>1, HomesInvInit, HomesInvNext, PTL DEF Spec

-----------------------------------------------------------------------------
(* A key whose links are made has links of every producer and of every     *)
(* consumer, and they join those.                                          *)
PlaceFilled(k, j) ==
  \E i \in 1 .. Len(LongerList(k)) : PlaceOf(k, i) = j

(* With multiples, places are in the shorter list, and each of them is     *)
(* taken.                                                                  *)
LEMMA PlacesFilled ==
  ASSUME GInv, NEW k \in Paths, ~OneSided(k), Even(k)
  PROVE  /\ \A i \in 1 .. Len(LongerList(k)) :
              PlaceOf(k, i) \in 1 .. Len(ShorterList(k))
         /\ \A j \in 1 .. Len(ShorterList(k)) : PlaceFilled(k, j)
<1> DEFINE L == Len(LongerList(k))
           S == Len(ShorterList(k))
           q == L \div S
<1>1. L \in Nat /\ S \in Nat \ {0} /\ L >= S /\ L % S = 0
  BY TwoLists
<1>2. \A i \in 1 .. L : PlaceOf(k, i) = Partner(i - 1, L, S)
  BY DEF PlaceOf
<1> HIDE DEF L, S, q
<1>3. /\ q \in Nat \ {0} /\ L = q * S
      /\ \A i \in 1 .. L :
           /\ Partner(i - 1, L, S) \in 1 .. S
           /\ \A j \in 1 .. S : Partner(i - 1, L, S) = j <=>
                q * (j - 1) < i /\ i <= q * (j - 1) + q
  BY <1>1, PartnerPlaces DEF q
<1>4. ASSUME NEW j \in 1 .. S
      PROVE  \E i \in 1 .. L : PlaceOf(k, i) = j
  <2>1. PICK d : d = q * (j - 1)
    OBVIOUS
  <2>2. d \in Nat /\ d + q = q * j
    BY <1>1, <1>3, <2>1
  <2>3. q * j <= q * S
    BY <1>1, <1>3
  <2>4. d + 1 \in 1 .. L /\ d < d + 1 /\ d + 1 <= d + q
    BY <1>1, <1>3, <2>2, <2>3
  <2> QED BY <1>2, <1>3, <2>1, <2>4
<1> QED BY <1>2, <1>3, <1>4 DEF PlaceFilled, L, S

LEMMA LinksOfKey ==
  ASSUME GInv, NEW k \in Paths, ~OneSided(k), Even(k), KeyDone(k)
  PROVE  /\ \A n \in ToSet(Producers(k)) :
              \E l \in ToSet(links) : l.key = k /\ l.prod = n
         /\ \A n \in ToSet(Consumers(k)) :
              \E l \in ToSet(links) : l.key = k /\ l.con = n
         /\ \A l \in ToSet(links) : l.key = k =>
              l.prod \in ToSet(Producers(k)) /\ l.con \in ToSet(Consumers(k))
<1> DEFINE L == LongerList(k)
           S == ShorterList(k)
<1>1. PICK off \in 0 .. Len(links) : BlockAt(k, off)
  BY DEF KeyDone
<1>2. /\ DOMAIN links = 1 .. Len(links) /\ Len(links) \in Nat
  BY LenProperties DEF GInv, IsList
<1>3. /\ DOMAIN L = 1 .. Len(L) /\ Len(L) \in Nat
      /\ DOMAIN S = 1 .. Len(S) /\ Len(S) \in Nat
  BY TwoLists
<1>4. /\ \A i \in 1 .. Len(L) : PlaceOf(k, i) \in 1 .. Len(S)
      /\ \A j \in 1 .. Len(S) : PlaceFilled(k, j)
  BY PlacesFilled
<1>5. /\ off + Len(L) <= Len(links)
      /\ \A i \in 1 .. Len(L) : Joins(k, i, links[off + i])
      /\ \A i \in DOMAIN links : links[i].key = k =>
           off < i /\ i <= off + Len(L)
  BY <1>1 DEF BlockAt
<1>6. \A i \in 1 .. Len(L) : \A l : Joins(k, i, l) =>
        /\ l.key = k
        /\ l[LongEnd(k)] = L[i]
        /\ l[ShortEnd(k)] = S[PlaceOf(k, i)]
  BY <1>4 DEF Joins
<1>7. \A j : PlaceFilled(k, j) <=>
        \E i \in 1 .. Len(L) : PlaceOf(k, i) = j
  BY DEF PlaceFilled
<1> HIDE DEF L, S
<1>8. \A i \in 1 .. Len(L) : off + i \in DOMAIN links /\ links[off + i] \in ToSet(links)
  BY <1>2, <1>3, <1>5 DEF ToSet
<1>9. ASSUME NEW n \in ToSet(L)
      PROVE  \E l \in ToSet(links) : l.key = k /\ l[LongEnd(k)] = n
  <2>1. PICK i \in 1 .. Len(L) : n = L[i]
    BY <1>3 DEF ToSet
  <2> QED BY <1>5, <1>6, <1>8, <2>1
<1>10. ASSUME NEW n \in ToSet(S)
       PROVE  \E l \in ToSet(links) : l.key = k /\ l[ShortEnd(k)] = n
  <2>1. PICK j \in 1 .. Len(S) : n = S[j]
    BY <1>3 DEF ToSet
  <2>2. PICK i \in 1 .. Len(L) : PlaceOf(k, i) = j
    BY <1>4, <1>7
  <2> QED BY <1>5, <1>6, <1>8, <2>1, <2>2
<1>11. ASSUME NEW l \in ToSet(links), l.key = k
       PROVE  l[LongEnd(k)] \in ToSet(L) /\ l[ShortEnd(k)] \in ToSet(S)
  <2>1. PICK i \in DOMAIN links : l = links[i]
    BY DEF ToSet
  <2>2. i - off \in 1 .. Len(L) /\ off + (i - off) = i
    BY <1>2, <1>3, <1>5, <1>11, <2>1
  <2>3. Joins(k, i - off, l)
    BY <1>5, <2>1, <2>2
  <2> QED BY <1>3, <1>4, <1>6, <2>2, <2>3 DEF ToSet
<1>12. CASE ByCon(k)
  <2>1. /\ L = Consumers(k) /\ S = Producers(k)
        /\ LongEnd(k) = "con" /\ ShortEnd(k) = "prod"
    BY <1>12 DEF L, S, LongerList, ShorterList, LongEnd, ShortEnd
  <2> QED BY <1>9, <1>10, <1>11, <2>1
<1>13. CASE ~ByCon(k)
  <2>1. /\ L = Producers(k) /\ S = Consumers(k)
        /\ LongEnd(k) = "prod" /\ ShortEnd(k) = "con"
    BY <1>13 DEF L, S, LongerList, ShorterList, LongEnd, ShortEnd
  <2> QED BY <1>9, <1>10, <1>11, <2>1
<1> QED BY <1>12, <1>13

(* The home of a port is a key that its node is an end of.                 *)
LEMMA PortsAreEnds ==
  ASSUME GInv, CopiesRight, HomesRight, Unambiguous, NEW n \in NodeIds
  PROVE  /\ \A p \in ToSet(Node(n).l5_inports) : Len(nodes) <= Sentinel =>
              Home(p.path) \in Keys /\ n \in ToSet(Consumers(Home(p.path)))
         /\ \A p \in ToSet(Node(n).l5_outports) :
              Home(p.path) \in Keys /\ n \in ToSet(Producers(Home(p.path)))
<1>1. \A r \in Listed : Home(r) \in Paths
  BY HomeFacts, ListedType DEF GInv, PlaceRight
<1>2. ASSUME NEW p \in ToSet(Node(n).l5_inports), Len(nodes) <= Sentinel
      PROVE  Home(p.path) \in Keys /\ n \in ToSet(Consumers(Home(p.path)))
  <2> DEFINE k == Home(p.path)
  <2>1. k \in Paths /\ InAt(n, k)
    BY <1>1, NodePaths DEF InAt
  <2> HIDE DEF k
  <2>2. AsConsumer(n) \in ToSet(workflow_links[k])
    BY <2>1 DEF HomesRight
  <2>3. workflow_links[k] # <<>>
    BY <2>2 DEF ToSet
  <2>4. n \in ToSet(Consumers(k))
    BY <1>2, <2>1, <2>2, EntriesAreEnds
  <2> QED BY <2>1, <2>3, <2>4 DEF Keys, k
<1>3. ASSUME NEW p \in ToSet(Node(n).l5_outports)
      PROVE  Home(p.path) \in Keys /\ n \in ToSet(Producers(Home(p.path)))
  <2> DEFINE k == Home(p.path)
  <2>1. k \in Paths /\ OutAt(n, k)
    BY <1>1, NodePaths DEF OutAt
  <2> HIDE DEF k
  <2>2. -n \in ToSet(workflow_links[k])
    BY <2>1 DEF HomesRight
  <2>3. workflow_links[k] # <<>>
    BY <2>2 DEF ToSet
  <2>4. n \in ToSet(Producers(k))
    BY <2>1, <2>2, EntriesAreEnds
  <2> QED BY <2>1, <2>3, <2>4 DEF Keys, k
<1> QED BY <1>2, <1>3

(* So a key has both ends if and only if two ports that belong there match. *)
LEMMA BothEnds ==
  ASSUME GInv, CopiesRight, HomesRight, Unambiguous,
         Len(nodes) <= Sentinel, NEW k \in Keys, NEW r \in Listed, Home(r) = k
  PROVE  /\ Producers(k) # <<>> <=>
              \E m \in NodeIds : \E q \in ToSet(Node(m).l5_outports) :
                <<r, q.path>> \in Covers \/ <<q.path, r>> \in Covers
         /\ Consumers(k) # <<>> <=>
              \E m \in NodeIds : \E p \in ToSet(Node(m).l5_inports) :
                <<p.path, r>> \in Covers \/ <<r, p.path>> \in Covers
<1>1. yaml \in Yamls /\ k \in Paths
  BY DEF GInv, PlaceRight, Keys
<1>2. /\ Producers(k) \in Seq(NodeIds) /\ Consumers(k) \in Seq(NodeIds)
  BY <1>1, EndsType
<1>3. /\ Producers(k) # <<>> <=> ToSet(Producers(k)) # {}
      /\ Consumers(k) # <<>> <=> ToSet(Consumers(k)) # {}
  BY <1>2, NoElements
<1>4. /\ \A n \in ToSet(Producers(k)) : n \in NodeIds
      /\ \A n \in ToSet(Consumers(k)) : n \in NodeIds
  <2> DEFINE s == Producers(k)
             u == Consumers(k)
  <2> HIDE DEF s, u
  <2>1. \A i \in DOMAIN s : s[i] \in NodeIds
    BY <1>2 DEF s
  <2>2. \A i \in DOMAIN u : u[i] \in NodeIds
    BY <1>2 DEF u
  <2> QED BY <2>1, <2>2 DEF s, u, ToSet
<1>5. ASSUME Producers(k) # <<>>
      PROVE  \E m \in NodeIds : \E q \in ToSet(Node(m).l5_outports) :
               <<r, q.path>> \in Covers \/ <<q.path, r>> \in Covers
  <2>1. PICK m \in NodeIds : m \in ToSet(Producers(k))
    BY <1>3, <1>4, <1>5
  <2>2. OutAt(m, k)
    BY <1>1, <2>1, EndsAreHome
  <2>3. PICK q \in ToSet(Node(m).l5_outports) : Home(q.path) = k
    BY <2>2 DEF OutAt
  <2>4. q.path \in Listed
    BY NodePaths
  <2>5. <<r, q.path>> \in Covers \/ <<q.path, r>> \in Covers
    BY <1>1, <2>3, <2>4, SameHome
  <2> QED BY <2>5
<1>6. ASSUME Consumers(k) # <<>>
      PROVE  \E m \in NodeIds : \E p \in ToSet(Node(m).l5_inports) :
               <<p.path, r>> \in Covers \/ <<r, p.path>> \in Covers
  <2>1. PICK m \in NodeIds : m \in ToSet(Consumers(k))
    BY <1>3, <1>4, <1>6
  <2>2. InAt(m, k)
    BY <1>1, <2>1, EndsAreHome
  <2>3. PICK p \in ToSet(Node(m).l5_inports) : Home(p.path) = k
    BY <2>2 DEF InAt
  <2>4. p.path \in Listed
    BY NodePaths
  <2>5. <<p.path, r>> \in Covers \/ <<r, p.path>> \in Covers
    BY <1>1, <2>3, <2>4, SameHome
  <2> QED BY <2>5
<1>7. ASSUME NEW m \in NodeIds, NEW q \in ToSet(Node(m).l5_outports),
             <<r, q.path>> \in Covers \/ <<q.path, r>> \in Covers
      PROVE  Producers(k) # <<>>
  <2>1. Home(q.path) = k
    BY <1>1, <1>7, NodePaths, SameHome
  <2>2. m \in ToSet(Producers(k))
    BY <2>1, PortsAreEnds
  <2> QED BY <1>3, <2>2
<1>8. ASSUME NEW m \in NodeIds, NEW p \in ToSet(Node(m).l5_inports),
             <<p.path, r>> \in Covers \/ <<r, p.path>> \in Covers
      PROVE  Consumers(k) # <<>>
  <2>1. Home(p.path) = k
    BY <1>1, <1>8, NodePaths, SameHome
  <2>2. m \in ToSet(Consumers(k))
    BY <2>1, PortsAreEnds
  <2> QED BY <1>3, <2>2
<1> QED BY <1>5, <1>6, <1>7, <1>8

(* In every unambiguous and legible description whose lists of producers   *)
(* and consumers divide each other, of no more nodes than Sentinel stands  *)
(* for, every port is linked if one of the other direction matches it, and *)
(* otherwise, in a single task, on disk, and links join ports that match:  *)
(* make_wflow_from_yaml and generateLinks build the graph that the         *)
(* description means.                                                      *)
THEOREM LinksMatchPortsCorrect == Spec => []LinksMatchPorts
<1> DEFINE Ins(n)  == ToSet(Node(n).l5_inports)
           Outs(n) == ToSet(Node(n).l5_outports)
           LinkOf(p, l) == <<l.key, p.path>> \in Covers
           Single(p) == p.name = Name(p.path)
           OnlyFile(n, p) == ~p.metadata /\ p.name \in Node(n).passthru_files
<1>1. HomesInv => LinksMatchPorts
  <2> SUFFICES ASSUME HomesInv, phase = "done", Len(nodes) <= Sentinel,
                      Unambiguous, Legible, \A k \in Keys : Even(k)
               PROVE  /\ \A n \in NodeIds : \A p \in Ins(n) :
                           IF \E m \in NodeIds : \E q \in Outs(m) : Coupled(p, q)
                           THEN \E l \in ToSet(links) : l.con = n /\ LinkOf(p, l)
                           ELSE Single(p) => OnlyFile(n, p)
                      /\ \A n \in NodeIds : \A q \in Outs(n) :
                           IF \E m \in NodeIds : \E p \in Ins(m) : Coupled(p, q)
                           THEN \E l \in ToSet(links) : l.prod = n /\ LinkOf(q, l)
                           ELSE Single(q) => OnlyFile(n, q)
                      /\ \A l \in ToSet(links) :
                           \E p \in Ins(l.con), q \in Outs(l.prod) : Coupled(p, q)
    BY DEF LinksMatchPorts
  <2>1. GInv /\ LinksRight /\ CopiesRight /\ HomesRight /\ yaml \in Yamls
    BY DEF HomesInv, LinksInv, GInv, PlaceRight
  <2>2. \A k \in Keys : KeyDone(k) /\ k \in Paths
    BY <2>1 DEF LinksRight, Keys
  <2>3. ASSUME NEW n \in NodeIds, NEW p \in Ins(n)
        PROVE  IF \E m \in NodeIds : \E q \in Outs(m) : Coupled(p, q)
               THEN \E l \in ToSet(links) : l.con = n /\ LinkOf(p, l)
               ELSE Single(p) => OnlyFile(n, p)
    <3> DEFINE k == Home(p.path)
    <3>1. p.path \in Listed /\ k \in Keys /\ n \in ToSet(Consumers(k))
      BY <2>1, <2>3, NodePaths, PortsAreEnds
    <3>2. <<k, p.path>> \in Covers
      BY <2>1, <3>1, UnderKey
    <3>3. Consumers(k) # <<>>
      BY <3>1 DEF ToSet
    <3>4. Producers(k) # <<>> <=>
            \E m \in NodeIds : \E q \in Outs(m) : Coupled(p, q)
      BY <2>1, <3>1, BothEnds DEF Coupled
    <3>5. KeyDone(k) /\ k \in Paths /\ Even(k)
      BY <2>2, <3>1
    <3> HIDE DEF k
    <3>6. CASE Producers(k) # <<>>
      <4>1. PICK l \in ToSet(links) : l.key = k /\ l.con = n
        BY <2>1, <3>1, <3>3, <3>5, <3>6, LinksOfKey DEF OneSided
      <4> QED BY <3>2, <3>4, <3>6, <4>1
    <3>7. CASE Producers(k) = <<>>
      <4> SUFFICES ASSUME Single(p) PROVE OnlyFile(n, p)
        BY <3>4, <3>7
      <4>1. PICK files \in Unlinked(k) : \A m \in DOMAIN files : \A o \in files[m] :
              ~o.metadata /\ o.name \in Node(m).passthru_files
        BY <3>5, <3>7 DEF KeyDone, OneSided
      <4>2. files[n] \in OnDisk(k, Node(n).l5_inports) /\ n \in DOMAIN files
        BY <3>1, <3>7, UnlinkedIs
      <4>3. p \in PortsAt(n)
        BY <2>3 DEF PortsAt
      <4>4. ~(FALSE \in match(Name(k), p.name))
        BY <2>1, <3>1, <3>2, <4>3, UnderName
      <4>5. p \in files[n]
        BY <2>3, <4>2, <4>4, OnDiskIs
      <4> QED BY <4>1, <4>2, <4>5
    <3> QED BY <3>6, <3>7
  <2>4. ASSUME NEW n \in NodeIds, NEW q \in Outs(n)
        PROVE  IF \E m \in NodeIds : \E p \in Ins(m) : Coupled(p, q)
               THEN \E l \in ToSet(links) : l.prod = n /\ LinkOf(q, l)
               ELSE Single(q) => OnlyFile(n, q)
    <3> DEFINE k == Home(q.path)
    <3>1. q.path \in Listed /\ k \in Keys /\ n \in ToSet(Producers(k))
      BY <2>1, <2>4, NodePaths, PortsAreEnds
    <3>2. <<k, q.path>> \in Covers
      BY <2>1, <3>1, UnderKey
    <3>3. Producers(k) # <<>>
      BY <3>1 DEF ToSet
    <3>4. Consumers(k) # <<>> <=>
            \E m \in NodeIds : \E p \in Ins(m) : Coupled(p, q)
      BY <2>1, <3>1, BothEnds DEF Coupled
    <3>5. KeyDone(k) /\ k \in Paths /\ Even(k)
      BY <2>2, <3>1
    <3> HIDE DEF k
    <3>6. CASE Consumers(k) # <<>>
      <4>1. PICK l \in ToSet(links) : l.key = k /\ l.prod = n
        BY <2>1, <3>1, <3>3, <3>5, <3>6, LinksOfKey DEF OneSided
      <4> QED BY <3>2, <3>4, <3>6, <4>1
    <3>7. CASE Consumers(k) = <<>>
      <4> SUFFICES ASSUME Single(q) PROVE OnlyFile(n, q)
        BY <3>4, <3>7
      <4>1. PICK files \in Unlinked(k) : \A m \in DOMAIN files : \A o \in files[m] :
              ~o.metadata /\ o.name \in Node(m).passthru_files
        BY <3>5, <3>7 DEF KeyDone, OneSided
      <4>2. files[n] \in OnDisk(k, Node(n).l5_outports) /\ n \in DOMAIN files
        BY <3>1, <3>3, UnlinkedIs
      <4>3. q \in PortsAt(n)
        BY <2>4 DEF PortsAt
      <4>4. ~(FALSE \in match(Name(k), q.name))
        BY <2>1, <3>1, <3>2, <4>3, UnderName
      <4>5. q \in files[n]
        BY <2>4, <4>2, <4>4, OnDiskIs
      <4> QED BY <4>1, <4>2, <4>5
    <3> QED BY <3>6, <3>7
  <2>5. ASSUME NEW l \in ToSet(links)
        PROVE  \E p \in Ins(l.con), q \in Outs(l.prod) : Coupled(p, q)
    <3> DEFINE k == l.key
    <3>1. k \in Keys /\ ~OneSided(k)
      BY <2>1 DEF LinksRight, ToSet
    <3>2. KeyDone(k) /\ k \in Paths /\ Even(k)
      BY <2>2, <3>1
    <3>3. l.prod \in ToSet(Producers(k)) /\ l.con \in ToSet(Consumers(k))
      BY <2>1, <3>1, <3>2, LinksOfKey
    <3>4. OutAt(l.prod, k) /\ InAt(l.con, k)
      BY <2>1, <3>2, <3>3, EndsAreHome
    <3>5. l.prod \in NodeIds /\ l.con \in NodeIds
      BY <2>1 DEF GInv, LinkRight, ToSet
    <3>6. PICK p \in Ins(l.con) : Home(p.path) = k
      BY <3>4 DEF InAt
    <3>7. PICK q \in Outs(l.prod) : Home(q.path) = k
      BY <3>4 DEF OutAt
    <3>8. p.path \in Listed /\ q.path \in Listed
      BY <2>1, <3>5, NodePaths
    <3>9. Coupled(p, q)
      BY <2>1, <3>6, <3>7, <3>8, SameHome DEF Coupled
    <3> QED BY <3>9
  <2> QED BY <2>3, <2>4, <2>5
<1> QED BY <1>1, HomesInvInit, HomesInvNext, PTL DEF Spec

-----------------------------------------------------------------------------
(* Sharing out.  A set made of a run of q numbers for every j of J.        *)
Runs(B, off, q, J) ==
  \A i : i \in B <=>
    /\ i \in Int
    /\ \E j \in J : off + q * (j - 1) < i /\ i <= off + q * (j - 1) + q

(* Such a set has q times as many elements as J.                           *)
LEMMA RunsCount ==
  ASSUME NEW off \in Nat, NEW q \in Nat \ {0}, NEW n \in Nat,
         NEW J \in SUBSET (1 .. n), NEW B, Runs(B, off, q, J)
  PROVE  Cardinality(B) = Cardinality(J) * q /\ Cardinality(J) \in Nat
<1> DEFINE D == J \X (1 .. q)
           F == [x \in D |-> off + q * (x[1] - 1) + x[2]]
<1>1. \A j \in J : j \in Int
  OBVIOUS
<1>2. \A x \in D : x[1] \in J /\ x[2] \in 1 .. q
  OBVIOUS
<1>3. ASSUME NEW x \in D PROVE F[x] \in B
  <2>1. PICK d : d = q * (x[1] - 1)
    OBVIOUS
  <2>2. d \in Int
    BY <1>1, <1>2, <2>1
  <2>3. F[x] = off + d + x[2]
    BY <2>1
  <2>4. F[x] \in Int /\ off + d < F[x] /\ F[x] <= off + d + q
    BY <1>2, <2>2, <2>3
  <2> HIDE DEF F
  <2> QED BY <1>2, <2>1, <2>4 DEF Runs
<1>4. ASSUME NEW x \in D, NEW y \in D, F[x] = F[y] PROVE x = y
  <2>1. /\ x[1] \in Int /\ y[1] \in Int /\ x[2] \in 1 .. q /\ y[2] \in 1 .. q
        /\ x = <<x[1], x[2]>> /\ y = <<y[1], y[2]>>
    <3>1. x = <<x[1], x[2]>> /\ y = <<y[1], y[2]>>
      OBVIOUS
    <3>2. x[1] \in J /\ y[1] \in J /\ x[2] \in 1 .. q /\ y[2] \in 1 .. q
      BY <1>2
    <3> QED BY <1>1, <3>1, <3>2
  <2>2. PICK d : d = q * (x[1] - 1)
    OBVIOUS
  <2>3. PICK e : e = q * (y[1] - 1)
    OBVIOUS
  <2>4. /\ d \in Int /\ e \in Int /\ off + d + x[2] = off + e + y[2]
    BY <1>4, <2>1, <2>2, <2>3
  <2>5. /\ x[1] - 1 < y[1] - 1 => d + q <= e
        /\ y[1] - 1 < x[1] - 1 => e + q <= d
    BY <2>1, <2>2, <2>3, Multiples
  <2>6. x[1] = y[1]
    BY <2>1, <2>4, <2>5
  <2>7. x[2] = y[2]
    BY <2>1, <2>2, <2>3, <2>4, <2>6
  <2> QED BY <2>1, <2>6, <2>7
<1>5. ASSUME NEW i \in B PROVE \E x \in D : F[x] = i
  <2>1. /\ i \in Int
        /\ \E j \in J : off + q * (j - 1) < i /\ i <= off + q * (j - 1) + q
    BY DEF Runs
  <2>2. PICK j \in J : off + q * (j - 1) < i /\ i <= off + q * (j - 1) + q
    BY <2>1
  <2>3. PICK d : d = q * (j - 1)
    OBVIOUS
  <2>4. d \in Int
    BY <1>1, <2>3
  <2>5. i - off - d \in 1 .. q /\ off + d + (i - off - d) = i
    BY <2>1, <2>2, <2>3, <2>4
  <2>6. <<j, i - off - d>> \in D
    BY <2>5
  <2>7. F[<<j, i - off - d>>] = off + d + (i - off - d)
    BY <2>3, <2>6
  <2> QED BY <2>5, <2>6, <2>7
<1> HIDE DEF F
<1>6. F \in Bijection(D, B)
  <2>1. F \in [D -> B]
    BY <1>3 DEF F
  <2> HIDE DEF D
  <2> QED BY <1>4, <1>5, <2>1, Fun_IsBij
<1>7. /\ IsFiniteSet(1 .. n) /\ IsFiniteSet(1 .. q) /\ Cardinality(1 .. q) = q
  BY FS_Interval
<1>8. IsFiniteSet(J)
  BY <1>7, FS_Subset
<1>9. IsFiniteSet(D) /\ Cardinality(D) = Cardinality(J) * q
  BY <1>7, <1>8, FS_Product
<1> HIDE DEF D
<1>10. Cardinality(B) = Cardinality(D)
  BY <1>6, <1>9, FS_Bijection DEF ExistsBijection
<1> QED BY <1>8, <1>9, <1>10, FS_CardinalityType

(* The links of a key with node n at an end, and the entries of n.         *)
Under(k, end, n) == {i \in DOMAIN links : links[i].key = k /\ links[i][end] = n}

Entries(list, n) == {i \in DOMAIN list : list[i] = n}

(* A node has as many links at an end of a key as its entries get.         *)
LEMMA LinksCount ==
  ASSUME GInv, NEW k \in Paths, ~OneSided(k), Even(k), KeyDone(k), NEW n
  PROVE  /\ Cardinality(Under(k, LongEnd(k), n)) * Len(LongerList(k))
              = Cardinality(Entries(LongerList(k), n)) * Longer(k)
         /\ Cardinality(Under(k, ShortEnd(k), n)) * Len(ShorterList(k))
              = Cardinality(Entries(ShorterList(k), n)) * Longer(k)
<1> DEFINE L == LongerList(k)
           S == ShorterList(k)
           q == Len(L) \div Len(S)
           EL == Entries(L, n)
           ES == Entries(S, n)
           UL == Under(k, LongEnd(k), n)
           US == Under(k, ShortEnd(k), n)
<1>1. PICK off \in 0 .. Len(links) : BlockAt(k, off)
  BY DEF KeyDone
<1>2. /\ DOMAIN links = 1 .. Len(links) /\ Len(links) \in Nat
  BY LenProperties DEF GInv, IsList
<1>3. /\ DOMAIN L = 1 .. Len(L) /\ Len(L) \in Nat
      /\ DOMAIN S = 1 .. Len(S) /\ Len(S) \in Nat \ {0}
      /\ Len(L) >= Len(S) /\ Len(L) % Len(S) = 0
  BY TwoLists
<1>4. \A i \in 1 .. Len(L) : PlaceOf(k, i) \in 1 .. Len(S)
  BY PlacesFilled
<1>5. /\ off + Len(L) <= Len(links)
      /\ \A i \in 1 .. Len(L) : Joins(k, i, links[off + i])
      /\ \A i \in DOMAIN links : links[i].key = k =>
           off < i /\ i <= off + Len(L)
  BY <1>1 DEF BlockAt
<1>6. \A i \in 1 .. Len(L) :
        /\ links[off + i].key = k
        /\ links[off + i][LongEnd(k)] = L[i]
        /\ links[off + i][ShortEnd(k)] = S[PlaceOf(k, i)]
  BY <1>4, <1>5 DEF Joins
<1>7. /\ \A i : i \in UL <=>
            i \in DOMAIN links /\ links[i].key = k /\ links[i][LongEnd(k)] = n
      /\ \A i : i \in US <=>
            i \in DOMAIN links /\ links[i].key = k /\ links[i][ShortEnd(k)] = n
      /\ \A i : i \in EL <=> i \in DOMAIN L /\ L[i] = n
      /\ \A i : i \in ES <=> i \in DOMAIN S /\ S[i] = n
  BY DEF Under, Entries
<1>8. Longer(k) = Len(L)
  BY DEF Longer, LongerList, ByCon
<1>9. \A i : PlaceOf(k, i) = Partner(i - 1, Len(L), Len(S))
  BY DEF PlaceOf
<1> HIDE DEF L, S, q, EL, ES, UL, US
<1>10. /\ q \in Nat \ {0} /\ Len(L) = q * Len(S)
       /\ \A i \in 1 .. Len(L) : \A j \in 1 .. Len(S) :
            PlaceOf(k, i) = j <=> q * (j - 1) < i /\ i <= q * (j - 1) + q
  <2>1. /\ q \in Nat \ {0} /\ Len(L) = q * Len(S)
        /\ \A i \in 1 .. Len(L) : \A j \in 1 .. Len(S) :
             Partner(i - 1, Len(L), Len(S)) = j <=>
               q * (j - 1) < i /\ i <= q * (j - 1) + q
    BY <1>3, PartnerPlaces DEF q
  <2> QED BY <1>9, <2>1
<1>11. ASSUME NEW i
       PROVE  i \in DOMAIN links /\ links[i].key = k <=>
                i \in Int /\ off < i /\ i <= off + Len(L)
  <2>1. ASSUME i \in Int, off < i, i <= off + Len(L)
        PROVE  i \in DOMAIN links /\ links[i].key = k
    <3>1. i - off \in 1 .. Len(L) /\ off + (i - off) = i /\ i \in DOMAIN links
      BY <1>2, <1>3, <1>5, <2>1
    <3> QED BY <1>6, <3>1
  <2> QED BY <1>2, <1>5, <2>1
<1>12. Runs(UL, off, 1, EL)
  <2> SUFFICES ASSUME NEW i
               PROVE  i \in UL <=>
                        /\ i \in Int
                        /\ \E j \in EL : off + 1 * (j - 1) < i
                                          /\ i <= off + 1 * (j - 1) + 1
    BY DEF Runs
  <2>1. ASSUME i \in UL
        PROVE  /\ i \in Int
               /\ \E j \in EL : off + 1 * (j - 1) < i /\ i <= off + 1 * (j - 1) + 1
    <3>1. i \in Int /\ off < i /\ i <= off + Len(L) /\ links[i][LongEnd(k)] = n
      BY <1>7, <1>11, <2>1
    <3>2. i - off \in 1 .. Len(L) /\ off + (i - off) = i
      BY <1>3, <3>1
    <3>3. L[i - off] = n
      BY <1>6, <3>1, <3>2
    <3>4. i - off \in EL
      BY <1>3, <1>7, <3>2, <3>3
    <3> QED BY <3>1, <3>2, <3>4
  <2>2. ASSUME i \in Int, NEW j \in EL, off + 1 * (j - 1) < i, i <= off + 1 * (j - 1) + 1
        PROVE  i \in UL
    <3>1. j \in 1 .. Len(L) /\ L[j] = n
      BY <1>3, <1>7
    <3>2. i = off + j /\ off < i /\ i <= off + Len(L)
      BY <1>3, <2>2, <3>1
    <3> QED BY <1>6, <1>7, <1>11, <2>2, <3>1, <3>2
  <2> QED BY <2>1, <2>2
<1>13. Runs(US, off, q, ES)
  <2> SUFFICES ASSUME NEW i
               PROVE  i \in US <=>
                        /\ i \in Int
                        /\ \E j \in ES : off + q * (j - 1) < i
                                          /\ i <= off + q * (j - 1) + q
    BY DEF Runs
  <2>1. ASSUME i \in US
        PROVE  /\ i \in Int
               /\ \E j \in ES : off + q * (j - 1) < i /\ i <= off + q * (j - 1) + q
    <3>1. i \in Int /\ off < i /\ i <= off + Len(L) /\ links[i][ShortEnd(k)] = n
      BY <1>7, <1>11, <2>1
    <3>2. i - off \in 1 .. Len(L) /\ off + (i - off) = i
      BY <1>3, <3>1
    <3>3. PICK j \in 1 .. Len(S) : j = PlaceOf(k, i - off)
      BY <1>4, <3>2
    <3>4. j \in ES
      BY <1>3, <1>6, <1>7, <3>1, <3>2, <3>3
    <3>5. q * (j - 1) < i - off /\ i - off <= q * (j - 1) + q
      BY <1>10, <3>2, <3>3
    <3>6. PICK d : d = q * (j - 1)
      OBVIOUS
    <3>7. d \in Int
      BY <1>10, <3>6
    <3>8. off + d < i /\ i <= off + d + q
      BY <1>10, <3>1, <3>5, <3>6, <3>7
    <3> QED BY <3>1, <3>4, <3>6, <3>8
  <2>2. ASSUME i \in Int, NEW j \in ES, off + q * (j - 1) < i, i <= off + q * (j - 1) + q
        PROVE  i \in US
    <3>1. j \in 1 .. Len(S) /\ S[j] = n
      BY <1>3, <1>7
    <3>2. PICK d : d = q * (j - 1)
      OBVIOUS
    <3>3. d \in Nat /\ d + q = q * j /\ q * j <= q * Len(S)
      BY <1>3, <1>10, <3>1, <3>2
    <3>4. /\ i - off \in 1 .. Len(L) /\ off + (i - off) = i
          /\ d < i - off /\ i - off <= d + q
      BY <1>3, <1>10, <2>2, <3>2, <3>3
    <3>5. PlaceOf(k, i - off) = j
      BY <1>10, <3>1, <3>2, <3>4
    <3>6. off < i /\ i <= off + Len(L)
      BY <1>3, <3>4
    <3> QED BY <1>6, <1>7, <1>11, <2>2, <3>1, <3>4, <3>5, <3>6
  <2> QED BY <2>1, <2>2
<1>14. EL \in SUBSET (1 .. Len(L)) /\ ES \in SUBSET (1 .. Len(S))
  BY <1>3, <1>7
<1> off \in Nat
  BY <1>1, <1>2
<1>15. Cardinality(UL) = Cardinality(EL) * 1 /\ Cardinality(EL) \in Nat
  <2>1. PICK r \in Nat \ {0} : r = 1
    OBVIOUS
  <2>2. Runs(UL, off, r, EL)
    BY <1>12, <2>1
  <2>3. Cardinality(UL) = Cardinality(EL) * r /\ Cardinality(EL) \in Nat
    BY <1>3, <1>14, <2>2, RunsCount
  <2> QED BY <2>1, <2>3
<1>16. Cardinality(US) = Cardinality(ES) * q /\ Cardinality(ES) \in Nat
  BY <1>3, <1>10, <1>13, <1>14, RunsCount
<1>17. Cardinality(UL) * Len(L) = Cardinality(EL) * Len(L)
  BY <1>3, <1>15
<1>18. Cardinality(US) * Len(S) = Cardinality(ES) * Len(L)
  <2> DEFINE c == Cardinality(ES)
             s == Len(S)
  <2>1. c \in Nat /\ s \in Nat /\ q \in Nat
    BY <1>3, <1>10, <1>16
  <2> HIDE DEF c, s
  <2>2. (c * q) * s = c * (q * s)
    BY <2>1
  <2> QED BY <1>10, <1>16, <2>2 DEF c, s
<1> QED BY <1>8, <1>17, <1>18 DEF L, S, EL, ES, UL, US

(* In every description, every entry of the shorter list of a key has the   *)
(* same number of links, and every entry of the longer one has one, if the *)
(* one divides the other.                                                  *)
THEOREM BalancedCorrect == Spec => []Balanced
<1> DEFINE Fair(k, end, list) == \A n \in ToSet(list) :
             Cardinality(Under(k, end, n)) * Len(list)
               = Cardinality(Entries(list, n)) * Longer(k)
<1>1. LinksInv => Balanced
  <2> SUFFICES ASSUME LinksInv, phase = "done", NEW k \in Keys, Even(k), Shorter(k) > 0
               PROVE  Fair(k, "prod", Producers(k)) /\ Fair(k, "con", Consumers(k))
    BY DEF Balanced, Under, Entries
  <2>1. GInv /\ LinksRight /\ k \in Paths
    BY DEF LinksInv, Keys
  <2>2. KeyDone(k)
    BY <2>1 DEF LinksRight
  <2>3. ~OneSided(k)
    <3>1. Producers(k) \in Seq(NodeIds) /\ Consumers(k) \in Seq(NodeIds)
      BY <2>1, EndsType
    <3>2. /\ Len(Producers(k)) \in Nat /\ Len(Consumers(k)) \in Nat
          /\ Producers(k) = <<>> => Len(Producers(k)) = 0
          /\ Consumers(k) = <<>> => Len(Consumers(k)) = 0
      BY <3>1, LenProperties, EmptySeq
    <3> QED BY <3>2 DEF Shorter, OneSided
  <2>4. \A n : /\ Cardinality(Under(k, LongEnd(k), n)) * Len(LongerList(k))
                    = Cardinality(Entries(LongerList(k), n)) * Longer(k)
               /\ Cardinality(Under(k, ShortEnd(k), n)) * Len(ShorterList(k))
                    = Cardinality(Entries(ShorterList(k), n)) * Longer(k)
    BY <2>1, <2>2, <2>3, LinksCount
  <2>5. CASE ByCon(k)
    BY <2>4, <2>5 DEF LongerList, ShorterList, LongEnd, ShortEnd
  <2>6. CASE ~ByCon(k)
    BY <2>4, <2>6 DEF LongerList, ShorterList, LongEnd, ShortEnd
  <2> QED BY <2>5, <2>6
<1> QED BY <1>1, LinksInvInit, LinksInvNext, PTL DEF Spec

-----------------------------------------------------------------------------
(* The key of a link, in every description.                                *)

(* The node of every entry of a key has a port that may match it.          *)
Fitting(ports, k) == \E p \in ToSet(ports) : TRUE \in Results[<<k, p.path>>]

EntriesMatch ==
  \A k \in Paths : \A v \in ToSet(workflow_links[k]) :
    \/ \E n \in NodeIds :
          v = AsConsumer(n) /\ v > 0 /\ Fitting(Node(n).l5_inports, k)
    \/ \E n \in NodeIds : v = -n /\ Fitting(Node(n).l5_outports, k)

LEMMA KeyForMatches ==
  ASSUME NEW table, NEW path \in Paths, NEW hits \in KeyHits(path)
  PROVE  LET h == KeyFor(table, path, hits)
         IN h \in Paths /\ TRUE \in Results[<<h, path>>]
<1> DEFINE matching == {k \in hits : table[k] # <<>>}
           h == KeyFor(table, path, hits)
<1>1. /\ hits \subseteq Paths /\ \A k \in hits : TRUE \in Results[<<k, path>>]
      /\ Paths \subseteq Nat
  BY KeyHitsAre, PathFacts
<1>2. h = IF matching = {} THEN path
          ELSE CHOOSE k \in matching : \A j \in matching : k <= j
  BY DEF KeyFor
<1> HIDE DEF h
<1>3. ASSUME matching = {}
      PROVE  h \in Paths /\ TRUE \in Results[<<h, path>>]
  <2>1. Results[<<path, path>>] = {TRUE}
    BY PathFacts
  <2>2. h = path
    BY <1>2, <1>3
  <2> QED BY <2>1, <2>2
<1>4. ASSUME matching # {}
      PROVE  h \in Paths /\ TRUE \in Results[<<h, path>>]
  <2>1. matching \in SUBSET Nat
    BY <1>1
  <2> HIDE DEF matching
  <2>2. \E k \in matching : \A j \in matching : k <= j
    BY <1>4, <2>1, LeastNumber
  <2>3. h \in matching
    BY <1>2, <1>4, <2>2
  <2>4. h \in hits
    BY <2>3 DEF matching
  <2> QED BY <1>1, <2>4
<1>5. h \in Paths /\ TRUE \in Results[<<h, path>>]
  BY <1>3, <1>4
<1> QED BY <1>5 DEF h

(* The loop over the ports of a node only enters it under keys that match  *)
(* one of them.                                                            *)
NewMatch(table, ports, v, new) ==
  \A k \in Paths : \A w \in ToSet(new[k]) :
    w \in ToSet(table[k]) \/ (w = v /\ Fitting(ports, k))

LEMMA LoopMatches ==
  ASSUME NEW V, NEW v, NEW table, NEW range, NEW ports, NEW mets,
         Looping(V, v, table, range, ports, mets)
  PROVE  NewMatch(table, ports, v, AddPorts(table, range, mets, v).table)
<1>0. mets \in Seq(MetsOf(ports)) /\ ToSet(mets) \subseteq MetsOf(ports)
  BY MeetsRight DEF Looping
<1> DEFINE X == {acc \in Accs(V) : NewMatch(table, ports, v, acc.table)}
<1>1. Started(table, range) \in X
  <2>1. Started(table, range) \in Accs(V)
    BY DEF Accs, Started, Looping
  <2> QED BY <2>1 DEF Started, NewMatch
<1>2. ASSUME NEW acc \in X, NEW m \in ToSet(mets)
      PROVE  AddPort(acc, m, v) \in X
  <2> DEFINE p == m.port
             old == acc.table
             new == AddPort(acc, m, v).table
             h == KeyFor(old, p.path, m.hits)
  <2>0. m \in MetsOf(ports) /\ p \in ToSet(ports) /\ m.hits \in KeyHits(p.path)
    BY <1>0 DEF MetsOf
  <2>1. AddPort(acc, m, v) \in Accs(V)
    BY <2>0, AddPortStep DEF Looping
  <2>2. p.path \in Paths
    <3>1. \A i \in DOMAIN ports : ports[i] \in Ports
      <4>1. ports \in Seq(Ports)
        BY DEF Looping
      <4> QED BY <4>1
    <3>2. p \in Ports
      BY <2>0, <3>1 DEF ToSet
    <3> QED BY <3>2 DEF Ports
  <2>3. h \in Paths /\ TRUE \in Results[<<h, p.path>>]
    BY <2>0, <2>2, KeyForMatches
  <2>4. new = [old EXCEPT ![h] = Append(@, v)]
    BY AddPortAdds DEF Adds
  <2>5. old \in [Paths -> Seq(Int)] /\ v \in Int
    BY DEF Accs, Tables, Looping
  <2> HIDE DEF old, new, h
  <2>6. ASSUME NEW k \in Paths, NEW w \in ToSet(new[k])
        PROVE  w \in ToSet(table[k]) \/ (w = v /\ Fitting(ports, k))
    <3>1. w \in ToSet(old[k]) => w \in ToSet(table[k]) \/ (w = v /\ Fitting(ports, k))
      BY DEF NewMatch, old
    <3>2. CASE k # h
      BY <2>4, <2>5, <3>1, <3>2
    <3>3. CASE k = h
      <4> DEFINE s == old[k]
                 u == Append(s, v)
      <4>1. s \in Seq(Int) /\ new[k] = u
        BY <2>4, <2>5, <3>3
      <4> HIDE DEF s
      <4>2. /\ DOMAIN s = 1 .. Len(s) /\ Len(s) \in Nat
            /\ DOMAIN u = 1 .. Len(s) + 1
            /\ \A j \in 1 .. Len(s) : u[j] = s[j]
            /\ u[Len(s) + 1] = v
        BY <2>5, <4>1, AppendProperties, LenProperties
      <4> HIDE DEF u
      <4>3. w \in ToSet(s) \/ w = v
        <5>1. \A j \in 1 .. Len(s) + 1 : j \in 1 .. Len(s) \/ j = Len(s) + 1
          BY <4>2
        <5> QED BY <4>1, <4>2, <5>1 DEF ToSet
      <4>4. Fitting(ports, k)
        BY <2>0, <2>3, <3>3 DEF Fitting
      <4> QED BY <3>1, <4>3, <4>4 DEF s
    <3> QED BY <3>2, <3>3
  <2> QED BY <2>1, <2>6 DEF NewMatch, new
<1>3. AddPorts(table, range, mets, v) \in X
  <2> HIDE DEF X
  <2> QED BY <1>0, <1>1, <1>2, AddPortsIn
<1> QED BY <1>3

(* The ports of a node match what those of its task match.                 *)
LEMMA CopiesFit ==
  ASSUME NEW S, NEW list \in Seq(S), NEW T, NEW ports \in Seq(T),
         Copies(list, ports), NEW k, Fitting(ports, k)
  PROVE  Fitting(list, k)
<1>1. /\ DOMAIN ports = 1 .. Len(ports) /\ DOMAIN list = 1 .. Len(ports)
      /\ \A m \in 1 .. Len(ports) : list[m].path = ports[m].path
  BY LenProperties DEF Copies, Same
<1>2. PICK m \in 1 .. Len(ports) : TRUE \in Results[<<k, ports[m].path>>]
  BY <1>1 DEF Fitting, ToSet
<1>3. list[m] \in ToSet(list)
  BY <1>1 DEF ToSet
<1> QED BY <1>1, <1>2, <1>3 DEF Fitting

LEMMA EntriesStep ==
  ASSUME GInv, EntriesMatch, AddNode
  PROVE  EntriesMatch'
<1>1. PICK N : N = Len(nodes)
  OBVIOUS
<1>2. Adding /\ \E mins, mouts : LoopsOf(mins, mouts)
  BY NodeLoops
<1>3. PICK mins, mouts : LoopsOf(mins, mouts)
  BY <1>2
<1> DEFINE a == AsConsumer(N)
           b == -N
           ip == yaml[task].inports
           op == yaml[task].outports
           ins == InsAdded(mins)
           outs == OutsAdded(mins, mouts)
           new == NodeRecord(ins, outs)
<1>4. Adding /\ NodeAdded(NewEntries, ins, outs)
  BY <1>2, <1>3 DEF LoopsOf, AddsNode
<1>5. /\ N \in Nat /\ Len(nodes') = N + 1
      /\ DOMAIN nodes = 1 .. N
      /\ \A m \in DOMAIN nodes : nodes'[m] = nodes[m]
      /\ nodes'[N + 1] = new
  BY <1>1, <1>4, NodesGrow
<1>6. /\ workflow_links' = outs.table
      /\ ins.ports \in Seq(NodePorts(task, index))
      /\ outs.ports \in Seq(NodePorts(task, index))
      /\ ip \in Seq(Ports) /\ op \in Seq(Ports)
  BY <1>4, <1>3 DEF NodeAdded, Accs, LoopsOf, Looping
<1>7. Copies(ins.ports, ip) /\ Copies(outs.ports, op)
  BY <1>3, NewNodeCopies DEF CopyOf, NodeRecord
<1>8. /\ NewMatch(workflow_links, ip, a, ins.table)
      /\ NewMatch(ins.table, op, b, outs.table)
  BY <1>1, <1>3, LoopMatches DEF LoopsOf, InsAdded, OutsAdded
<1>9. NodeIds' = NodeIds \cup {N} /\ NodeIds = 0 .. N - 1 /\ N \notin NodeIds
  BY <1>1, <1>5 DEF NodeIds
<1>10. \A n \in NodeIds : Node(n)' = Node(n)
  BY <1>5, <1>9 DEF Node
<1>11. Node(N)'.l5_inports = ins.ports /\ Node(N)'.l5_outports = outs.ports
  BY <1>5 DEF Node, NodeRecord
<1>12. a = AsConsumer(N) /\ a > 0
  <2>1. Sentinel > 0
    BY YamlAssumption
  <2> QED BY <1>5, <2>1 DEF AsConsumer
<1> HIDE DEF a, ins, outs, new, ip, op
<1>13. ASSUME NEW k \in Paths, NEW w \in ToSet(workflow_links'[k])
       PROVE  \/ \E n \in NodeIds' :
                    /\ w = AsConsumer(n) /\ w > 0
                    /\ Fitting(Node(n)'.l5_inports, k)
              \/ \E n \in NodeIds' : w = -n /\ Fitting(Node(n)'.l5_outports, k)
  <2>1. CASE w \in ToSet(workflow_links[k])
    <3>1. \/ \E n \in NodeIds :
               w = AsConsumer(n) /\ w > 0 /\ Fitting(Node(n).l5_inports, k)
          \/ \E n \in NodeIds : w = -n /\ Fitting(Node(n).l5_outports, k)
      BY <2>1 DEF EntriesMatch
    <3> QED BY <1>9, <1>10, <3>1
  <2>2. CASE w = a /\ Fitting(ip, k)
    <3>1. Fitting(ins.ports, k)
      BY <1>6, <1>7, <2>2, CopiesFit
    <3> QED BY <1>9, <1>11, <1>12, <2>2, <3>1
  <2>3. CASE w = b /\ Fitting(op, k)
    <3>1. Fitting(outs.ports, k)
      BY <1>6, <1>7, <2>3, CopiesFit
    <3> QED BY <1>9, <1>11, <2>3, <3>1
  <2>4. w \in ToSet(outs.table[k])
    BY <1>6
  <2> QED BY <1>8, <2>1, <2>2, <2>3, <2>4 DEF NewMatch
<1> QED BY <1>13 DEF EntriesMatch, AsConsumer, Fitting

LEMMA EntriesKept ==
  ASSUME GInv, EntriesMatch, NodesSame
  PROVE  EntriesMatch'
<1>1. workflow_links' = workflow_links /\ NodeIds' = NodeIds
  BY DEF NodesSame, NodeIds
<1>2. ASSUME NEW n \in NodeIds
      PROVE  /\ Node(n)'.l5_inports = Node(n).l5_inports
             /\ Node(n)'.l5_outports = Node(n).l5_outports
  <2>1. n + 1 \in DOMAIN nodes
    BY LenProperties DEF GInv, NodesRight, NodeIds
  <2> QED BY <2>1 DEF NodesSame, Node
<1> QED BY <1>1, <1>2 DEF EntriesMatch, AsConsumer, Fitting

(* In every description, ambiguous or not, of no more nodes than Sentinel  *)
(* stands for: a link of lists that divide each other joins two nodes with *)
(* ports that its key covers, unless a ? of the key meets the end of a     *)
(* name there.                                                             *)
THEOREM LinkedByMeaningCorrect == Spec => []LinkedByMeaning
<1> DEFINE EInv == LinksInv /\ EntriesMatch
<1>1. Init => EInv
  <2> SUFFICES ASSUME Init PROVE EntriesMatch
    BY LinksInvInit
  <2> QED BY DEF Init, ToSet, EntriesMatch
<1>2. EInv /\ [Next]_vars => EInv'
  <2> SUFFICES ASSUME EInv, [Next]_vars PROVE EntriesMatch'
    BY LinksInvNext
  <2>1. GInv
    BY DEF LinksInv
  <2> QED BY <2>1, NodesStepCases, EntriesStep, EntriesKept
<1>3. EInv => LinkedByMeaning
  <2> SUFFICES ASSUME EInv, phase = "done", Len(nodes) <= Sentinel,
                      NEW l \in ToSet(links), Even(l.key),
                      \A a \in Places : Results[<<l.key, PathAt(a)>>] # BOOLEAN
               PROVE  /\ \E p \in ToSet(Node(l.con).l5_inports) :
                           <<l.key, p.path>> \in Covers
                      /\ \E p \in ToSet(Node(l.prod).l5_outports) :
                           <<l.key, p.path>> \in Covers
    BY DEF LinkedByMeaning
  <2> DEFINE k == l.key
  <2>1. GInv /\ LinksRight
    BY DEF LinksInv
  <2>2. k \in Keys /\ k <= key /\ ~OneSided(k)
    BY <2>1 DEF LinksRight, ToSet
  <2>3. k \in Paths /\ KeyDone(k)
    BY <2>1, <2>2 DEF LinksRight, Keys
  <2>4. l.prod \in ToSet(Producers(k)) /\ l.con \in ToSet(Consumers(k))
    BY <2>1, <2>2, <2>3, LinksOfKey
  <2> HIDE DEF k
  <2>5. Len(nodes) \in Nat /\ Sentinel \in Nat \ {0} /\ NodeIds = 0 .. Len(nodes) - 1
    BY <2>1, LenProperties, YamlAssumption DEF GInv, NodesRight, NodeIds
  <2>6. l.prod \in NodeIds /\ l.con \in NodeIds
    BY <2>1 DEF GInv, LinkRight, ToSet
  <2>7. Fitting(Node(l.prod).l5_outports, k)
    <3>1. PICK v \in ToSet(workflow_links[k]) : v = -l.prod
      BY <2>1, <2>3, <2>4, EndsAreEntries
    <3>2. ~(v > 0)
      BY <2>5, <2>6, <3>1
    <3>3. PICK n \in NodeIds : v = -n /\ Fitting(Node(n).l5_outports, k)
      BY <2>3, <3>2 DEF EntriesMatch
    <3>4. n = l.prod
      BY <2>5, <2>6, <3>1, <3>3
    <3> QED BY <3>3, <3>4
  <2>8. Fitting(Node(l.con).l5_inports, k)
    <3>1. PICK v \in ToSet(workflow_links[k]) :
            v > 0 /\ l.con = IF v = Sentinel THEN 0 ELSE v
      BY <2>1, <2>3, <2>4, EndsAreEntries
    <3>2. ~\E n \in NodeIds : v = -n
      BY <2>5, <3>1
    <3>3. PICK n \in NodeIds :
            v = AsConsumer(n) /\ v > 0 /\ Fitting(Node(n).l5_inports, k)
      BY <2>3, <3>2 DEF EntriesMatch
    <3>4. n = l.con
      BY <2>5, <3>1, <3>3 DEF AsConsumer
    <3> QED BY <3>3, <3>4
  <2>9. ASSUME NEW n \in NodeIds, NEW ports, Fitting(ports, k),
               ports \in {Node(n).l5_inports, Node(n).l5_outports}
        PROVE  \E p \in ToSet(ports) : <<k, p.path>> \in Covers
    <3>1. PICK p \in ToSet(ports) : TRUE \in Results[<<k, p.path>>]
      BY <2>9 DEF Fitting
    <3>2. p.path \in Listed
      BY <2>1, <2>9, NodePaths DEF LinksInv
    <3>3. PICK a \in Places : p.path = PathAt(a)
      BY <3>2 DEF Listed
    <3>4. p.path \in Paths
      BY <2>1, <3>2, ListedType DEF GInv, PlaceRight
    <3>5. Results[<<k, p.path>>] # BOOLEAN
      BY <3>3 DEF k
    <3> QED BY <2>3, <3>1, <3>4, <3>5, Accepted
  <2> QED BY <2>6, <2>7, <2>8, <2>9 DEF k
<1> QED BY <1>1, <1>2, <1>3, PTL DEF Spec
=============================================================================
