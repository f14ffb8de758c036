--------------------------- MODULE Induction_proofs ---------------------------
(***************************************************************************)
(* Induction over numbers in the form the proofs of this project use: over *)
(* sets instead of predicates, and for loops and recursive functions of    *)
(* the code, whose values are those of a function defined by recursion;    *)
(* what the loop Taken of Lists takes, and what match of Glob decides.     *)
(***************************************************************************)
EXTENDS Integers, Lists, Glob, SequenceTheorems, WellFoundedInduction, TLAPS

(* A non-empty set of natural numbers has a smallest element.              *)
LEMMA LeastNumber ==
  ASSUME NEW S \in SUBSET Nat, S # {}
  PROVE  \E m \in S : \A n \in S : m <= n
<1>1. PICK m \in S : \A n \in S : <<n, m>> \notin OpToRel(<, Nat)
  BY NatLessThanWellFounded, WFMin
<1>2. \A n \in S : ~(n < m)
  BY <1>1 DEF OpToRel
<1>3. \A n \in S : n \in Nat /\ m \in Nat
  OBVIOUS
<1> QED BY <1>2, <1>3

(* A non-empty set of numbers up to n has a greatest element.              *)
LEMMA GreatestNumber ==
  ASSUME NEW n \in Nat, NEW S \in SUBSET (0 .. n), S # {}
  PROVE  \E m \in S : \A k \in S : k <= m
<1> DEFINE T == {n - k : k \in S}
<1>1. T \in SUBSET Nat /\ T # {}
  <2>1. \A k \in S : n - k \in Nat
    OBVIOUS
  <2> QED BY <2>1
<1> HIDE DEF T
<1>2. PICK d \in T : \A e \in T : d <= e
  BY <1>1, LeastNumber
<1>3. PICK m \in S : d = n - m
  BY DEF T
<1>4. ASSUME NEW k \in S PROVE k <= m
  <2>1. d <= n - k
    BY <1>2 DEF T
  <2>2. k \in 0 .. n /\ m \in 0 .. n
    OBVIOUS
  <2> QED BY <1>3, <2>1, <2>2
<1> QED BY <1>4

(* What holds at 0 and is carried from each number below n to the next     *)
(* holds up to n.                                                          *)
LEMMA UpTo ==
  ASSUME NEW n \in Nat, NEW S, 0 \in S,
         \A i \in 1 .. n : i - 1 \in S => i \in S
  PROVE  \A i \in 0 .. n : i \in S
<1> SUFFICES ASSUME NEW k \in 0 .. n, k \notin S PROVE FALSE
  OBVIOUS
<1> DEFINE bad == {i \in 0 .. n : i \notin S}
<1>1. PICK m \in bad : \A i \in bad : m <= i
  <2>1. bad \in SUBSET Nat /\ bad # {}
    OBVIOUS
  <2> QED BY <2>1, LeastNumber
<1>2. m \in 1 .. n /\ m - 1 \in 0 .. n
  OBVIOUS
<1>3. m - 1 \in S
  BY <1>1, <1>2
<1> QED BY <1>2, <1>3

(* A for loop over 1 .. n has a value after each of its rounds: the        *)
(* function that the recursion x[i] = G[i][x[i - 1]] defines exists.       *)
HasValues(n, X, start, G) ==
  \E x \in [0 .. n -> X] :
     x[0] = start /\ \A i \in 1 .. n : x[i] = G[i][x[i - 1]]

Until(X, start, G, m, x) ==
  /\ x \in [0 .. m -> X]
  /\ x[0] = start
  /\ \A i \in 1 .. m : x[i] = G[i][x[i - 1]]

LEMMA Loop ==
  ASSUME NEW n \in Nat,
         NEW X, NEW start \in X, NEW G \in [1 .. n -> [X -> X]]
  PROVE  HasValues(n, X, start, G)
<1> DEFINE S == {m \in 0 .. n : \E x \in [0 .. m -> X] : Until(X, start, G, m, x)}
<1>1. 0 \in S
  <2> DEFINE x == [i \in 0 .. 0 |-> start]
  <2>1. x \in [0 .. 0 -> X] /\ x[0] = start /\ 1 .. 0 = {}
    OBVIOUS
  <2> HIDE DEF x
  <2>2. Until(X, start, G, 0, x)
    BY <2>1 DEF Until
  <2> QED BY <2>1, <2>2
<1>2. ASSUME NEW m \in 1 .. n, m - 1 \in S PROVE m \in S
  <2>1. PICK x \in [0 .. m - 1 -> X] : Until(X, start, G, m - 1, x)
    BY <1>2
  <2> DEFINE y == [i \in 0 .. m |-> IF i = m THEN G[m][x[m - 1]] ELSE x[i]]
  <2>2. m - 1 \in 0 .. m - 1 /\ x[m - 1] \in X
    OBVIOUS
  <2>3. G[m][x[m - 1]] \in X
    BY <2>2
  <2>4. /\ y \in [0 .. m -> X]
        /\ \A i \in 0 .. m - 1 : y[i] = x[i]
        /\ y[m] = G[m][x[m - 1]]
    BY <2>3
  <2> HIDE DEF y
  <2>5. y[0] = start
    BY <2>1, <2>4 DEF Until
  <2>6. ASSUME NEW i \in 1 .. m PROVE y[i] = G[i][y[i - 1]]
    <3>1. i - 1 \in 0 .. m - 1 /\ y[i - 1] = x[i - 1]
      BY <2>4
    <3>2. CASE i = m
      BY <2>4, <3>1, <3>2
    <3>3. CASE i # m
      <4>1. i \in 1 .. m - 1 /\ i \in 0 .. m - 1
        BY <3>3
      <4>2. x[i] = G[i][x[i - 1]]
        BY <2>1, <4>1 DEF Until
      <4> QED BY <2>4, <3>1, <4>1, <4>2
    <3> QED BY <3>2, <3>3
  <2>7. Until(X, start, G, m, y)
    BY <2>4, <2>5, <2>6 DEF Until
  <2> QED BY <2>4, <2>7
<1>3. \A i \in 0 .. n : i \in S
  <2> HIDE DEF S
  <2> QED BY <1>1, <1>2, UpTo
<1>4. n \in 0 .. n
  OBVIOUS
<1>5. PICK x \in [0 .. n -> X] : Until(X, start, G, n, x)
  BY <1>3, <1>4
<1> QED BY <1>5 DEF Until, HasValues

-----------------------------------------------------------------------------
(* A sequence with one more element.                                       *)
LEMMA AppendDomain ==
  ASSUME NEW S, NEW s \in Seq(S), NEW e \in S
  PROVE  /\ \A i \in DOMAIN s : i \in DOMAIN Append(s, e) /\ Append(s, e)[i] = s[i]
         /\ \A i \in DOMAIN Append(s, e) :
               i \in DOMAIN s \/ Append(s, e)[i] = e
<1>1. /\ DOMAIN s = 1 .. Len(s) /\ Len(s) \in Nat
      /\ DOMAIN Append(s, e) = 1 .. Len(s) + 1
  BY AppendProperties, LenProperties
<1>2. /\ \A i \in 1 .. Len(s) : Append(s, e)[i] = s[i]
      /\ Append(s, e)[Len(s) + 1] = e
  BY AppendProperties
<1> QED BY <1>1, <1>2

(* One round of the loop of Taken.                                         *)
TakeNext(list, wanted, clashes, before, i) ==
  IF list[i] \in wanted /\ \A e \in ToSet(before) : <<e, list[i]>> \notin clashes
  THEN Append(before, list[i]) ELSE before

(* The loop has a value after each of its rounds.                          *)
TakesInRounds(S, list, wanted, clashes) ==
  \E taken \in [0 .. Len(list) -> Seq(S)] :
    /\ taken[0] = <<>>
    /\ \A i \in 1 .. Len(list) :
         taken[i] = TakeNext(list, wanted, clashes, taken[i - 1], i)
    /\ Taken(list, wanted, clashes) = taken[Len(list)]

(* The recursive function of Taken has the values its rounds compute.      *)
LEMMA TakenLoop ==
  ASSUME NEW S, NEW list \in Seq(S), NEW wanted, NEW clashes
  PROVE  TakesInRounds(S, list, wanted, clashes)
<1> DEFINE n == Len(list)
           G == [i \in 1 .. n |-> [before \in Seq(S) |->
                   TakeNext(list, wanted, clashes, before, i)]]
           Rounds(x) ==
             x = [i \in 0 .. n |->
                    IF i = 0 THEN <<>>
                    ELSE IF /\ list[i] \in wanted
                            /\ \A e \in ToSet(x[i - 1]) :
                                 <<e, list[i]>> \notin clashes
                         THEN Append(x[i - 1], list[i]) ELSE x[i - 1]]
<1>1. n \in Nat /\ \A i \in 1 .. n : list[i] \in S
  BY LenProperties, ElementOfSeq
<1>2. G \in [1 .. n -> [Seq(S) -> Seq(S)]]
  <2> SUFFICES ASSUME NEW i \in 1 .. n, NEW before \in Seq(S)
               PROVE  TakeNext(list, wanted, clashes, before, i) \in Seq(S)
    OBVIOUS
  <2>1. Append(before, list[i]) \in Seq(S)
    BY <1>1, AppendProperties
  <2> QED BY <2>1 DEF TakeNext
<1>3. <<>> \in Seq(S)
  OBVIOUS
<1>4. PICK x \in [0 .. n -> Seq(S)] :
             x[0] = <<>> /\ \A i \in 1 .. n : x[i] = G[i][x[i - 1]]
  <2> DEFINE X == Seq(S)
             start == <<>>
  <2>1. n \in Nat /\ start \in X /\ G \in [1 .. n -> [X -> X]]
    BY <1>1, <1>2, <1>3
  <2> HIDE DEF n, G, X, start
  <2>2. HasValues(n, X, start, G)
    BY <2>1, Loop
  <2> QED BY <2>2 DEF HasValues, X, start
<1>5. /\ x[0] = <<>>
      /\ \A i \in 1 .. n : x[i] = TakeNext(list, wanted, clashes, x[i - 1], i)
  <2>1. 0 \in 0 .. n
    BY <1>1
  <2>2. ASSUME NEW i \in 1 .. n PROVE G[i][x[i - 1]] = x[i]
    BY <1>4, <1>1
  <2>3. ASSUME NEW i \in 1 .. n
        PROVE  G[i][x[i - 1]] = TakeNext(list, wanted, clashes, x[i - 1], i)
    <3>1. x[i - 1] \in Seq(S)
      BY <1>1
    <3> QED BY <3>1
  <2> QED BY <1>4, <2>1, <2>2, <2>3
<1>6. Rounds(x)
  <2>1. \A i \in 0 .. n : i # 0 => i \in 1 .. n
    BY <1>1
  <2>2. \A i \in 0 .. n :
          x[i] = IF i = 0 THEN <<>>
                 ELSE IF /\ list[i] \in wanted
                         /\ \A e \in ToSet(x[i - 1]) :
                              <<e, list[i]>> \notin clashes
                      THEN Append(x[i - 1], list[i]) ELSE x[i - 1]
    BY <1>5, <2>1 DEF TakeNext
  <2> HIDE DEF n
  <2> QED BY <2>2
<1> DEFINE y == CHOOSE y : Rounds(y)
<1>7. Rounds(y)
  <2> HIDE DEF Rounds
  <2> QED BY <1>6
<1>8. Taken(list, wanted, clashes) = y[n]
  BY DEF Taken
<1>9. /\ DOMAIN y = 0 .. n
      /\ y[0] = <<>>
      /\ \A i \in 1 .. n : y[i] = TakeNext(list, wanted, clashes, y[i - 1], i)
  <2> HIDE DEF y
  <2>1. \A i \in 1 .. n : i \in 0 .. n /\ i # 0
    BY <1>1
  <2>2. 0 \in 0 .. n
    BY <1>1
  <2> HIDE DEF n
  <2>3. /\ DOMAIN y = 0 .. n
        /\ \A i \in 0 .. n : 
             y[i] = IF i = 0 THEN <<>>
                    ELSE IF /\ list[i] \in wanted
                            /\ \A e \in ToSet(y[i - 1]) :
                                 <<e, list[i]>> \notin clashes
                         THEN Append(y[i - 1], list[i]) ELSE y[i - 1]
    BY <1>7
  <2> QED BY <2>1, <2>2, <2>3 DEF TakeNext
<1> HIDE DEF y
<1>10. \A i \in 0 .. n : i \in {k \in 0 .. n : y[k] \in Seq(S)}
  <2> DEFINE Z == {k \in 0 .. n : y[k] \in Seq(S)}
  <2>1. 0 \in Z
    <3>1. 0 \in 0 .. n /\ y[0] \in Seq(S)
      BY <1>1, <1>3, <1>9
    <3> QED BY <3>1
  <2>2. ASSUME NEW i \in 1 .. n, i - 1 \in Z PROVE i \in Z
    <3>1. y[i - 1] \in Seq(S)
      BY <2>2
    <3>2. Append(y[i - 1], list[i]) \in Seq(S)
      BY <1>1, <3>1, AppendProperties
    <3>3. y[i] \in Seq(S)
      BY <1>9, <3>1, <3>2 DEF TakeNext
    <3> QED BY <1>1, <3>3
  <2> HIDE DEF Z
  <2>3. \A i \in 0 .. n : i \in Z
    BY <1>1, <2>1, <2>2, UpTo
  <2> QED BY <2>3 DEF Z
<1>11. y \in [0 .. n -> Seq(S)]
  <2>1. y = [i \in 0 .. n |-> y[i]]
    <3> HIDE DEF n
    <3> QED BY <1>7
  <2> QED BY <1>10, <2>1
<1> QED BY <1>8, <1>9, <1>11 DEF TakesInRounds

(* What the loop takes is wanted, free of clashes, and everything else that *)
(* was wanted clashes with something it has taken.                         *)
TakesRight(list, wanted, clashes, res) ==
  /\ \A e \in ToSet(res) : e \in wanted /\ e \in ToSet(list)
  /\ \A a, b \in DOMAIN res : a < b => <<res[a], res[b]>> \notin clashes
  /\ \A e \in ToSet(list) :
        e \in wanted => \/ e \in ToSet(res)
                        \/ \E d \in ToSet(res) : <<d, e>> \in clashes

(* By induction over the rounds.                                           *)
LEMMA TakenProperties ==
  ASSUME NEW S, NEW list \in Seq(S), NEW wanted, NEW clashes
  PROVE  /\ Taken(list, wanted, clashes) \in Seq(S)
         /\ TakesRight(list, wanted, clashes, Taken(list, wanted, clashes))
<1> DEFINE n == Len(list)
           Facts(res, i) ==
             /\ \A e \in ToSet(res) : e \in wanted /\ e \in ToSet(list)
             /\ \A a, b \in DOMAIN res :
                   a < b => <<res[a], res[b]>> \notin clashes
             /\ \A k \in 1 .. i :
                   list[k] \in wanted =>
                     \/ list[k] \in ToSet(res)
                     \/ \E d \in ToSet(res) : <<d, list[k]>> \in clashes
<1>1. PICK x \in [0 .. n -> Seq(S)] :
           /\ x[0] = <<>>
           /\ \A i \in 1 .. n :
                x[i] = TakeNext(list, wanted, clashes, x[i - 1], i)
           /\ Taken(list, wanted, clashes) = x[n]
  <2>1. TakesInRounds(S, list, wanted, clashes)
    BY TakenLoop
  <2> QED BY <2>1 DEF TakesInRounds
<1>2. n \in Nat /\ DOMAIN list = 1 .. n /\ \A i \in 1 .. n : list[i] \in S
  BY LenProperties, ElementOfSeq
<1> HIDE DEF n
<1>3. \A i \in 0 .. n : i \in {k \in 0 .. n : Facts(x[k], k)}
  <2> DEFINE Z == {k \in 0 .. n : Facts(x[k], k)}
  <2>1. 0 \in Z
    <3>1. 0 \in 0 .. n /\ DOMAIN x[0] = {} /\ ToSet(x[0]) = {}
      BY <1>1, <1>2 DEF ToSet
    <3> QED BY <3>1
  <2>2. ASSUME NEW i \in 1 .. n, i - 1 \in Z PROVE i \in Z
    <3>1. i - 1 \in 0 .. n /\ i \in 0 .. n /\ x[i - 1] \in Seq(S)
      BY <1>2
    <3>2. Facts(x[i - 1], i - 1)
      BY <2>2
    <3>3. \A k \in 1 .. i : k = i \/ k \in 1 .. i - 1
      BY <1>2
    <3> DEFINE before == x[i - 1]
               fits == \A e \in ToSet(before) : <<e, list[i]>> \notin clashes
    <3>4. CASE list[i] \in wanted /\ fits
      <4>1. x[i] = Append(before, list[i])
        BY <1>1, <3>4 DEF TakeNext
      <4>2. /\ \A a \in DOMAIN before : /\ a \in DOMAIN x[i]
                                       /\ x[i][a] = before[a]
            /\ DOMAIN before = 1 .. Len(before) /\ Len(before) \in Nat
            /\ DOMAIN x[i] = 1 .. Len(before) + 1
            /\ x[i][Len(before) + 1] = list[i]
        BY <1>2, <3>1, <4>1, AppendProperties, AppendDomain, LenProperties
      <4>3. ToSet(x[i]) = ToSet(before) \cup {list[i]}
        <5>1. ASSUME NEW e \in ToSet(x[i])
              PROVE  e \in ToSet(before) \cup {list[i]}
          <6>1. PICK a \in DOMAIN x[i] : e = x[i][a]
            BY DEF ToSet
          <6>2. a \in DOMAIN before \/ a = Len(before) + 1
            BY <4>2
          <6> QED BY <4>2, <6>1, <6>2 DEF ToSet
        <5>2. ASSUME NEW e \in ToSet(before) PROVE e \in ToSet(x[i])
          BY <4>2 DEF ToSet
        <5>3. list[i] \in ToSet(x[i])
          <6>1. Len(before) + 1 \in DOMAIN x[i]
            BY <4>2
          <6> QED BY <4>2, <6>1 DEF ToSet
        <5> QED BY <5>1, <5>2, <5>3
      <4>4. list[i] \in ToSet(list)
        BY <1>2 DEF ToSet
      <4>5. \A e \in ToSet(x[i]) : e \in wanted /\ e \in ToSet(list)
        BY <3>2, <3>4, <4>3, <4>4
      <4>6. ASSUME NEW a \in DOMAIN x[i], NEW b \in DOMAIN x[i], a < b
            PROVE  <<x[i][a], x[i][b]>> \notin clashes
        <5>1. a \in DOMAIN before /\ x[i][a] \in ToSet(before)
          BY <4>2, <4>6 DEF ToSet
        <5>2. CASE b = Len(before) + 1
          BY <3>4, <4>2, <5>1, <5>2
        <5>3. CASE b # Len(before) + 1
          <6>1. b \in DOMAIN before
            BY <4>2, <5>3
          <6> QED BY <3>2, <4>2, <4>6, <5>1, <6>1
        <5> QED BY <5>2, <5>3
      <4>7. ASSUME NEW k \in 1 .. i, list[k] \in wanted
            PROVE  \/ list[k] \in ToSet(x[i])
                   \/ \E d \in ToSet(x[i]) : <<d, list[k]>> \in clashes
        BY <3>2, <3>3, <4>3, <4>7
      <4> QED BY <3>1, <4>5, <4>6, <4>7
    <3>5. CASE ~(list[i] \in wanted /\ fits)
      <4>1. x[i] = before
        BY <1>1, <3>5 DEF TakeNext
      <4>2. ASSUME NEW k \in 1 .. i, list[k] \in wanted
            PROVE  \/ list[k] \in ToSet(x[i])
                   \/ \E d \in ToSet(x[i]) : <<d, list[k]>> \in clashes
        BY <3>2, <3>3, <3>5, <4>1, <4>2
      <4> QED BY <3>1, <3>2, <4>1, <4>2
    <3> QED BY <3>4, <3>5
  <2> HIDE DEF Z
  <2>3. \A i \in 0 .. n : i \in Z
    BY <1>2, <2>1, <2>2, UpTo
  <2> QED BY <2>3 DEF Z
<1>4. Facts(x[n], n) /\ x[n] \in Seq(S)
  <2>1. n \in 0 .. n
    BY <1>2
  <2>2. x[n] \in Seq(S)
    BY <2>1
  <2>3. n \in {k \in 0 .. n : Facts(x[k], k)}
    BY <1>3, <2>1
  <2> QED BY <2>2, <2>3
<1>5. \A e \in ToSet(list) : \E k \in 1 .. n : e = list[k]
  BY <1>2 DEF ToSet
<1> QED BY <1>1, <1>4, <1>5 DEF TakesRight

-----------------------------------------------------------------------------
(* A function that is defined by recursion exists if its value at d only   *)
(* depends on those at arguments of a lower rank.                          *)
HasFixpoint(D, X, G) == \E x \in [D -> X] : \A d \in D : x[d] = G[d][x]

LEMMA RankedRecursion ==
  ASSUME NEW D, NEW X, NEW x0 \in X, NEW K \in Nat, NEW rank \in [D -> 0 .. K],
         NEW G \in [D -> [[D -> X] -> X]],
         \A d \in D : \A x, y \in [D -> X] :
           (\A e \in D : rank[e] < rank[d] => x[e] = y[e]) => G[d][x] = G[d][y]
  PROVE  HasFixpoint(D, X, G)
<1> DEFINE n == K + 1
           F == [D -> X]
           start == [d \in D |-> x0]
           H == [i \in 1 .. n |-> [x \in F |-> [d \in D |-> G[d][x]]]]
<1>1. n \in Nat /\ start \in F
  OBVIOUS
<1>2. H \in [1 .. n -> [F -> F]]
  OBVIOUS
<1>3. PICK y \in [0 .. n -> F] :
        y[0] = start /\ \A i \in 1 .. n : y[i] = H[i][y[i - 1]]
  <2> HIDE DEF n, F, start, H
  <2>1. HasValues(n, F, start, H)
    BY <1>1, <1>2, Loop
  <2> QED BY <2>1 DEF HasValues
<1>4. ASSUME NEW i \in 1 .. n, NEW d \in D
      PROVE  y[i][d] = G[d][y[i - 1]] /\ y[i - 1] \in F /\ y[i] \in F
  <2>1. i - 1 \in 0 .. n /\ i \in 0 .. n
    OBVIOUS
  <2>2. y[i - 1] \in F /\ y[i] \in F
    BY <2>1
  <2>3. y[i] = H[i][y[i - 1]]
    BY <1>3
  <2>4. H[i][y[i - 1]] = [e \in D |-> G[e][y[i - 1]]]
    BY <2>2
  <2> HIDE DEF H, F
  <2> QED BY <2>2, <2>3, <2>4
<1> HIDE DEF H, F, start
<1> DEFINE S == {i \in 0 .. n : \A d \in D : rank[d] < i => G[d][y[i]] = y[i][d]}
<1>5. 0 \in S
  <2>1. \A d \in D : rank[d] \in 0 .. K
    OBVIOUS
  <2> QED BY <1>1, <2>1
<1>6. ASSUME NEW i \in 1 .. n, i - 1 \in S PROVE i \in S
  <2> SUFFICES ASSUME NEW d \in D, rank[d] < i PROVE G[d][y[i]] = y[i][d]
    BY <1>1
  <2>1. ASSUME NEW e \in D, rank[e] < rank[d] PROVE y[i][e] = y[i - 1][e]
    <3>1. rank[e] \in 0 .. K /\ rank[d] \in 0 .. K
      OBVIOUS
    <3>2. rank[e] < i - 1
      BY <2>1, <3>1
    <3>3. G[e][y[i - 1]] = y[i - 1][e]
      BY <1>6, <3>2
    <3> QED BY <1>4, <3>3
  <2>2. y[i] \in [D -> X] /\ y[i - 1] \in [D -> X]
    BY <1>4 DEF F
  <2>3. G[d][y[i]] = G[d][y[i - 1]]
    BY <2>1, <2>2
  <2> QED BY <1>4, <2>3
<1>7. n \in S
  <2> HIDE DEF S
  <2>1. \A i \in 0 .. n : i \in S
    BY <1>1, <1>5, <1>6, UpTo
  <2> QED BY <1>1, <2>1
<1>8. \A d \in D : G[d][y[n]] = y[n][d]
  <2>1. \A d \in D : rank[d] < n
    OBVIOUS
  <2> QED BY <1>7, <2>1
<1>9. y[n] \in [D -> X]
  BY <1>1 DEF F
<1> QED BY <1>8, <1>9 DEF HasFixpoint

-----------------------------------------------------------------------------
(* match of Glob.                                                          *)

Answers == {{TRUE}, {FALSE}, BOOLEAN}

LEMMA OrType ==
  ASSUME NEW A \in Answers, NEW B \in Answers
  PROVE  /\ Or(A, B) \in Answers
         /\ Or(A, B) = {TRUE} <=> A = {TRUE} \/ B = {TRUE}
         /\ Or(A, B) = {FALSE} <=> A = {FALSE} /\ B = {FALSE}
<1>1. BOOLEAN = {TRUE, FALSE} /\ TRUE # FALSE
  OBVIOUS
<1>2. TRUE \notin {FALSE} /\ FALSE \notin {TRUE}
  OBVIOUS
<1>3. {TRUE} # {FALSE} /\ {TRUE} # BOOLEAN /\ {FALSE} # BOOLEAN
  BY <1>1, <1>2
<1>4. CASE A = {TRUE} \/ B = {TRUE}
  BY <1>3, <1>4 DEF Or, Answers
<1>5. CASE A = {FALSE} /\ B = {FALSE}
  BY <1>3, <1>5 DEF Or, Answers
<1>6. CASE A = BOOLEAN /\ B = {FALSE}
  <2>1. A \cup B = BOOLEAN
    BY <1>6
  <2> QED BY <2>1, <1>3, <1>6 DEF Or, Answers
<1>7. CASE A \in {{FALSE}, BOOLEAN} /\ B = BOOLEAN
  <2>1. A \cup B = BOOLEAN
    BY <1>7
  <2> QED BY <2>1, <1>3, <1>7 DEF Or, Answers
<1> QED BY <1>4, <1>5, <1>6, <1>7 DEF Answers

(* One call of match, when i and j characters are behind.                  *)
MatchRest(first, second, rest, i, j) ==
  LET ended == j = Len(second) IN
  IF i = Len(first) THEN {BothEnded(ended)}
  ELSE IF Stuck(first, i + 1, ended) THEN {FALSE}
  ELSE IF first[i + 1] = "?" /\ ended THEN BOOLEAN
  ELSE IF first[i + 1] = "?" \/ (~ended /\ first[i + 1] = second[j + 1])
       THEN rest[<<i + 1, j + 1>>]
  ELSE IF first[i + 1] # "*" THEN {FALSE}
  ELSE IF ended THEN {TRUE}
  ELSE Or(rest[<<i + 1, j>>], rest[<<i, j + 1>>])

(* The calls of match.                                                     *)
MatchInCalls(first, second, rest) ==
  /\ \A i \in 0 .. Len(first), j \in 0 .. Len(second) :
       rest[<<i, j>>] = MatchRest(first, second, rest, i, j)
  /\ match(first, second) = rest[<<0, 0>>]

HasCalls(first, second) == \E rest : MatchInCalls(first, second, rest)

(* What they may return.                                                   *)
LEMMA MatchRestType ==
  ASSUME NEW first \in Seq(STRING), NEW second \in Seq(STRING),
         NEW x \in [(0 .. Len(first)) \X (0 .. Len(second)) -> Answers],
         NEW i \in 0 .. Len(first), NEW j \in 0 .. Len(second)
  PROVE  MatchRest(first, second, x, i, j) \in Answers
<1> DEFINE m == Len(first)
           n == Len(second)
<1>0. m \in Nat /\ n \in Nat
  OBVIOUS
<1>1. i # m => <<i + 1, j>> \in (0 .. m) \X (0 .. n)
  OBVIOUS
<1>2. j # n => <<i, j + 1>> \in (0 .. m) \X (0 .. n)
  OBVIOUS
<1>3. i # m /\ j # n => <<i + 1, j + 1>> \in (0 .. m) \X (0 .. n)
  OBVIOUS
<1>4. /\ i # m => x[<<i + 1, j>>] \in Answers
      /\ j # n => x[<<i, j + 1>>] \in Answers
      /\ i # m /\ j # n => x[<<i + 1, j + 1>>] \in Answers
  BY <1>1, <1>2, <1>3
<1>5. i # m /\ j # n =>
        Or(x[<<i + 1, j>>], x[<<i, j + 1>>]) \in Answers
  BY <1>4, OrType
<1>6. {j = n} \in Answers
  <2>1. (j = n) \in {TRUE, FALSE}
    OBVIOUS
  <2>2. CASE j = n
    <3>1. (j = n) = TRUE
      BY <2>2
    <3> QED BY <3>1 DEF Answers
  <2>3. CASE j # n
    <3>1. (j = n) = FALSE
      BY <2>3
    <3> QED BY <3>1 DEF Answers
  <2> QED BY <2>2, <2>3
<1>7. {TRUE} \in Answers /\ {FALSE} \in Answers /\ BOOLEAN \in Answers
  BY DEF Answers
<1> HIDE DEF m, n
<1>8. CASE i = m
  BY <1>6, <1>8 DEF MatchRest, BothEnded, m, n
<1>9. CASE i # m /\ j = n
  BY <1>7, <1>9 DEF MatchRest, BothEnded, m, n
<1>10. CASE i # m /\ j # n
  BY <1>4, <1>5, <1>7, <1>10 DEF MatchRest, BothEnded, m, n
<1> QED BY <1>8, <1>9, <1>10

(* match makes these calls, each only on what is later.                    *)
LEMMA MatchCalls ==
  ASSUME NEW first \in Seq(STRING), NEW second \in Seq(STRING)
  PROVE  HasCalls(first, second)
<1> DEFINE m == Len(first)
           n == Len(second)
           D == (0 .. m) \X (0 .. n)
           Calls(x) ==
             x = [p \in (0 .. Len(first)) \X (0 .. Len(second)) |->
        LET i == p[1] + 1
            j == p[2] + 1
            ended == p[2] = Len(second)
        IN  IF p[1] = Len(first) THEN {BothEnded(ended)}
            ELSE IF Stuck(first, i, ended) THEN {FALSE}
            ELSE IF first[i] = "?" /\ ended THEN BOOLEAN
            ELSE IF first[i] = "?" \/ (~ended /\ first[i] = second[j])
                 THEN x[<<i, j>>]
            ELSE IF first[i] # "*" THEN {FALSE}
            ELSE IF ended THEN {TRUE}
            ELSE Or(x[<<i, p[2]>>], x[<<p[1], j>>])]
           y == CHOOSE x : Calls(x)
<1>0. m \in Nat /\ n \in Nat
  OBVIOUS
<1>1. match(first, second) = y[<<0, 0>>]
  BY DEF match
<1>2. PICK z \in [D -> Answers] :
        \A p \in D : z[p] = MatchRest(first, second, z, p[1], p[2])
  <2> DEFINE X == Answers
             K == m + n
             rank == [p \in D |-> (m - p[1]) + (n - p[2])]
             G == [p \in D |-> [x \in [D -> X] |->
                     MatchRest(first, second, x, p[1], p[2])]]
  <2>1. K \in Nat /\ {TRUE} \in X
    BY DEF Answers
  <2>2. rank \in [D -> 0 .. K]
    <3> SUFFICES ASSUME NEW p \in D PROVE (m - p[1]) + (n - p[2]) \in 0 .. K
      OBVIOUS
    <3>1. p[1] \in 0 .. m /\ p[2] \in 0 .. n
      OBVIOUS
    <3> HIDE DEF m, n
    <3> QED BY <1>0, <3>1
  <2>3. G \in [D -> [[D -> X] -> X]]
    <3> SUFFICES ASSUME NEW p \in D, NEW x \in [D -> X]
                 PROVE  MatchRest(first, second, x, p[1], p[2]) \in X
      OBVIOUS
    <3>1. p[1] \in 0 .. m /\ p[2] \in 0 .. n
      OBVIOUS
    <3> QED BY <3>1, MatchRestType
  <2>4. ASSUME NEW p \in D, NEW x \in [D -> X], NEW w \in [D -> X],
               \A e \in D : rank[e] < rank[p] => x[e] = w[e]
        PROVE  G[p][x] = G[p][w]
    <3> DEFINE i == p[1]
               j == p[2]
    <3>1. i \in 0 .. m /\ j \in 0 .. n /\ p = <<i, j>>
      OBVIOUS
    <3>2. ASSUME NEW a \in 0 .. m, NEW b \in 0 .. n, a + b > i + j
          PROVE  x[<<a, b>>] = w[<<a, b>>]
      <4>1. <<a, b>> \in D /\ rank[<<a, b>>] = (m - a) + (n - b)
        OBVIOUS
      <4>2. rank[p] = (m - i) + (n - j)
        OBVIOUS
      <4> HIDE DEF D, rank, m, n, i, j
      <4>3. rank[<<a, b>>] < rank[p]
        BY <1>0, <3>1, <3>2, <4>1, <4>2
      <4> QED BY <2>4, <4>1, <4>3
    <3>3. /\ i # m => x[<<i + 1, j>>] = w[<<i + 1, j>>]
          /\ j # n => x[<<i, j + 1>>] = w[<<i, j + 1>>]
          /\ i # m /\ j # n => x[<<i + 1, j + 1>>] = w[<<i + 1, j + 1>>]
      <4> HIDE DEF D, rank, m, n, i, j
      <4>1. i # m => i + 1 \in 0 .. m /\ i + 1 + j > i + j
        BY <1>0, <3>1
      <4>2. j # n => j + 1 \in 0 .. n /\ i + (j + 1) > i + j
        BY <1>0, <3>1
      <4>3. i # m /\ j # n => i + 1 + (j + 1) > i + j
        BY <1>0, <3>1
      <4> QED BY <3>1, <3>2, <4>1, <4>2, <4>3
    <3>4. MatchRest(first, second, x, i, j) = MatchRest(first, second, w, i, j)
      <4>1. i \in 0 .. Len(first) /\ j \in 0 .. Len(second)
        BY <3>1
      <4>2. /\ i # Len(first) => x[<<i + 1, j>>] = w[<<i + 1, j>>]
            /\ j # Len(second) => x[<<i, j + 1>>] = w[<<i, j + 1>>]
            /\ i # Len(first) /\ j # Len(second) =>
                 x[<<i + 1, j + 1>>] = w[<<i + 1, j + 1>>]
        BY <3>3
      <4> HIDE DEF i, j, D, rank, G, X, K
      <4> QED BY <4>1, <4>2 DEF MatchRest, BothEnded
    <3> QED BY <3>4
  <2> HIDE DEF D, X, K, rank, G
  <2>5. HasFixpoint(D, X, G)
    <3> DEFINE x0 == {TRUE}
    <3>1. x0 \in X
      BY <2>1
    <3> HIDE DEF x0
    <3> QED BY <2>1, <2>2, <2>3, <2>4, <3>1, RankedRecursion
  <2>6. PICK z \in [D -> X] : \A p \in D : z[p] = G[p][z]
    BY <2>5 DEF HasFixpoint
  <2>7. \A p \in D : G[p][z] = MatchRest(first, second, z, p[1], p[2])
    BY <2>6 DEF G
  <2> QED BY <2>6, <2>7 DEF X
<1>3. Calls(z)
  <2> USE DEF MatchRest
  <2>1. z = [p \in D |-> z[p]]
    BY <1>2
  <2>2. z = [p \in D |-> MatchRest(first, second, z, p[1], p[2])]
    BY <1>2
  <2> QED BY <2>2
<1>4. Calls(y)
  <2> HIDE DEF Calls
  <2> QED BY <1>3
<1>5. ASSUME NEW i \in 0 .. m, NEW j \in 0 .. n
      PROVE  y[<<i, j>>] = MatchRest(first, second, y, i, j)
  <2>1. y = [p \in D |-> MatchRest(first, second, y, p[1], p[2])]
    <3> HIDE DEF y
    <3> QED BY <1>4 DEF MatchRest, BothEnded
  <2> HIDE DEF y, Calls
  <2>2. <<i, j>> \in D
    OBVIOUS
  <2> QED BY <2>1, <2>2
<1> HIDE DEF y
<1> QED BY <1>1, <1>5 DEF HasCalls, MatchInCalls

-----------------------------------------------------------------------------
(* What a pattern means.                                                   *)

(* The characters i + 1 to e of the pattern fit what follows the first j   *)
(* characters of the text.                                                 *)
Cuts(p, t, e, i, j, cut) ==
  /\ cut \in [i .. e -> 0 .. Len(t)]
  /\ cut[i] = j /\ cut[e] = Len(t)
  /\ \A k \in i + 1 .. e : Piece(p, t, k, cut[k - 1], cut[k])

FitsRest(p, t, e, i, j) ==
  \E cut \in [i .. e -> 0 .. Len(t)] : Cuts(p, t, e, i, j, cut)

LEMMA FitsEnd ==
  ASSUME NEW p, NEW t \in Seq(STRING), NEW e \in Nat, NEW j \in 0 .. Len(t)
  PROVE  FitsRest(p, t, e, e, j) <=> j = Len(t)
<1>1. e \in e .. e /\ e + 1 .. e = {}
  OBVIOUS
<1>2. ASSUME j = Len(t) PROVE FitsRest(p, t, e, e, j)
  <2> DEFINE cut == [k \in e .. e |-> j]
  <2>1. cut \in [e .. e -> 0 .. Len(t)] /\ cut[e] = j
    BY <1>1
  <2> HIDE DEF cut
  <2>2. Cuts(p, t, e, e, j, cut)
    BY <1>1, <1>2, <2>1 DEF Cuts
  <2> QED BY <2>1, <2>2 DEF FitsRest
<1> QED BY <1>2 DEF FitsRest, Cuts

LEMMA FitsNext ==
  ASSUME NEW p, NEW t \in Seq(STRING), NEW e \in Nat, NEW i \in 0 .. e, i # e,
         NEW j \in 0 .. Len(t)
  PROVE  FitsRest(p, t, e, i, j) <=>
           \E b \in 0 .. Len(t) : /\ Piece(p, t, i + 1, j, b)
                                 /\ FitsRest(p, t, e, i + 1, b)
<1>0. /\ i + 1 \in i .. e /\ i \in i .. e /\ e \in i .. e /\ i + 1 - 1 = i
      /\ i + 1 \in i + 1 .. e /\ e \in i + 1 .. e
      /\ \A k \in i + 1 .. e : k \in i .. e /\ k - 1 \in i .. e
      /\ \A k \in i + 1 + 1 .. e : /\ k \in i + 1 .. e /\ k - 1 \in i + 1 .. e
                                  /\ k # i + 1
      /\ \A k \in i + 1 .. e : k = i + 1 \/ k \in i + 1 + 1 .. e
      /\ \A k \in i + 1 .. e : k # i
      /\ \A k \in i .. e : k = i \/ k \in i + 1 .. e
  OBVIOUS
<1>1. ASSUME NEW cut, Cuts(p, t, e, i, j, cut)
      PROVE  \E b \in 0 .. Len(t) : /\ Piece(p, t, i + 1, j, b)
                                   /\ FitsRest(p, t, e, i + 1, b)
  <2> DEFINE b == cut[i + 1]
             rest == [k \in i + 1 .. e |-> cut[k]]
  <2>1. b \in 0 .. Len(t) /\ Piece(p, t, i + 1, j, b)
    BY <1>0, <1>1 DEF Cuts
  <2>2. rest \in [i + 1 .. e -> 0 .. Len(t)]
    BY <1>0, <1>1 DEF Cuts
  <2>3. \A k \in i + 1 .. e : rest[k] = cut[k]
    OBVIOUS
  <2> HIDE DEF rest
  <2>4. Cuts(p, t, e, i + 1, b, rest)
    BY <1>0, <1>1, <2>2, <2>3 DEF Cuts
  <2> QED BY <2>1, <2>2, <2>4 DEF FitsRest
<1>2. ASSUME NEW b \in 0 .. Len(t), Piece(p, t, i + 1, j, b),
             NEW rest, Cuts(p, t, e, i + 1, b, rest)
      PROVE  FitsRest(p, t, e, i, j)
  <2> DEFINE cut == [k \in i .. e |-> IF k = i THEN j ELSE rest[k]]
  <2>1. cut \in [i .. e -> 0 .. Len(t)]
    BY <1>0, <1>2 DEF Cuts
  <2>2. cut[i] = j /\ \A k \in i + 1 .. e : cut[k] = rest[k]
    BY <1>0
  <2> HIDE DEF cut
  <2>3. ASSUME NEW k \in i + 1 .. e PROVE Piece(p, t, k, cut[k - 1], cut[k])
    <3>1. CASE k = i + 1
      BY <1>0, <1>2, <2>2, <3>1 DEF Cuts
    <3>2. CASE k \in i + 1 + 1 .. e
      <4>1. Piece(p, t, k, rest[k - 1], rest[k])
        BY <1>2, <3>2 DEF Cuts
      <4> QED BY <1>0, <2>2, <3>2, <4>1
    <3> QED BY <1>0, <3>1, <3>2
  <2>4. Cuts(p, t, e, i, j, cut)
    BY <1>0, <1>2, <2>1, <2>2, <2>3 DEF Cuts
  <2> QED BY <2>1, <2>4 DEF FitsRest
<1> QED BY <1>1, <1>2 DEF FitsRest

(* Where the pieces may end, one piece after the other.                    *)
EndsAfter(p, t, i, A) ==
  UNION {{b \in 0 .. Len(t) : Piece(p, t, i, a, b)} : a \in A}

LEMMA EndsAfterHas ==
  ASSUME NEW p, NEW t, NEW i, NEW A
  PROVE  \A b : b \in EndsAfter(p, t, i, A) <=>
           b \in 0 .. Len(t) /\ \E a \in A : Piece(p, t, i, a, b)
<1> DEFINE From(a) == {b \in 0 .. Len(t) : Piece(p, t, i, a, b)}
<1>1. \A a, b : b \in From(a) <=> b \in 0 .. Len(t) /\ Piece(p, t, i, a, b)
  OBVIOUS
<1> HIDE DEF From
<1>2. \A b : b \in UNION {From(a) : a \in A} <=> \E a \in A : b \in From(a)
  OBVIOUS
<1>3. EndsAfter(p, t, i, A) = UNION {From(a) : a \in A}
  BY DEF EndsAfter, From
<1> QED BY <1>1, <1>2, <1>3

HasEnds(p, t) ==
  \E y \in [0 .. Len(p) -> SUBSET (0 .. Len(t))] :
    /\ y[0] = {0}
    /\ \A i \in 1 .. Len(p) : y[i] = EndsAfter(p, t, i, y[i - 1])
    /\ PieceEnds(p, t)[Len(p)] = y[Len(p)]

LEMMA PieceEndsRounds ==
  ASSUME NEW p \in Seq(STRING), NEW t \in Seq(STRING)
  PROVE  HasEnds(p, t)
<1> DEFINE n == Len(p)
           X == SUBSET (0 .. Len(t))
           G == [i \in 1 .. n |-> [A \in X |-> EndsAfter(p, t, i, A)]]
           Rounds(x) ==
             x = [i \in 0 .. Len(p) |->
        IF i = 0 THEN {0}
        ELSE UNION {{b \in 0 .. Len(t) : Piece(p, t, i, a, b)} :
                      a \in x[i - 1]}]
           y == CHOOSE x : Rounds(x)
<1>1. n \in Nat /\ Len(t) \in Nat /\ {0} \in X
  BY LenProperties
<1>2. PieceEnds(p, t) = y
  BY DEF PieceEnds
<1>3. \A i \in 1 .. n : \A A \in X : EndsAfter(p, t, i, A) \in X
  BY DEF EndsAfter
<1>4. G \in [1 .. n -> [X -> X]]
  BY <1>3
<1>5. PICK x \in [0 .. n -> X] :
             x[0] = {0} /\ \A i \in 1 .. n : x[i] = G[i][x[i - 1]]
  <2> HIDE DEF n, G, X
  <2>1. HasValues(n, X, {0}, G)
    BY <1>1, <1>4, Loop
  <2> QED BY <2>1 DEF HasValues
<1>6. Rounds(x)
  <2>1. ASSUME NEW i \in 0 .. n
        PROVE  x[i] = IF i = 0 THEN {0} ELSE EndsAfter(p, t, i, x[i - 1])
    <3>1. CASE i = 0
      BY <1>5, <3>1
    <3>2. CASE i # 0
      <4>1. i \in 1 .. n /\ i - 1 \in 0 .. n
        BY <1>1, <3>2
      <4>2. x[i] = G[i][x[i - 1]] /\ x[i - 1] \in X
        BY <1>5, <4>1
      <4> QED BY <3>2, <4>1, <4>2
    <3> QED BY <3>1, <3>2
  <2>2. x = [i \in 0 .. n |-> IF i = 0 THEN {0} ELSE EndsAfter(p, t, i, x[i - 1])]
    <3> HIDE DEF n, X
    <3> QED BY <2>1
  <2> QED BY <2>2 DEF EndsAfter
<1>7. Rounds(y)
  <2> HIDE DEF Rounds
  <2> QED BY <1>6
<1> HIDE DEF y
<1>8. y = [i \in 0 .. n |-> IF i = 0 THEN {0} ELSE EndsAfter(p, t, i, y[i - 1])]
  BY <1>7 DEF EndsAfter
<1>9. /\ y[0] = {0}
      /\ \A i \in 1 .. n : y[i] = EndsAfter(p, t, i, y[i - 1])
  <2>1. 0 \in 0 .. n /\ \A i \in 1 .. n : i \in 0 .. n /\ i # 0
    BY <1>1
  <2> HIDE DEF n, Rounds
  <2> QED BY <1>8, <2>1
<1> DEFINE Z == {i \in 0 .. n : y[i] \in X}
<1>10. 0 \in Z
  BY <1>1, <1>9
<1>11. ASSUME NEW i \in 1 .. n, i - 1 \in Z PROVE i \in Z
  <2>1. y[i] \in X
    <3> HIDE DEF X, Rounds
    <3> QED BY <1>3, <1>9, <1>11
  <2> QED BY <1>1, <2>1
<1>12. \A i \in 0 .. n : i \in Z
  <2> HIDE DEF Z
  <2> QED BY <1>1, <1>10, <1>11, UpTo
<1>13. y \in [0 .. n -> X]
  <2> HIDE DEF n, X, Rounds
  <2> QED BY <1>8, <1>12
<1> HIDE DEF Rounds
<1> QED BY <1>2, <1>9, <1>13 DEF HasEnds

(* A text fits a pattern if all of it fits all of the pattern.             *)
LEMMA FitsWhole ==
  ASSUME NEW p \in Seq(STRING), NEW t \in Seq(STRING)
  PROVE  Meant(p, t) <=> FitsRest(p, t, Len(p), 0, 0)
<1> DEFINE e == Len(p)
<1>0. e \in Nat /\ Len(t) \in Nat
  BY LenProperties
<1>1. PICK y \in [0 .. e -> SUBSET (0 .. Len(t))] :
        /\ y[0] = {0}
        /\ \A i \in 1 .. e : y[i] = EndsAfter(p, t, i, y[i - 1])
        /\ PieceEnds(p, t)[e] = y[e]
  BY PieceEndsRounds DEF HasEnds
<1> DEFINE Some(i) == \E a \in y[i] : FitsRest(p, t, e, i, a)
           S == {i \in 0 .. e : FitsRest(p, t, e, 0, 0) <=> Some(i)}
<1> HIDE DEF e
<1>2. 0 \in S
  <2>1. Some(0) <=> FitsRest(p, t, e, 0, 0)
    BY <1>1
  <2> HIDE DEF Some
  <2> QED BY <1>0, <2>1
<1>3. ASSUME NEW i \in 1 .. e, i - 1 \in S PROVE i \in S
  <2>1. /\ i - 1 \in 0 .. e /\ i - 1 # e /\ i - 1 + 1 = i /\ i \in 0 .. e
        /\ y[i - 1] \subseteq 0 .. Len(t)
    BY <1>0, <1>1
  <2>2. ASSUME NEW a \in y[i - 1]
        PROVE  FitsRest(p, t, e, i - 1, a) <=>
                 \E b \in 0 .. Len(t) : /\ Piece(p, t, i, a, b)
                                       /\ FitsRest(p, t, e, i, b)
    <3> DEFINE h == i - 1
    <3>1. a \in 0 .. Len(t) /\ h \in 0 .. e /\ h # e /\ h + 1 = i
      BY <2>1
    <3> HIDE DEF h
    <3>2. FitsRest(p, t, e, h, a) <=>
            \E b \in 0 .. Len(t) : /\ Piece(p, t, h + 1, a, b)
                                  /\ FitsRest(p, t, e, h + 1, b)
      BY <1>0, <3>1, FitsNext
    <3> QED BY <3>1, <3>2 DEF h
  <2>3. Some(i - 1) <=>
          \E a \in y[i - 1] : \E b \in 0 .. Len(t) :
            Piece(p, t, i, a, b) /\ FitsRest(p, t, e, i, b)
    BY <2>2
  <2>4. \A b : b \in y[i] <=>
          b \in 0 .. Len(t) /\ \E a \in y[i - 1] : Piece(p, t, i, a, b)
    <3> DEFINE A == y[i - 1]
    <3>1. y[i] = EndsAfter(p, t, i, A)
      BY <1>1
    <3> HIDE DEF A
    <3>2. \A b : b \in EndsAfter(p, t, i, A) <=>
            b \in 0 .. Len(t) /\ \E a \in A : Piece(p, t, i, a, b)
      BY EndsAfterHas
    <3>3. \A b : b \in y[i] <=>
            b \in 0 .. Len(t) /\ \E a \in A : Piece(p, t, i, a, b)
      BY <3>1, <3>2, Zenon
    <3> QED BY <3>3 DEF A
  <2>5. Some(i) <=> Some(i - 1)
    BY <2>3, <2>4
  <2> HIDE DEF Some
  <2> QED BY <1>3, <2>1, <2>5
<1>4. \A i \in 0 .. e : i \in S
  <2> HIDE DEF S
  <2> QED BY <1>0, <1>2, <1>3, UpTo
<1>5. FitsRest(p, t, e, 0, 0) <=> Some(e)
  <2>1. e \in S
    <3> HIDE DEF S
    <3> QED BY <1>0, <1>4
  <2> HIDE DEF Some
  <2> QED BY <2>1
<1>6. \A a \in y[e] : FitsRest(p, t, e, e, a) <=> a = Len(t)
  <2>1. y[e] \subseteq 0 .. Len(t)
    BY <1>0, <1>1
  <2> QED BY <1>0, <2>1, FitsEnd
<1>7. Some(e) <=> Len(t) \in y[e]
  BY <1>6
<1> HIDE DEF Some
<1> QED BY <1>1, <1>5, <1>7 DEF Meant, e

(* A star stands for nothing, or for one more character.                   *)
LEMMA FitsStar ==
  ASSUME NEW p, NEW t \in Seq(STRING), NEW e \in Nat, NEW i \in 0 .. e, i # e,
         NEW j \in 0 .. Len(t), p[i + 1] = "*"
  PROVE  FitsRest(p, t, e, i, j) <=>
           \/ FitsRest(p, t, e, i + 1, j)
           \/ j # Len(t) /\ FitsRest(p, t, e, i, j + 1)
<1>1. ASSUME NEW a \in 0 .. Len(t)
      PROVE  FitsRest(p, t, e, i, a) <=>
               \E b \in 0 .. Len(t) : a <= b /\ FitsRest(p, t, e, i + 1, b)
  <2>1. FitsRest(p, t, e, i, a) <=>
           \E b \in 0 .. Len(t) : /\ Piece(p, t, i + 1, a, b)
                                 /\ FitsRest(p, t, e, i + 1, b)
    BY FitsNext
  <2>2. \A b \in 0 .. Len(t) : Piece(p, t, i + 1, a, b) <=> a <= b
    BY DEF Piece
  <2> QED BY <2>1, <2>2
<1>2. Len(t) \in Nat
  OBVIOUS
<1>3. CASE j = Len(t)
  <2>1. \A b \in 0 .. Len(t) : j <= b <=> b = j
    BY <1>2, <1>3
  <2> QED BY <1>1, <1>3, <2>1
<1>4. CASE j # Len(t)
  <2>1. j + 1 \in 0 .. Len(t)
    BY <1>2, <1>4
  <2>2. \A b \in 0 .. Len(t) : j <= b <=> b = j \/ j + 1 <= b
    BY <1>2
  <2>3. FitsRest(p, t, e, i, j + 1) <=>
           \E b \in 0 .. Len(t) : j + 1 <= b /\ FitsRest(p, t, e, i + 1, b)
    BY <1>1, <2>1
  <2> QED BY <1>1, <1>4, <2>2, <2>3
<1> QED BY <1>3, <1>4

(* Any other character of the pattern stands for one of the text.          *)
LEMMA FitsOne ==
  ASSUME NEW p, NEW t \in Seq(STRING), NEW e \in Nat, NEW i \in 0 .. e, i # e,
         NEW j \in 0 .. Len(t), p[i + 1] # "*"
  PROVE  FitsRest(p, t, e, i, j) <=>
           /\ j # Len(t) /\ p[i + 1] \in {"?", t[j + 1]}
           /\ FitsRest(p, t, e, i + 1, j + 1)
<1>1. FitsRest(p, t, e, i, j) <=>
        \E b \in 0 .. Len(t) : /\ Piece(p, t, i + 1, j, b)
                              /\ FitsRest(p, t, e, i + 1, b)
  BY FitsNext
<1>2. \A b \in 0 .. Len(t) :
        Piece(p, t, i + 1, j, b) <=> b = j + 1 /\ p[i + 1] \in {"?", t[j + 1]}
  BY DEF Piece
<1>3. j # Len(t) <=> j + 1 \in 0 .. Len(t)
  OBVIOUS
<1> QED BY <1>1, <1>2, <1>3

(* Only stars stand for nothing.                                           *)
LEMMA FitsNothing ==
  ASSUME NEW p, NEW t \in Seq(STRING), NEW e \in Nat, NEW i \in 0 .. e,
         FitsRest(p, t, e, i, Len(t))
  PROVE  \A k \in i + 1 .. e : p[k] = "*"
<1> DEFINE n == Len(t)
<1>1. PICK cut : Cuts(p, t, e, i, n, cut)
  BY DEF FitsRest
<1>2. n \in Nat /\ \A k \in i .. e : cut[k] \in 0 .. n
  BY <1>1 DEF Cuts
<1>3. ASSUME NEW k \in i + 1 .. e, cut[k - 1] = n
      PROVE  cut[k] = n /\ p[k] = "*"
  <2>1. Piece(p, t, k, n, cut[k])
    BY <1>1, <1>3 DEF Cuts
  <2>2. cut[k] \in 0 .. n
    BY <1>2
  <2> HIDE DEF n
  <2> QED BY <1>2, <2>1, <2>2 DEF Piece
<1> DEFINE S == {d \in 0 .. e - i : cut[i + d] = n}
<1>4. 0 \in S
  <2>1. cut[i] = n /\ i + 0 = i /\ 0 \in 0 .. e - i
    BY <1>1 DEF Cuts
  <2> QED BY <2>1
<1>5. ASSUME NEW d \in 1 .. e - i, d - 1 \in S PROVE d \in S
  <2>1. i + d \in i + 1 .. e /\ i + d - 1 = i + (d - 1) /\ d \in 0 .. e - i
    OBVIOUS
  <2>2. cut[i + d] = n
    BY <1>3, <1>5, <2>1
  <2> QED BY <2>1, <2>2
<1>6. \A d \in 0 .. e - i : d \in S
  <2>1. e - i \in Nat
    OBVIOUS
  <2> HIDE DEF S
  <2> QED BY <1>4, <1>5, <2>1, UpTo
<1>7. ASSUME NEW k \in i + 1 .. e PROVE p[k] = "*"
  <2>1. k - 1 - i \in 0 .. e - i /\ i + (k - 1 - i) = k - 1
    OBVIOUS
  <2>2. cut[k - 1] = n
    BY <1>6, <2>1
  <2> QED BY <1>3, <2>2
<1> QED BY <1>7

(* The answer v after i and j characters is right.                         *)
Unread(p, t, i, j) ==
  \E k \in i + 1 .. Len(p) : p[k] = "?" /\ FitsRest(p, t, k - 1, i, j)

Right(p, t, v, i, j) ==
  \/ v = {TRUE} /\ FitsRest(p, t, Len(p), i, j)
  \/ v = {FALSE} /\ ~FitsRest(p, t, Len(p), i, j)
  \/ v = BOOLEAN /\ Unread(p, t, i, j)

(* What is read past the end later is so from here.                        *)
LEMMA UnreadStar ==
  ASSUME NEW p \in Seq(STRING), NEW t \in Seq(STRING),
         NEW i \in 0 .. Len(p), i # Len(p), NEW j \in 0 .. Len(t),
         p[i + 1] = "*",
         \/ Unread(p, t, i + 1, j)
         \/ j # Len(t) /\ Unread(p, t, i, j + 1)
  PROVE  Unread(p, t, i, j)
<1>1. Len(p) \in Nat
  OBVIOUS
<1>2. PICK k \in i + 1 .. Len(p) :
        /\ p[k] = "?" /\ k # i + 1
        /\ \/ FitsRest(p, t, k - 1, i + 1, j)
           \/ j # Len(t) /\ FitsRest(p, t, k - 1, i, j + 1)
  <2>1. CASE Unread(p, t, i + 1, j)
    <3>1. PICK k \in i + 1 + 1 .. Len(p) :
            p[k] = "?" /\ FitsRest(p, t, k - 1, i + 1, j)
      BY <2>1 DEF Unread
    <3>2. k \in i + 1 .. Len(p) /\ k # i + 1
      BY <1>1
    <3> QED BY <3>1, <3>2
  <2>2. CASE j # Len(t) /\ Unread(p, t, i, j + 1)
    <3>1. PICK k \in i + 1 .. Len(p) :
            p[k] = "?" /\ FitsRest(p, t, k - 1, i, j + 1)
      BY <2>2 DEF Unread
    <3>2. k # i + 1
      BY <3>1
    <3> QED BY <2>2, <3>1, <3>2
  <2> QED BY <2>1, <2>2
<1>3. k - 1 \in Nat /\ i \in 0 .. k - 1 /\ i # k - 1
  BY <1>1, <1>2
<1>4. FitsRest(p, t, k - 1, i, j)
  BY <1>2, <1>3, FitsStar
<1> QED BY <1>2, <1>4 DEF Unread

LEMMA UnreadOne ==
  ASSUME NEW p \in Seq(STRING), NEW t \in Seq(STRING),
         NEW i \in 0 .. Len(p), i # Len(p), NEW j \in 0 .. Len(t), j # Len(t),
         p[i + 1] # "*", p[i + 1] \in {"?", t[j + 1]},
         Unread(p, t, i + 1, j + 1)
  PROVE  Unread(p, t, i, j)
<1>1. Len(p) \in Nat
  OBVIOUS
<1>2. PICK k \in i + 1 + 1 .. Len(p) :
        p[k] = "?" /\ FitsRest(p, t, k - 1, i + 1, j + 1)
  BY DEF Unread
<1>3. k - 1 \in Nat /\ i \in 0 .. k - 1 /\ i # k - 1 /\ k \in i + 1 .. Len(p)
  BY <1>1
<1>4. FitsRest(p, t, k - 1, i, j)
  BY <1>2, <1>3, FitsOne
<1> QED BY <1>2, <1>3, <1>4 DEF Unread

(* One call of match is right if the calls it makes are.                   *)
LEMMA RightCall ==
  ASSUME NEW p \in Seq(STRING), NEW t \in Seq(STRING),
         \A k \in DOMAIN t : t[k] # "*", ~EndsWithStars(p), NEW rest,
         NEW i \in 0 .. Len(p), NEW j \in 0 .. Len(t),
         i # Len(p) => Right(p, t, rest[<<i + 1, j>>], i + 1, j),
         i # Len(p) /\ j # Len(t) =>
           /\ Right(p, t, rest[<<i, j + 1>>], i, j + 1)
           /\ Right(p, t, rest[<<i + 1, j + 1>>], i + 1, j + 1)
  PROVE  Right(p, t, MatchRest(p, t, rest, i, j), i, j)
<1> DEFINE m == Len(p)
           n == Len(t)
           v == MatchRest(p, t, rest, i, j)
<1>0. m \in Nat /\ n \in Nat /\ DOMAIN t = 1 .. n
  OBVIOUS
<1>1. CASE i = m
  <2>1. v = {j = n}
    BY <1>1 DEF MatchRest, BothEnded
  <2>2. FitsRest(p, t, m, i, j) <=> j = n
    BY <1>0, <1>1, FitsEnd
  <2>3. CASE j = n
    <3>1. (j = n) = TRUE
      BY <2>3
    <3> HIDE DEF v, n
    <3>2. v = {TRUE}
      BY <2>1, <3>1
    <3> QED BY <2>2, <2>3, <3>2 DEF Right, v
  <2>4. CASE j # n
    <3>1. (j = n) = FALSE
      BY <2>4
    <3> HIDE DEF v, n
    <3>2. v = {FALSE}
      BY <2>1, <3>1
    <3> QED BY <2>2, <2>4, <3>2 DEF Right, v
  <2> QED BY <2>3, <2>4
<1>2. CASE i # m /\ p[i + 1] = "*" /\ j = n
  <2>1. CASE i + 1 < m
    <3>1. v = {FALSE}
      BY <1>2, <2>1 DEF MatchRest, Stuck
    <3>2. ASSUME FitsRest(p, t, m, i, j) PROVE FALSE
      <4>1. \A k \in i + 1 .. m : p[k] = "*"
        BY <1>0, <1>2, <3>2, FitsNothing
      <4>2. i \in 0 .. m
        OBVIOUS
      <4>3. m \in i + 1 .. m /\ m - 1 \in i + 1 .. m /\ m > 1
        <5> HIDE DEF m, n, v
        <5>1. m \in Nat /\ i \in Nat /\ i + 1 < m
          BY <1>0, <2>1, <4>2
        <5> QED BY <5>1
      <4> QED BY <4>1, <4>3 DEF EndsWithStars
    <3> QED BY <3>1, <3>2 DEF Right
  <2>2. CASE ~(i + 1 < m)
    <3>1. i + 1 = m
      BY <1>0, <1>2, <2>2
    <3>2. v = {TRUE}
      BY <1>2, <2>2 DEF MatchRest, Stuck
    <3>3. FitsRest(p, t, m, m, j)
      BY <1>0, <1>2, FitsEnd
    <3>4. FitsRest(p, t, m, i, j)
      BY <1>0, <1>2, <3>1, <3>3, FitsStar
    <3> QED BY <3>2, <3>4 DEF Right
  <2> QED BY <2>1, <2>2
<1>3. CASE i # m /\ p[i + 1] = "*" /\ j # n
  <2> DEFINE A == rest[<<i + 1, j>>]
             B == rest[<<i, j + 1>>]
  <2>1. t[j + 1] # "*"
    <3>1. j \in 0 .. n
      OBVIOUS
    <3>2. j + 1 \in DOMAIN t
      <4> HIDE DEF n
      <4> QED BY <1>0, <1>3, <3>1
    <3> QED BY <3>2
  <2>2. v = Or(A, B)
    BY <1>3, <2>1 DEF MatchRest, Stuck
  <2>3. Right(p, t, A, i + 1, j) /\ Right(p, t, B, i, j + 1)
    BY <1>3
  <2>4. FitsRest(p, t, m, i, j) <=>
          FitsRest(p, t, m, i + 1, j) \/ FitsRest(p, t, m, i, j + 1)
    BY <1>0, <1>3, FitsStar
  <2>5. Unread(p, t, i + 1, j) \/ Unread(p, t, i, j + 1) => Unread(p, t, i, j)
    BY <1>3, UnreadStar
  <2>6. /\ A \in Answers /\ B \in Answers
        /\ {TRUE} # {FALSE} /\ {TRUE} # BOOLEAN /\ {FALSE} # BOOLEAN
    <3>1. TRUE \notin {FALSE} /\ FALSE \notin {TRUE}
      OBVIOUS
    <3> QED BY <2>3, <3>1 DEF Answers, Right
  <2>7. /\ v \in Answers
        /\ v = {TRUE} <=> A = {TRUE} \/ B = {TRUE}
        /\ v = {FALSE} <=> A = {FALSE} /\ B = {FALSE}
    <3> HIDE DEF v, A, B
    <3> QED BY <2>2, <2>6, OrType
  <2> HIDE DEF v, A, B
  <2> QED BY <2>3, <2>4, <2>5, <2>6, <2>7 DEF Answers, Right, v
<1>4. CASE i # m /\ p[i + 1] # "*" /\ j = n
  <2>1. CASE p[i + 1] = "?"
    <3>1. v = BOOLEAN
      BY <1>4, <2>1 DEF MatchRest, Stuck
    <3>2. FitsRest(p, t, i, i, j)
      BY <1>0, <1>4, FitsEnd
    <3>3. i + 1 \in i + 1 .. m /\ i + 1 - 1 = i
      BY <1>0, <1>4
    <3>4. Unread(p, t, i, j)
      BY <2>1, <3>2, <3>3 DEF Unread
    <3> QED BY <3>1, <3>4 DEF Right
  <2>2. CASE p[i + 1] # "?"
    <3>1. v = {FALSE}
      BY <1>4, <2>2 DEF MatchRest, Stuck
    <3>2. ~FitsRest(p, t, m, i, j)
      BY <1>0, <1>4, FitsOne
    <3> QED BY <3>1, <3>2 DEF Right
  <2> QED BY <2>1, <2>2
<1>5. CASE i # m /\ p[i + 1] # "*" /\ j # n
  <2>1. FitsRest(p, t, m, i, j) <=>
          p[i + 1] \in {"?", t[j + 1]} /\ FitsRest(p, t, m, i + 1, j + 1)
    BY <1>0, <1>5, FitsOne
  <2>2. CASE p[i + 1] \in {"?", t[j + 1]}
    <3>1. v = rest[<<i + 1, j + 1>>]
      BY <1>5, <2>2 DEF MatchRest, Stuck
    <3>2. Unread(p, t, i + 1, j + 1) => Unread(p, t, i, j)
      BY <1>5, <2>2, UnreadOne
    <3>3. Right(p, t, v, i + 1, j + 1)
      BY <1>5, <3>1
    <3> QED BY <2>1, <2>2, <3>2, <3>3 DEF Right
  <2>3. CASE p[i + 1] \notin {"?", t[j + 1]}
    <3>1. v = {FALSE}
      BY <1>5, <2>3 DEF MatchRest, Stuck
    <3> QED BY <2>1, <2>3, <3>1 DEF Right
  <2> QED BY <2>2, <2>3
<1> QED BY <1>1, <1>2, <1>3, <1>4, <1>5

(* What holds of a call of match if it holds of those it makes holds of    *)
(* all: by induction over the number of characters left.                   *)
Carried(m, n, G) ==
  \A i \in 0 .. m, j \in 0 .. n :
    /\ i # m => <<i + 1, j>> \in G
    /\ i # m /\ j # n => <<i, j + 1>> \in G /\ <<i + 1, j + 1>> \in G
    => <<i, j>> \in G

LEMMA EveryCall ==
  ASSUME NEW m \in Nat, NEW n \in Nat, NEW G, Carried(m, n, G)
  PROVE  <<0, 0>> \in G
<1> DEFINE S == {r \in 0 .. m + n :
                   \A i \in 0 .. m, j \in 0 .. n :
                     (m - i) + (n - j) <= r => <<i, j>> \in G}
<1>1. 0 \in S
  <2>1. ASSUME NEW i \in 0 .. m, NEW j \in 0 .. n, (m - i) + (n - j) <= 0
        PROVE  <<i, j>> \in G
    <3>1. i = m /\ j = n
      BY <2>1
    <3> QED BY <3>1 DEF Carried
  <2>2. 0 \in 0 .. m + n
    OBVIOUS
  <2> QED BY <2>1, <2>2
<1>2. ASSUME NEW r \in 1 .. m + n, r - 1 \in S PROVE r \in S
  <2>1. ASSUME NEW i \in 0 .. m, NEW j \in 0 .. n, (m - i) + (n - j) <= r
        PROVE  <<i, j>> \in G
    <3>1. r \in Nat
      OBVIOUS
    <3>2. i # m => i + 1 \in 0 .. m /\ (m - (i + 1)) + (n - j) <= r - 1
      BY <2>1, <3>1
    <3>3. j # n => j + 1 \in 0 .. n /\ (m - i) + (n - (j + 1)) <= r - 1
      BY <2>1, <3>1
    <3>4. i # m /\ j # n => (m - (i + 1)) + (n - (j + 1)) <= r - 1
      BY <2>1, <3>1
    <3>5. i # m => <<i + 1, j>> \in G
      BY <1>2, <3>2
    <3>6. i # m /\ j # n => <<i, j + 1>> \in G /\ <<i + 1, j + 1>> \in G
      BY <1>2, <3>2, <3>3, <3>4
    <3> QED BY <3>5, <3>6 DEF Carried
  <2> QED BY <2>1
<1>3. m + n \in Nat /\ m + n \in 0 .. m + n /\ 0 \in 0 .. m /\ 0 \in 0 .. n
  OBVIOUS
<1>4. m + n \in S
  <2> HIDE DEF S
  <2>1. \A r \in 0 .. m + n : r \in S
    BY <1>1, <1>2, <1>3, UpTo
  <2> QED BY <1>3, <2>1
<1>5. (m - 0) + (n - 0) <= m + n
  OBVIOUS
<1> QED BY <1>3, <1>4, <1>5

(* match answers one of these.                                             *)
LEMMA MatchAnswers ==
  ASSUME NEW first \in Seq(STRING), NEW second \in Seq(STRING)
  PROVE  match(first, second) \in Answers
<1>1. PICK rest : MatchInCalls(first, second, rest)
  BY MatchCalls DEF HasCalls
<1> DEFINE m == Len(first)
           n == Len(second)
           D == (0 .. m) \X (0 .. n)
           G == {c \in D : rest[c] \in Answers}
           x == [c \in D |-> IF c \in G THEN rest[c] ELSE {TRUE}]
<1>2. m \in Nat /\ n \in Nat
  OBVIOUS
<1>3. x \in [D -> Answers]
  BY DEF Answers
<1>4. \A c \in G : x[c] = rest[c] /\ c \in D
  OBVIOUS
<1>5. ASSUME NEW i \in 0 .. m, NEW j \in 0 .. n,
             i # m => <<i + 1, j>> \in G,
             i # m /\ j # n => <<i, j + 1>> \in G /\ <<i + 1, j + 1>> \in G
      PROVE  <<i, j>> \in G
  <2>1. MatchRest(first, second, x, i, j) \in Answers
    BY <1>3, MatchRestType
  <2>2. rest[<<i, j>>] = MatchRest(first, second, rest, i, j) /\ <<i, j>> \in D
    BY <1>1 DEF MatchInCalls
  <2>3. MatchRest(first, second, x, i, j) = MatchRest(first, second, rest, i, j)
    <3> HIDE DEF x, G, D
    <3>1. CASE i = m \/ j = n
      BY <3>1 DEF MatchRest
    <3>2. CASE i # m /\ j # n
      <4>1. /\ x[<<i + 1, j>>] = rest[<<i + 1, j>>]
            /\ x[<<i, j + 1>>] = rest[<<i, j + 1>>]
            /\ x[<<i + 1, j + 1>>] = rest[<<i + 1, j + 1>>]
        BY <1>4, <1>5, <3>2
      <4> QED BY <4>1 DEF MatchRest
    <3> QED BY <3>1, <3>2
  <2> HIDE DEF x
  <2> QED BY <2>1, <2>2, <2>3
<1>6. <<0, 0>> \in G
  <2> HIDE DEF G, m, n
  <2>1. Carried(m, n, G)
    BY <1>5 DEF Carried
  <2> QED BY <1>2, <2>1, EveryCall
<1> QED BY <1>1, <1>6 DEF MatchInCalls

(* Every call of match is right.                                           *)
LEMMA AllRight ==
  ASSUME NEW p \in Seq(STRING), NEW t \in Seq(STRING),
         \A k \in DOMAIN t : t[k] # "*", ~EndsWithStars(p), NEW rest,
         MatchInCalls(p, t, rest)
  PROVE  Right(p, t, rest[<<0, 0>>], 0, 0)
<1> DEFINE m == Len(p)
           n == Len(t)
           G == {c \in (0 .. m) \X (0 .. n) : Right(p, t, rest[c], c[1], c[2])}
<1>1. m \in Nat /\ n \in Nat
  OBVIOUS
<1>2. ASSUME NEW i \in 0 .. m, NEW j \in 0 .. n,
             i # m => <<i + 1, j>> \in G,
             i # m /\ j # n => <<i, j + 1>> \in G /\ <<i + 1, j + 1>> \in G
      PROVE  <<i, j>> \in G
  <2>1. i # m => Right(p, t, rest[<<i + 1, j>>], i + 1, j)
    BY <1>2
  <2>2. i # m /\ j # n => /\ Right(p, t, rest[<<i, j + 1>>], i, j + 1)
                         /\ Right(p, t, rest[<<i + 1, j + 1>>], i + 1, j + 1)
    BY <1>2
  <2>3. Right(p, t, MatchRest(p, t, rest, i, j), i, j)
    BY <2>1, <2>2, RightCall
  <2>4. rest[<<i, j>>] = MatchRest(p, t, rest, i, j)
    BY DEF MatchInCalls
  <2> QED BY <2>3, <2>4
<1>3. <<0, 0>> \in G
  <2> HIDE DEF G, m, n
  <2>1. Carried(m, n, G)
    BY <1>2 DEF Carried
  <2> QED BY <1>1, <2>1, EveryCall
<1> QED BY <1>3

(* match decides what its pattern means, for a name without wildcards and a *)
(* pattern that does not end with **, or reads past the end of the name at *)
(* some ? of the pattern.                                                  *)
LEMMA MatchDecides ==
  ASSUME NEW p \in Seq(STRING), NEW t \in Seq(STRING),
         \A k \in DOMAIN t : t[k] # "*", ~EndsWithStars(p)
  PROVE  \/ match(p, t) = {Meant(p, t)}
         \/ match(p, t) = BOOLEAN /\ Unread(p, t, 0, 0)
<1>1. PICK rest : MatchInCalls(p, t, rest)
  BY MatchCalls DEF HasCalls
<1>2. Right(p, t, match(p, t), 0, 0)
  BY <1>1, AllRight DEF MatchInCalls
<1>3. Meant(p, t) <=> FitsRest(p, t, Len(p), 0, 0)
  BY FitsWhole
<1>4. Meant(p, t) \in BOOLEAN
  BY DEF Meant
<1>5. CASE match(p, t) = {TRUE} /\ FitsRest(p, t, Len(p), 0, 0)
  <2>1. Meant(p, t) = TRUE
    BY <1>3, <1>4, <1>5
  <2> QED BY <1>5, <2>1
<1>6. CASE match(p, t) = {FALSE} /\ ~FitsRest(p, t, Len(p), 0, 0)
  <2>1. Meant(p, t) = FALSE
    BY <1>3, <1>4, <1>6
  <2> QED BY <1>6, <2>1
<1> QED BY <1>2, <1>5, <1>6 DEF Right

(* What match finds fits, also for a name with wildcards.                  *)
Founded(p, t, v, i, j) ==
  v \in Answers /\ (v = {TRUE} => FitsRest(p, t, Len(p), i, j))

LEMMA SoundCall ==
  ASSUME NEW p \in Seq(STRING), NEW t \in Seq(STRING), NEW rest,
         NEW i \in 0 .. Len(p), NEW j \in 0 .. Len(t),
         i # Len(p) => Founded(p, t, rest[<<i + 1, j>>], i + 1, j),
         i # Len(p) /\ j # Len(t) =>
           /\ Founded(p, t, rest[<<i, j + 1>>], i, j + 1)
           /\ Founded(p, t, rest[<<i + 1, j + 1>>], i + 1, j + 1)
  PROVE  Founded(p, t, MatchRest(p, t, rest, i, j), i, j)
<1> DEFINE m == Len(p)
           n == Len(t)
           v == MatchRest(p, t, rest, i, j)
           fits == FitsRest(p, t, m, i, j)
<1>1. m \in Nat /\ n \in Nat
  OBVIOUS
<1>2. {FALSE} \in Answers /\ BOOLEAN \in Answers /\ {TRUE} \in Answers
  BY DEF Answers
<1>3. {FALSE} # {TRUE} /\ BOOLEAN # {TRUE}
  <2>1. FALSE \notin {TRUE} /\ FALSE \in BOOLEAN
    OBVIOUS
  <2> QED BY <2>1
<1>4. CASE i = m
  <2>1. v = {j = n}
    BY <1>4 DEF MatchRest, BothEnded
  <2>2. fits <=> j = n
    BY <1>1, <1>4, FitsEnd
  <2>3. (j = n) = TRUE \/ (j = n) = FALSE
    OBVIOUS
  <2> HIDE DEF v, n, fits
  <2>4. CASE (j = n) = TRUE
    <3>1. v = {TRUE}
      BY <2>1, <2>4
    <3> QED BY <1>2, <2>2, <2>4, <3>1 DEF Founded, v, fits
  <2>5. CASE (j = n) = FALSE
    <3>1. v = {FALSE}
      BY <2>1, <2>5
    <3> QED BY <1>2, <1>3, <3>1 DEF Founded, v
  <2> QED BY <2>3, <2>4, <2>5
<1>5. CASE v = {FALSE} \/ v = BOOLEAN
  BY <1>2, <1>3, <1>5 DEF Founded
<1>6. CASE /\ i # m /\ j # n /\ v = rest[<<i + 1, j + 1>>]
           /\ p[i + 1] \in {"?", t[j + 1]}
  <2>1. Founded(p, t, v, i + 1, j + 1)
    BY <1>6
  <2>2. ASSUME FitsRest(p, t, m, i + 1, j + 1) PROVE fits
    <3>1. CASE p[i + 1] # "*"
      BY <1>1, <1>6, <2>2, <3>1, FitsOne
    <3>2. CASE p[i + 1] = "*"
      <4>1. /\ i + 1 \in 0 .. m /\ j + 1 \in 0 .. n
        BY <1>1, <1>6
      <4>2. FitsRest(p, t, m, i, j + 1)
        <5>1. j + 1 \in 0 .. Len(t) /\ m \in Nat /\ i \in 0 .. m
          BY <1>1, <4>1
        <5> QED BY <1>6, <2>2, <3>2, <5>1, FitsStar
      <4> QED BY <1>1, <1>6, <3>2, <4>2, FitsStar
    <3> QED BY <3>1, <3>2
  <2> HIDE DEF v, fits
  <2> QED BY <2>1, <2>2 DEF Founded, v, fits
<1>7. CASE i # m /\ j = n /\ v = {TRUE} /\ i + 1 = m /\ p[i + 1] = "*"
  <2>1. FitsRest(p, t, m, m, j)
    BY <1>1, <1>7, FitsEnd
  <2>2. fits
    BY <1>1, <1>7, <2>1, FitsStar
  <2> QED BY <1>2, <1>7, <2>2 DEF Founded
<1>8. CASE /\ i # m /\ j # n /\ p[i + 1] = "*"
           /\ v = Or(rest[<<i + 1, j>>], rest[<<i, j + 1>>])
  <2> DEFINE A == rest[<<i + 1, j>>]
             B == rest[<<i, j + 1>>]
  <2>1. Founded(p, t, A, i + 1, j) /\ Founded(p, t, B, i, j + 1)
    BY <1>8
  <2>2. fits <=> FitsRest(p, t, m, i + 1, j) \/ FitsRest(p, t, m, i, j + 1)
    BY <1>1, <1>8, FitsStar
  <2>3. A \in Answers /\ B \in Answers /\ v = Or(A, B)
    BY <1>8, <2>1 DEF Founded
  <2> HIDE DEF v, A, B, fits
  <2>4. v \in Answers /\ (v = {TRUE} <=> A = {TRUE} \/ B = {TRUE})
    BY <2>3, OrType
  <2> QED BY <2>1, <2>2, <2>4 DEF Founded, v, fits
<1>9. i # m =>
        \/ v = {FALSE} \/ v = BOOLEAN
        \/ j # n /\ v = rest[<<i + 1, j + 1>>] /\ p[i + 1] \in {"?", t[j + 1]}
        \/ j = n /\ v = {TRUE} /\ i + 1 = m /\ p[i + 1] = "*"
        \/ /\ j # n /\ p[i + 1] = "*"
           /\ v = Or(rest[<<i + 1, j>>], rest[<<i, j + 1>>])
  <2> SUFFICES ASSUME i # m, v # {FALSE}, v # BOOLEAN
               PROVE  \/ /\ j # n /\ v = rest[<<i + 1, j + 1>>]
                         /\ p[i + 1] \in {"?", t[j + 1]}
                      \/ j = n /\ v = {TRUE} /\ i + 1 = m /\ p[i + 1] = "*"
                      \/ /\ j # n /\ p[i + 1] = "*"
                         /\ v = Or(rest[<<i + 1, j>>], rest[<<i, j + 1>>])
    OBVIOUS
  <2>1. CASE j = n
    <3>1. ~Stuck(p, i + 1, TRUE) /\ p[i + 1] = "*" /\ v = {TRUE}
      BY <2>1 DEF MatchRest, BothEnded
    <3>2. ~(i + 1 < m)
      BY <3>1 DEF Stuck
    <3>3. i + 1 = m
      BY <1>1, <3>2
    <3> QED BY <2>1, <3>1, <3>3
  <2>2. CASE j # n
    BY <2>2 DEF MatchRest, Stuck
  <2> QED BY <2>1, <2>2
<1> QED BY <1>4, <1>5, <1>6, <1>7, <1>8, <1>9

LEMMA MatchMeant ==
  ASSUME NEW p \in Seq(STRING), NEW t \in Seq(STRING), match(p, t) = {TRUE}
  PROVE  Meant(p, t)
<1>1. PICK rest : MatchInCalls(p, t, rest)
  BY MatchCalls DEF HasCalls
<1> DEFINE m == Len(p)
           n == Len(t)
           G == {c \in (0 .. m) \X (0 .. n) : Founded(p, t, rest[c], c[1], c[2])}
<1>2. m \in Nat /\ n \in Nat
  OBVIOUS
<1>3. ASSUME NEW i \in 0 .. m, NEW j \in 0 .. n,
             i # m => <<i + 1, j>> \in G,
             i # m /\ j # n => <<i, j + 1>> \in G /\ <<i + 1, j + 1>> \in G
      PROVE  <<i, j>> \in G
  <2>1. i # m => Founded(p, t, rest[<<i + 1, j>>], i + 1, j)
    BY <1>3
  <2>2. i # m /\ j # n => /\ Founded(p, t, rest[<<i, j + 1>>], i, j + 1)
                         /\ Founded(p, t, rest[<<i + 1, j + 1>>], i + 1, j + 1)
    BY <1>3
  <2>3. Founded(p, t, MatchRest(p, t, rest, i, j), i, j)
    BY <2>1, <2>2, SoundCall
  <2>4. rest[<<i, j>>] = MatchRest(p, t, rest, i, j)
    BY <1>1 DEF MatchInCalls
  <2> QED BY <2>3, <2>4
<1>4. <<0, 0>> \in G
  <2> HIDE DEF G, m, n
  <2>1. Carried(m, n, G)
    BY <1>3 DEF Carried
  <2> QED BY <1>2, <2>1, EveryCall
<1>5. match(p, t) = rest[<<0, 0>>]
  BY <1>1 DEF MatchInCalls
<1>6. FitsRest(p, t, Len(p), 0, 0)
  BY <1>4, <1>5 DEF Founded
<1> QED BY <1>6, FitsWhole

(* Every pattern matches itself.                                           *)
LEMMA MatchItself ==
  ASSUME NEW p \in Seq(STRING)
  PROVE  match(p, p) = {TRUE}
<1>1. PICK rest : MatchInCalls(p, p, rest)
  BY MatchCalls DEF HasCalls
<1> DEFINE m == Len(p)
           G == {c \in (0 .. m) \X (0 .. m) : c[1] = c[2] => rest[c] = {TRUE}}
<1>2. m \in Nat
  OBVIOUS
<1>3. ASSUME NEW i \in 0 .. m, NEW j \in 0 .. m,
             i # m /\ j # m => <<i + 1, j + 1>> \in G
      PROVE  <<i, j>> \in G
  <2> SUFFICES ASSUME i = j PROVE rest[<<i, j>>] = {TRUE}
    OBVIOUS
  <2>1. rest[<<i, j>>] = MatchRest(p, p, rest, i, j)
    BY <1>1 DEF MatchInCalls
  <2>2. CASE i = m
    <3>1. rest[<<i, j>>] = {j = m}
      BY <2>1, <2>2 DEF MatchRest, BothEnded
    <3>2. (j = m) = TRUE
      BY <2>2
    <3> QED BY <3>1, <3>2
  <2>3. CASE i # m
    <3>1. rest[<<i + 1, j + 1>>] = {TRUE}
      BY <1>3, <2>3
    <3>2. MatchRest(p, p, rest, i, j) = rest[<<i + 1, j + 1>>]
      BY <2>3 DEF MatchRest, Stuck
    <3> QED BY <2>1, <3>1, <3>2
  <2> QED BY <2>2, <2>3
<1>4. <<0, 0>> \in G
  <2> HIDE DEF G, m
  <2>1. Carried(m, m, G)
    BY <1>3 DEF Carried
  <2> QED BY <1>2, <2>1, EveryCall
<1>5. match(p, p) = rest[<<0, 0>>]
  BY <1>1 DEF MatchInCalls
<1> QED BY <1>4, <1>5
=============================================================================
