-------------------------------- MODULE Glob --------------------------------
(***************************************************************************)
(* match (workflow.cpp): does a name fit a pattern with the wildcards * and *)
(* ?.  A string is the sequence of its characters.  And the cutting of     *)
(* names with find and substr.                                             *)
(***************************************************************************)
EXTENDS Integers, Sequences

(* More of the pattern follows the * at place i, and the string is at its  *)
(* end.                                                                    *)
Stuck(first, i, ended) == first[i] = "*" /\ ended /\ i < Len(first)

(* The pattern is at its end.  The mutant does not ask whether the string  *)
(* is, too.                                                                *)
BothEndedNot(ended) == TRUE

BothEnded(ended) == ended

(* What a disjunction may be, of what its two sides may be.                *)
Or(A, B) == IF {TRUE} \in {A, B} THEN {TRUE} ELSE A \cup B

(* What may be returned once p[1] and p[2] characters are behind: reading  *)
(* past the end of a string gives anything.  *first == *second comes before *)
(* the test for *.                                                         *)
match(first, second) ==
  LET rest[p \in (0 .. Len(first)) \X (0 .. Len(second))] ==
        LET i == p[1] + 1
            j == p[2] + 1
            ended == p[2] = Len(second)
        IN  IF p[1] = Len(first) THEN {BothEnded(ended)}
            ELSE IF Stuck(first, i, ended) THEN {FALSE}
            ELSE IF first[i] = "?" /\ ended THEN BOOLEAN
            ELSE IF first[i] = "?" \/ (~ended /\ first[i] = second[j])
                 THEN rest[<<i, j>>]
            ELSE IF first[i] # "*" THEN {FALSE}
            ELSE IF ended THEN {TRUE}
            ELSE Or(rest[<<i, p[2]>>], rest[<<p[1], j>>])
  IN rest[<<0, 0>>]

(* What a pattern means: the text can be cut into one piece per character  *)
(* of the pattern, any piece for *, one character for ?, and the character *)
(* itself for any other.  Piece i goes from a to b; PieceEnds are the      *)
(* places where it may end if all before it fit.                           *)
Piece(pattern, text, i, a, b) ==
  \/ pattern[i] = "*" /\ a <= b
  \/ b = a + 1 /\ pattern[i] \in {"?", text[b]}

PieceEnds(pattern, text) ==
  LET ends[i \in 0 .. Len(pattern)] ==
        IF i = 0 THEN {0}
        ELSE UNION {{b \in 0 .. Len(text) : Piece(pattern, text, i, a, b)} :
                      a \in ends[i - 1]}
  IN ends

Meant(pattern, text) == Len(text) \in PieceEnds(pattern, text)[Len(pattern)]

(* Two * at the end: match denies the second of them the empty rest.       *)
EndsWithStars(p) == Len(p) > 1 /\ p[Len(p)] = "*" /\ p[Len(p) - 1] = "*"

-----------------------------------------------------------------------------
(* Where a word occurs in a text, and the first of these places.           *)
Found(text, word) ==
  {i \in DOMAIN text : /\ i + Len(word) <= Len(text) + 1
                       /\ \A j \in DOMAIN word : text[i + j - 1] = word[j]}

find(text, word) ==
  CHOOSE i \in Found(text, word) : \A j \in Found(text, word) : i <= j

(* What comes before the first such place, and the rest.                   *)
PreDlm(text, word) == SubSeq(text, 1, find(text, word) - 1)

PostDlm(text, word) == SubSeq(text, find(text, word), Len(text))
=============================================================================
