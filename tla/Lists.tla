-------------------------------- MODULE Lists --------------------------------
(***************************************************************************)
(* The loops of Wilkins that pick entries from a list: those of main       *)
(* (wilkins-master.py) over the LowFive properties, and that of            *)
(* make_wflow_from_yaml (workflow.cpp) over the entries of a key.          *)
(***************************************************************************)
EXTENDS Integers, Sequences, SequencesExt

(* A loop that goes through a list and takes every wanted entry that does  *)
(* not clash with one taken before, clashes being pairs of entries.        *)
Taken(list, wanted, clashes) ==
  LET taken[i \in 0 .. Len(list)] ==
        IF i = 0 THEN <<>>
        ELSE LET before == taken[i - 1] IN
             IF /\ list[i] \in wanted
                /\ \A e \in ToSet(before) : <<e, list[i]>> \notin clashes
             THEN Append(before, list[i]) ELSE before
  IN taken[Len(list)]
=============================================================================
