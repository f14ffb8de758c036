----------------------------- MODULE FileStream -----------------------------
(***************************************************************************)
(* What the coupling of two tasks promises on every link: a stream of      *)
(* files on which the producer is never more than one file ahead of the    *)
(* consumer, and on which no file is lost, repeated or reordered.          *)
(***************************************************************************)
EXTENDS Naturals, Sequences

CONSTANT Links

VARIABLES sent, got

Init == /\ sent = [l \in Links |-> <<>>]
        /\ got = [l \in Links |-> <<>>]

OneMore(s, t) == \E file \in {t[i] : i \in DOMAIN t} : t = Append(s, file)

(* A producer publishes a file on the links ls, whose consumers have all   *)
(* taken the file before.                                                  *)
Publish(ls) ==
  /\ \A l \in ls : got[l] = sent[l] /\ OneMore(sent[l], sent'[l])
  /\ \A l \in Links \ ls : sent'[l] = sent[l]
  /\ UNCHANGED got

(* The consumer of l takes the file published last.                        *)
Take(l) ==
  /\ got[l] # sent[l]
  /\ got' = [got EXCEPT ![l] = sent[l]]
  /\ UNCHANGED sent

Next == \/ \E ls \in SUBSET Links : Publish(ls)
        \/ \E l \in Links : Take(l)

Spec == Init /\ [][Next]_<<sent, got>>
=============================================================================
