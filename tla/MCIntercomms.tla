---------------------------- MODULE MCIntercomms ----------------------------
(***************************************************************************)
(* Small workflows for Intercomms.  A group is a pair of funcs; the links  *)
(* are in the order of the keys "<file>/<dataset>".                        *)
(***************************************************************************)
EXTENDS Intercomms

CONSTANT Workflow

Memory == [passthru |-> FALSE, metadata |-> TRUE]
OnDisk == [passthru |-> TRUE,  metadata |-> FALSE]
Both   == [passthru |-> TRUE,  metadata |-> TRUE]

(* All links in memory mode, except those of the domain of modes.          *)
Coupling(prod, con, modes) ==
  LET links == DOMAIN prod IN
  [prod |-> prod, con |-> con, freq |-> [l \in links |-> 1],
   file |-> [l \in links |-> l], hidden |-> {},
   in  |-> [l \in links |-> IF l \in DOMAIN modes THEN modes[l] ELSE Memory],
   out |-> [l \in links |-> IF l \in DOMAIN modes THEN modes[l] ELSE Memory]]

Workflows == [
  \* two datasets of a file on one link, a two-way coupling, a fan-out and
  \* cycles; three links in file mode, two of which bring d the same file
  mesh |-> [Coupling(<<"a", "a", "b", "a", "c", "b", "d">>,
                     <<"b", "b", "a", "c", "d", "d", "a">>,
                     4 :> OnDisk @@ 5 :> OnDisk @@ 6 :> OnDisk)
            EXCEPT !.freq = <<2, 2, 1, 1, 1, -1, 1>>,
                   !.file = <<1, 1, 3, 4, 5, 4, 7>>],
  \* c reads two files of p and, between them in the order, one of q
  interleaved |-> Coupling(<<"p", "q", "p">>, <<"c", "c", "c">>, <<>>),
  \* sim reads from src and writes sim.h5; log writes log.h5 and nothing else
  fileNamedAfterTask |-> [Coupling(<<"src", "sim", "log">>,
                                   <<"sim", "viz", "viz">>, <<>>)
                          EXCEPT !.hidden = {2, 3}],
  \* p writes in both modes, c reads the file; and x produces for y and z,
  \* y for z, where z reads y's file first
  waits |-> [Coupling(<<"p", "y", "x", "x">>, <<"c", "z", "z", "y">>,
                      [l \in 1 .. 4 |-> OnDisk])
             EXCEPT !.out[1] = Both]]

W == Workflows[Workflow]

MCNumLinks == Len(W.prod)
MCTasks    == ToSet(W.prod) \cup ToSet(W.con)
MCProd     == W.prod
MCCon      == W.con
MCGroup    == [l \in 1 .. MCNumLinks |-> <<W.prod[l], W.con[l]>>]
MCPolicy   == W.freq
MCFile     == W.file
MCIn       == W.in
MCOut      == W.out
MCHidden   == W.hidden
MCNamesIn  == [n \in ToSet(MCGroup) |-> {n}]
=============================================================================
