------------------------------ MODULE MCLaunch ------------------------------
(***************************************************************************)
(* The workflows of MCIntercomms, and two for the handshake, launched in   *)
(* several ways.                                                           *)
(***************************************************************************)
EXTENDS Launch, MCIntercomms

(* In the mesh, tasks a and d have two ranks.                              *)
MCnprocs == IF Workflow = "mesh"
            THEN "a" :> 2 @@ "b" :> 1 @@ "c" :> 1 @@ "d" :> 2
            ELSE "p" :> 1 @@ "c" :> 1 @@ "x" :> 1 @@ "y" :> 1 @@ "z" :> 1
MCstart_proc == IF Workflow = "mesh"
                THEN "a" :> 0 @@ "b" :> 2 @@ "c" :> 3 @@ "d" :> 4
                ELSE "p" :> 0 @@ "c" :> 1 @@ "x" :> 2 @@ "y" :> 3 @@ "z" :> 4

Total == IF Workflow = "mesh" THEN 6 ELSE 5
All == [t \in Tasks |-> 0]
One(t) == [All EXCEPT ![t] = 1]

(* As many ranks as needed or one or two too few, with -p 1 and without,   *)
(* all ranks writing or one of task a or of task d.                        *)
Way(world, support, nwriters) ==
  [world |-> world, passthruSupport |-> support, nwriters |-> nwriters]
MCLaunches ==
  IF Workflow # "mesh" THEN {Way(Total, TRUE, All)}
  ELSE {Way(Total, TRUE, All), Way(Total, FALSE, One("a")), Way(Total, TRUE, One("a")),
        Way(Total, TRUE, One("d")), Way(Total - 1, TRUE, All), Way(Total - 2, FALSE, All)}
=============================================================================
