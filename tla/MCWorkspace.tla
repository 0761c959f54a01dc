------------------------------ MODULE MCWorkspace ------------------------------
(***************************************************************************)
(* Instances of Workspace for TLC: triples of commands that get in each    *)
(* other's way.                                                            *)
(***************************************************************************)
EXTENDS Workspace

Give(a, b, c) == [a |-> a, b |-> b, c |-> c]

MCScripts ==
  {Give("inspect", "tune", "run"), Give("tune", "tune", "run"),
   Give("tune", "report", "tune"), Give("build", "build", "tune")}
===============================================================================
