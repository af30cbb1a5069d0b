----------------------------- MODULE MCCppAuction -----------------------------
(***************************************************************************)
(* The constants of CppAuction for TLC: the databases of MCDatabases, two  *)
(* interchangeable threads, one or two requests, and one body that is none. *)
(***************************************************************************)
EXTENDS CppAuction, MCDatabases, TLC

ThreadSymmetry == Permutations(Threads)

MCBodies == {Full, Short}
MCAnyBodies == {Full, Short, Broken}
MCBroken == {Broken}
MCNone == {}
MCOneBody == {Short}
=============================================================================
