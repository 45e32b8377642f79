--------------------------- MODULE MCClientRegistry ----------------------------
(***************************************************************************)
(* Small instances of ClientRegistry: two or three processes over two or   *)
(* three GUIDs, so that documents may share a GUID with each other or with *)
(* a client left by an earlier run, and two altitude attempts, so that the *)
(* retry both succeeds and runs out.                                       *)
(***************************************************************************)
EXTENDS ClientRegistry, TLC

Symmetry == Permutations(Procs) \cup Permutations(Ids)
================================================================================
