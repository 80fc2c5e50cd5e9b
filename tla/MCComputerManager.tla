------------------------- MODULE MCComputerManager -------------------------
(***************************************************************************)
(* Two polling threads (a replaced one and its successor) and, for the     *)
(* safety properties, one adding thread and two tuple objects (the computer *)
(* is removed and found again).  Threads and tuples are interchangeable.   *)
(***************************************************************************)
EXTENDS ComputerManager, TLC

Symmetry == Permutations(Pollers) \cup Permutations(Tuples)
=============================================================================
