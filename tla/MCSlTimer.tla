------------------------------ MODULE MCSlTimer ------------------------------
(* Instances of SlTimer for TLC: the scheduler thread and two others, of       *)
(* different priorities.                                                       *)
EXTENDS SlTimer, TLC
CONSTANTS s, a, b
PrioTwo == a :> 0 @@ b :> 1
=============================================================================
