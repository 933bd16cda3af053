------------------------------ MODULE MCSlSched ------------------------------
(* Instances of SlSched for TLC: the scheduler thread and two others, of       *)
(* different priorities, or the second made at run time with either.           *)
EXTENDS SlSched, TLC
CONSTANTS s, a, b
PrioTwo == a :> 0 @@ b :> 1
=============================================================================
