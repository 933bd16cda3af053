------------------------------ MODULE MCLwtChan ------------------------------
(* Instances of LwtChan for TLC: an unbuffered channel beside a buffered one,  *)
(* or alone, and the threads and messages that are interchangeable.          *)
EXTENDS LwtChan, TLC
CONSTANTS c1, c2
CapMixed == c1 :> 0 @@ c2 :> 2
CapSync  == c1 :> 0
Symmetry == Permutations(Thread \ {Main}) \cup Permutations(Data)
=============================================================================
