------------------------------ MODULE MCLwtV1 ------------------------------
(* Instances of LwtV1 for TLC: one channel, that holds one message.  The       *)
(* threads other than Main are interchangeable.                                *)
EXTENDS LwtV1, TLC
CONSTANT c1
Caps == c1 :> 1
Symmetry == Permutations(Thread \ {Main})
=============================================================================
