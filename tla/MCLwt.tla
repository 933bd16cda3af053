------------------------------- MODULE MCLwt -------------------------------
(* Instance of Lwt for TLC.  The blocks other than Main are interchangeable. *)
EXTENDS Lwt, TLC
Symmetry == Permutations(Thread \ {Main}) \cup Permutations(Value)
=============================================================================
