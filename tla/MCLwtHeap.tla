----------------------------- MODULE MCLwtHeap -----------------------------
(* Instance of LwtHeap for TLC: an unbuffered channel and one of size 1.       *)
(* The threads other than Main are interchangeable.  Groups, nodes and         *)
(* parameters have their real lengths, 12, 16 and 16 bytes in words of four;   *)
(* threads and channels are scaled down.                                       *)
EXTENDS LwtHeap, TLC
CONSTANTS c1, c2
Caps == c1 :> 0 @@ c2 :> 1
Symmetry == Permutations(Thread \ {Main})
=============================================================================
