----------------------------- MODULE MCLwtKthd -----------------------------
(* Instance of LwtKthd for TLC: five blocks, two of them for each of the two   *)
(* kernel threads and one to create and to send, and a channel each way.       *)
EXTENDS LwtKthd, TLC
CONSTANTS c1, c2, d1, b1, b2, b3, b4, b5, k1, k2
OneAndNone == c1 :> 1 @@ c2 :> 0
LwtData    == {d1} \cup Thread
EachWay    == c1 :> k2 @@ c2 :> k1
BlockRank  == b1 :> 0 @@ b2 :> 1 @@ b3 :> 2 @@ b4 :> 3 @@ b5 :> 4 @@ k1 :> 0 @@ k2 :> 1
=============================================================================
