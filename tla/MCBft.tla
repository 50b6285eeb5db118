------------------------------- MODULE MCBft --------------------------------
(* One round of node 1, then two of node 0, which produces two rival blocks  *)
(* and one that is not valid.                                                *)
EXTENDS BftCore, TLC

MCBlock == {"a", "b", "c", "x"}
MCParent == [b \in MCBlock |-> IF b = "a" THEN "g" ELSE "a"]
MCHeight == [b \in MCBlock |-> IF b = "a" THEN 1 ELSE 2] @@ "g" :> 0
MCFirstChains == {[n \in Node |-> {"g"}]}
MCMaxRounds == 1 :> 1 @@ 0 :> 2
=============================================================================
