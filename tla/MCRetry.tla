------------------------------ MODULE MCRetry -------------------------------
(* A master that may retry its block a or offer b instead, or u, which it     *)
(* forgot to sign, at the last height for which the bound of the content      *)
(* cache wraps around.                                                        *)
EXTENDS FbftCore, TLC

MCBlock == {"a", "b", "u"}
MCParent == "a" :> "g" @@ "b" :> "g" @@ "u" :> "g"
MCProducer == "a" :> 1 @@ "b" :> 1 @@ "u" :> 1
MCHeight == "g" :> 8 @@ "a" :> 9 @@ "b" :> 9 @@ "u" :> 9
MCMaxRounds == [n \in Node |-> 2]
=============================================================================
