------------------------------ MODULE MCRound -------------------------------
(* Two heights with successive masters, so that a node that misses the first *)
(* commit falls behind and has to synchronise; the bound of the content      *)
(* cache wraps around at the first of them and not at the second.  Instead   *)
(* of its ordinary block the first master may offer an empty one, one that   *)
(* the validator rejects or one that it forgot to sign.                      *)
EXTENDS FbftCore, TLC

MCBlock == {"a", "b", "c", "u", "x"}
MCParent == "a" :> "g" @@ "b" :> "g" @@ "c" :> "a" @@ "u" :> "g" @@ "x" :> "g"
MCProducer == "a" :> 0 @@ "b" :> 0 @@ "c" :> 1 @@ "u" :> 0 @@ "x" :> 0
MCHeight == "g" :> 8 @@ "a" :> 9 @@ "b" :> 9 @@ "c" :> 10 @@ "u" :> 9 @@ "x" :> 9
MCMaxRounds == [n \in Node |-> 1]
MCNoRounds == [n \in Node |-> 0]

(* Every node has handled its first notification before anything else        *)
(* happens; with MaxStarts = 0 that starts no timer.                         *)
ToldInit ==
    /\ Fresh
    /\ events = [n \in Node |-> {}]
    /\ producing = [n \in Node |-> n = master[n]]
ToldSpec == ToldInit /\ [][Next]_vars
=============================================================================
