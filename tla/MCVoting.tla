------------------------------ MODULE MCVoting ------------------------------
(* Rival blocks a and b on genesis, a child of each, and a grandchild.       *)
EXTENDS Voting, TLC

MCBlock == {"a", "b", "c", "d", "e"}
MCParent == "a" :> "g" @@ "b" :> "g" @@ "c" :> "a" @@ "d" :> "b" @@ "e" :> "c"
MCHeight == "g" :> 0 @@ "a" :> 1 @@ "b" :> 1 @@ "c" :> 2 @@ "d" :> 2 @@ "e" :> 3
=============================================================================
