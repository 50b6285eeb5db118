------------------------------- MODULE MCDbft -------------------------------
(* Two nodes; the producer's signature is missing on x.  There are three     *)
(* kinds of behaviour, told apart by where the nodes start:                  *)
(*   Behind      node 1 is master and proposes c; node 0, which lacks a and  *)
(*               b, asks for them, while a timeout may make it master;       *)
(*   Idle        nobody proposes anything and node 1 times out twice;        *)
(*   otherwise   node 1 proposes nothing.  On e it is master and node 0      *)
(*               proposes d after a view change; on c nothing can be         *)
(*               proposed and the timers of both fire; on d node 0 is        *)
(*               master from the start and has only x.                       *)
(* Focus bounds what is combined with what.  It holds back timeouts, rounds  *)
(* and their results, of which no fairness is assumed, and nothing else.     *)
EXTENDS DbftCore, TLC

MCBlock == {"a", "b", "c", "d", "e", "x"}
MCParent == "a" :> "g" @@ "b" :> "a" @@ "c" :> "b" @@ "e" :> "a" @@ "d" :> "e" @@ "x" :> "d"
MCHeight == "g" :> 0 @@ "a" :> 1 @@ "b" :> 2 @@ "c" :> 3 @@ "e" :> 2 @@ "d" :> 3 @@ "x" :> 4

Both(S) == [n \in Node |-> S]
MCFirstChains ==
    {1 :> {"g", "a", "b"} @@ 0 :> {"g"}, Both({"g", "a", "b"}),
     Both({"g", "a", "e"}), Both({"g", "a", "b", "c"}), Both({"g", "a", "e", "d"})}
MCMaxRounds == [n \in Node |-> 1]
MCImpatient == ({1} \X AnyBlock) \cup {<<0, "g">>, <<0, "c">>}

Behind == tip = (1 :> "b" @@ 0 :> "g")
Idle == tip = Both("b")

Focus ==
    \/ /\ Behind
       /\ fired' \subseteq {<<0, 1>>}
       /\ rounds'[0] = 0
       /\ committing' = committing
       /\ \A w \in workers'[1] : w.pc \in {"request", "collect"}
    \/ Idle /\ rounds' = rounds
    \/ ~Behind /\ ~Idle /\ fired' \subseteq Node \X {1} /\ rounds'[1] = 0

FocusSpec == DbftInit /\ [][DbftNext /\ Focus]_dbftVars /\ DbftFairness
=============================================================================
