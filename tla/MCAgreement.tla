---------------------------- MODULE MCAgreement -----------------------------
(***************************************************************************)
(* Behaviours of FbftCore in which every commit message is lost: the       *)
(* master, node 1, has its block a signed by nodes 0 and 2, hands it over  *)
(* and stops; then the others time out, change the view one after the      *)
(* other, and go on with a new master.  AgreementNext only restricts which *)
(* node takes the next step of FbftCore, so each of its behaviours is one  *)
(* of FbftCore.                                                            *)
(***************************************************************************)
EXTENDS FbftCore, TLC

MCBlock == {"a", "b"}
MCParent == "a" :> "g" @@ "b" :> "g"
MCProducer == "a" :> 1 @@ "b" :> 0
MCHeight == "g" :> 0 @@ "a" :> 1 @@ "b" :> 1
MCMaxRounds == [n \in Node |-> 1]

Others == {0, 2, 3}

Turn ==
    LET starting == {n \in Node : "Online" \in events[n]}
        waiting == {n \in Others : <<n, 1>> \notin asked}
        behind == {n \in Others : view[n] = 0}
    IN  IF starting # {} THEN {AccountWithMinId(starting)}
        ELSE IF handed[1] = {} THEN {0, 1, 2}
        ELSE IF waiting # {} THEN {AccountWithMinId(waiting)}
        ELSE IF behind # {} THEN {AccountWithMinId(behind)}
        ELSE Others

AgreementNext ==
    /\ \E n \in Turn : Step(n)
    /\ commits \subseteq commits'
    /\ (handed[1] = {} \/ Others \X {1} \subseteq asked) => timer' = timer

AgreementSpec == Init /\ [][AgreementNext]_vars /\ Fairness
=============================================================================
