------------------------------ MODULE MCRejoin ------------------------------
(* Four nodes of which node 1, the first master, has crashed.  The nodes in  *)
(* Running have moved to view 1 and master 0, and node 2 has stored a block  *)
(* that node 0 has not; the nodes outside Running restart from genesis.      *)
EXTENDS Online

MCCurrentHeight == [n \in Node |-> IF n = 2 THEN 1 ELSE 0]
MCFirstMaster == [n \in Node |-> IF n \in Running THEN 0 ELSE RoleMaster(0)]
MCFirstView == [n \in Node |-> IF n \in Running THEN 1 ELSE 0]
=============================================================================
