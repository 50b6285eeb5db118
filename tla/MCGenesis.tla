----------------------------- MODULE MCGenesis ------------------------------
(* A new network: every node is at genesis.                                  *)
EXTENDS Online

MCCurrentHeight == [n \in Node |-> 0]
MCFirstMaster == [n \in Node |-> RoleMaster(0)]
MCFirstView == [n \in Node |-> 0]
=============================================================================
