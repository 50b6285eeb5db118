------------------------------- MODULE Peers -------------------------------
(***************************************************************************)
(* The fixed set of consensus participants of galaxy and the arithmetic    *)
(* every policy does on it: how many signatures or view-change requests    *)
(* are enough, which account a set of requests elects, and which account   *)
(* the DPOS role assignment makes master of the next height.               *)
(*                                                                         *)
(* An account is represented by its Extension.Id.  The participants of the *)
(* repository's own deployments and tests are numbered 0 .. N-1, which is  *)
(* what RoleAssignments relies on when it looks for id (height+1) % N.     *)
(***************************************************************************)
EXTENDS Integers, FiniteSets

CONSTANT N      \* len(peers)

\* The thresholds are computed in uint8, so a network has fewer than 256 peers.
ASSUME NAssumption == N \in 1 .. 255

Node == 0 .. (N - 1)

\* Faulty variant: half of the peers instead of a third.
TolerateHalf == N \div 2

\* Number of peers that may be silent: uint8((len(peers) - 1) / 3).
Tolerance == (N - 1) \div 3

\* uint8(len(peers)) - tolerance: signatures of a block, requests of a view.
Quorum == N - Tolerance

\* utils.GetAccountWithMinId: the account a non-empty set of requests elects.
AccountWithMinId(S) == CHOOSE i \in S : \A j \in S : i <= j

\* Faulty variant: participants counted from one.
RoleMasterBeyond(h) == (h % N) + 1

\* DPOSPolicy.RoleAssignments: the master of the block after height h.
RoleMaster(h) == (h + 1) % N

\* utils.Abs on two view numbers, as used by AddViewRequest.
Abs(x, y) == IF x >= y THEN x - y ELSE y - x
=============================================================================
