------------------------------- MODULE Blocks -------------------------------
(***************************************************************************)
(* The blocks the nodes may agree on.  A block is identified with its      *)
(* MixDigest; of its header only PrevBlockHash and Height matter here.     *)
(***************************************************************************)
EXTENDS Peers

CONSTANTS
    Block,      \* the blocks that may be produced
    Genesis,    \* the block every node has stored initially
    Parent,     \* Header.PrevBlockHash
    Height      \* Header.Height

AnyBlock == Block \cup {Genesis}

ASSUME BlockAssumption ==
    /\ Genesis \notin Block
    /\ Parent \in [Block -> AnyBlock]
    /\ Height \in [AnyBlock -> Nat]
    /\ \A b \in Block : Height[b] = Height[Parent[b]] + 1
=============================================================================
