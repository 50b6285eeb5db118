------------------------------- MODULE Voting -------------------------------
(***************************************************************************)
(* What the FBFT policy promises about blocks, with masters, rounds, views *)
(* and messages left out: nodes sign blocks that extend what they have     *)
(* stored, and a repository grows by blocks that a quorum has signed.      *)
(*                                                                         *)
(* Nothing keeps a node from signing two blocks of one height, because     *)
(* receiveProposal keeps no lock on what it signed; so two certified       *)
(* blocks of the same height are possible and agreement on a height is not *)
(* promised.  What is promised is that such a fork cannot grow.            *)
(***************************************************************************)
EXTENDS Blocks

VARIABLES
    signed,   \* <<node, block>>: the node has signed the block
    chain,    \* per node, the blocks its repository has stored
    tip       \* per node, the repository's current block

votingVars == <<signed, chain, tip>>

Signers(b) == {n \in Node : <<n, b>> \in signed}
Certified(b) == Cardinality(Signers(b)) >= Quorum

VotingTypeOK ==
    /\ signed \subseteq Node \X Block
    /\ chain \in [Node -> SUBSET AnyBlock]
    /\ tip \in [Node -> AnyBlock]

Init ==
    /\ signed = {}
    /\ chain = [n \in Node |-> {Genesis}]
    /\ tip = [n \in Node |-> Genesis]

\* Faulty variant: the parent is not looked up.
SignBlindly(n, b) ==
    /\ signed' = signed \cup {<<n, b>>}
    /\ UNCHANGED <<chain, tip>>

\* VerifyPayload builds the repository at the parent, so it must be stored.
Sign(n, b) ==
    /\ Parent[b] \in chain[n]
    /\ signed' = signed \cup {<<n, b>>}
    /\ UNCHANGED <<chain, tip>>

\* Faulty variant: on top of any stored block instead of the current one.
StoreAnywhere(n, b) ==
    /\ Certified(b)
    /\ Parent[b] \in chain[n]
    /\ chain' = [chain EXCEPT ![n] = @ \cup {b}]
    /\ tip' = [tip EXCEPT ![n] = b]
    /\ UNCHANGED signed

\* A repository takes a block on top of its current one only.
Extend(n, b) ==
    /\ Parent[b] = tip[n]
    /\ chain' = [chain EXCEPT ![n] = @ \cup {b}]
    /\ tip' = [tip EXCEPT ![n] = b]
    /\ UNCHANGED signed

\* From the block switch, or from another node's repository.
Store(n, b) == Certified(b) /\ Extend(n, b)

Next ==
    \E n \in Node : \E b \in Block : Sign(n, b) \/ Store(n, b)

Spec == Init /\ [][Next]_votingVars

-----------------------------------------------------------------------------
(* Properties *)

\* Every stored block but the first one has been signed by a quorum.
ChainCertified ==
    \A n \in Node : \A b \in chain[n] \ {Genesis} : Certified(b)

\* The blocks a quorum has signed at one height all extend the same block,
\* although nodes may sign rival blocks: a fork is one block deep.
ParentAgreement ==
    \A b, c \in Block :
        Certified(b) /\ Certified(c) /\ Height[b] = Height[c] => Parent[b] = Parent[c]

\* A stored block is final once a successor is stored: below their current
\* blocks the repositories of any two nodes agree.
Finality ==
    \A m, n \in Node : \A b \in chain[m], c \in chain[n] :
        /\ Height[b] = Height[c]
        /\ Height[b] < Height[tip[m]]
        /\ Height[c] < Height[tip[n]]
        => b = c

\* A signature was made on top of a block the signer keeps: VerifyPayload
\* looked it up, and the repository forgets nothing.
SignedOnStored == \A v \in signed : Parent[v[2]] \in chain[v[1]]

\* A repository is a chain: one block per height up to its current block, and
\* every other block has a successor in it.
ChainShape ==
    \A n \in Node :
        /\ tip[n] \in chain[n]
        /\ \A b \in chain[n] : Height[b] <= Height[tip[n]]
        /\ \A b, c \in chain[n] : Height[b] = Height[c] => b = c
        /\ \A b \in chain[n] \ {tip[n]} : \E c \in chain[n] \cap Block : Parent[c] = b

\* The inductive invariants behind ParentAgreement and Finality.
LedgerInv == VotingTypeOK /\ SignedOnStored /\ ChainShape
VotingInv == LedgerInv /\ ChainCertified
=============================================================================
