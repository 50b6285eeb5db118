---------------------------- MODULE VotingProofs ----------------------------
(***************************************************************************)
(* Proofs about the voting protocol of module Voting.                      *)
(***************************************************************************)
EXTENDS Voting, FiniteSetTheorems, TLAPS

\* Sets of nodes are finite, and there are N nodes.
LEMMA NodesFinite ==
    /\ IsFiniteSet(Node) /\ Cardinality(Node) = N
    /\ \A S \in SUBSET Node : IsFiniteSet(S) /\ Cardinality(S) \in Nat
<1>1. N \in Int /\ 0 \in Int /\ N - 1 \in Int
  BY NAssumption
<1>2. IsFiniteSet(Node) /\ Cardinality(Node) = N
  BY <1>1, FS_Interval, NAssumption DEF Node
<1>3. ASSUME NEW S \in SUBSET Node PROVE IsFiniteSet(S) /\ Cardinality(S) \in Nat
  BY <1>2, FS_Subset, FS_CardinalityType
<1> QED BY <1>2, <1>3

\* More than half of the nodes are in a quorum, because at most a third is
\* tolerated to be missing.
LEMMA QuorumIsMajority == Quorum \in Nat /\ Quorum >= 1 /\ Quorum + Quorum > N
  BY NAssumption DEF Quorum, Tolerance

\* Any two sets of signers that satisfy maybeCommit share a node.
LEMMA QuorumsIntersect ==
    ASSUME NEW S \in SUBSET Node, NEW T \in SUBSET Node,
           Cardinality(S) >= Quorum, Cardinality(T) >= Quorum
    PROVE  \E n \in Node : n \in S /\ n \in T
<1>1. Cardinality(S) + Cardinality(T) > Cardinality(Node)
  BY NodesFinite, QuorumIsMajority
<1>2. S \cap T # {}
  BY <1>1, NodesFinite, FS_MajoritiesIntersect
<1> QED BY <1>2

-----------------------------------------------------------------------------
(* VotingInv is inductive *)

\* Signatures only accumulate, so a certified block stays certified.
LEMMA CertifiedStable ==
    ASSUME NEW b \in Block, Certified(b), signed \subseteq signed'
    PROVE  Certified(b)'
<1>1. Signers(b) \in SUBSET Node /\ Signers(b)' \in SUBSET Node
  BY DEF Signers
<1>2. Signers(b) \subseteq Signers(b)'
  BY DEF Signers
<1>3. Cardinality(Signers(b)) <= Cardinality(Signers(b)')
  BY <1>1, <1>2, NodesFinite, FS_Subset
<1>4. /\ Cardinality(Signers(b)) \in Nat /\ Cardinality(Signers(b)') \in Nat
      /\ Quorum \in Nat
  BY <1>1, NodesFinite, QuorumIsMajority
<1> QED BY <1>3, <1>4 DEF Certified

LEMMA VotingInit == Init => VotingInv
  BY BlockAssumption DEF Init, VotingInv, LedgerInv, VotingTypeOK, SignedOnStored, ChainShape,
     ChainCertified, AnyBlock

LEMMA SignKeepsLedger ==
    ASSUME LedgerInv, NEW n \in Node, NEW b \in Block, Sign(n, b)
    PROVE  LedgerInv'
<1> USE DEF LedgerInv, Sign
<1>1. VotingTypeOK'
  BY DEF VotingTypeOK
<1>2. SignedOnStored'
  BY DEF SignedOnStored, VotingTypeOK
<1>3. ChainShape'
  BY DEF ChainShape
<1> QED BY <1>1, <1>2, <1>3

\* A repository stays a chain whatever block it is given.
LEMMA ExtendKeepsLedger ==
    ASSUME LedgerInv, NEW n \in Node, NEW b \in Block, Extend(n, b)
    PROVE  LedgerInv'
<1> USE DEF LedgerInv, Extend
<1>1. VotingTypeOK'
  BY DEF VotingTypeOK, AnyBlock
<1>2. SignedOnStored'
  BY DEF SignedOnStored, VotingTypeOK
<1>3. ChainShape'
  <2>1. /\ chain \in [Node -> SUBSET AnyBlock] /\ tip \in [Node -> AnyBlock]
        /\ Height[b] = Height[tip[n]] + 1 /\ b \in AnyBlock
        /\ Height \in [AnyBlock -> Nat]
    BY BlockAssumption DEF VotingTypeOK, AnyBlock
  <2>2. SUFFICES ASSUME NEW m \in Node
        PROVE  /\ tip'[m] \in chain'[m]
               /\ \A c \in chain'[m] : Height[c] <= Height[tip'[m]]
               /\ \A c, d \in chain'[m] : Height[c] = Height[d] => c = d
               /\ \A c \in chain'[m] \ {tip'[m]} : \E d \in chain'[m] \cap Block : Parent[d] = c
    BY DEF ChainShape
  <2>3. CASE m # n
    BY <2>1, <2>3 DEF ChainShape
  <2>4. CASE m = n
    <3>1. chain'[m] = chain[n] \cup {b} /\ tip'[m] = b
      BY <2>1, <2>4
    <3>2. \A c \in chain[n] : c \in AnyBlock /\ Height[c] \in Nat /\ Height[c] < Height[b]
      BY <2>1 DEF ChainShape
    <3>3. \A c \in chain'[m] : Height[c] <= Height[tip'[m]]
      BY <2>1, <3>1, <3>2
    <3>4. \A c, d \in chain'[m] : Height[c] = Height[d] => c = d
      BY <2>1, <3>1, <3>2 DEF ChainShape
    <3>5. ASSUME NEW c \in chain'[m] \ {tip'[m]}
          PROVE  \E d \in chain'[m] \cap Block : Parent[d] = c
      <4>1. CASE c = tip[n]
        BY <4>1, <3>1
      <4>2. CASE c # tip[n]
        <5>1. PICK d \in chain[n] \cap Block : Parent[d] = c
          BY <4>2, <3>1 DEF ChainShape
        <5> QED BY <5>1, <3>1
      <4> QED BY <4>1, <4>2
    <3> QED BY <3>1, <3>3, <3>4, <3>5
  <2> QED BY <2>3, <2>4
<1> QED BY <1>1, <1>2, <1>3

\* A step that adds at most certified blocks keeps the repositories certified.
LEMMA CertifiedStep ==
    ASSUME VotingInv, signed \subseteq signed',
           \A m \in Node : \A c \in chain'[m] : c \in chain[m] \/ (c \in Block /\ Certified(c))
    PROVE  ChainCertified'
<1> SUFFICES ASSUME NEW m \in Node, NEW c \in chain'[m] \ {Genesis} PROVE Certified(c)'
  BY DEF ChainCertified
<1>1. c \in Block /\ Certified(c)
  BY DEF VotingInv, LedgerInv, ChainCertified, VotingTypeOK, AnyBlock
<1> QED BY <1>1, CertifiedStable

LEMMA SignPreserves ==
    ASSUME VotingInv, NEW n \in Node, NEW b \in Block, Sign(n, b)
    PROVE  VotingInv'
<1>1. ChainCertified'
  BY CertifiedStep DEF Sign
<1> QED BY <1>1, SignKeepsLedger DEF VotingInv

LEMMA StorePreserves ==
    ASSUME VotingInv, NEW n \in Node, NEW b \in Block, Store(n, b)
    PROVE  VotingInv'
<1>1. \A m \in Node : \A c \in chain'[m] : c \in chain[m] \/ c = b
  BY DEF VotingInv, LedgerInv, VotingTypeOK, Store, Extend
<1>2. ChainCertified'
  BY <1>1, CertifiedStep DEF Store, Extend
<1> QED BY <1>2, ExtendKeepsLedger DEF Store, VotingInv

LEMMA LedgerKept == LedgerInv /\ UNCHANGED votingVars => LedgerInv'
  BY DEF votingVars, LedgerInv, VotingTypeOK, SignedOnStored, ChainShape

LEMMA VotingInvStep == VotingInv /\ [Next]_votingVars => VotingInv'
<1> SUFFICES ASSUME VotingInv, [Next]_votingVars PROVE VotingInv'
  OBVIOUS
<1>1. CASE Next
  BY <1>1, SignPreserves, StorePreserves DEF Next
<1>2. CASE UNCHANGED votingVars
  BY <1>2, LedgerKept DEF votingVars, VotingInv, ChainCertified, Certified, Signers
<1> QED BY <1>1, <1>2

\* The invariant holds in every state of every behaviour of the protocol, for
\* any number of nodes and any tree of blocks.
THEOREM VotingInvariant == Spec => []VotingInv
  BY VotingInvStep, VotingInit, PTL DEF Spec

-----------------------------------------------------------------------------
(* What the invariant gives *)

\* This needs no certified repositories.
LEMMA LedgerImpliesParentAgreement == LedgerInv => ParentAgreement
<1> SUFFICES ASSUME LedgerInv, NEW b \in Block, NEW c \in Block,
                    Certified(b), Certified(c), Height[b] = Height[c]
             PROVE  Parent[b] = Parent[c]
  BY DEF ParentAgreement
<1>1. PICK n \in Node : n \in Signers(b) /\ n \in Signers(c)
  BY QuorumsIntersect DEF Certified, Signers
<1>2. Parent[b] \in chain[n] /\ Parent[c] \in chain[n]
  BY <1>1 DEF Signers, LedgerInv, SignedOnStored
<1>3. Height[Parent[b]] = Height[Parent[c]]
  BY BlockAssumption
<1> QED BY <1>2, <1>3 DEF LedgerInv, ChainShape

LEMMA InvImpliesParentAgreement == VotingInv => ParentAgreement
  BY LedgerImpliesParentAgreement DEF VotingInv

LEMMA InvImpliesFinality == VotingInv => Finality
<1> SUFFICES ASSUME VotingInv, NEW m \in Node, NEW n \in Node,
                    NEW b \in chain[m], NEW c \in chain[n],
                    Height[b] = Height[c],
                    Height[b] < Height[tip[m]], Height[c] < Height[tip[n]]
             PROVE  b = c
  BY DEF Finality
<1>0. /\ chain[m] \subseteq AnyBlock /\ chain[n] \subseteq AnyBlock
      /\ tip[m] \in AnyBlock /\ tip[n] \in AnyBlock
  BY DEF VotingInv, LedgerInv, VotingTypeOK
<1>1. b # tip[m] /\ c # tip[n]
  BY <1>0, BlockAssumption
<1>2. PICK d \in chain[m] \cap Block : Parent[d] = b
  BY <1>1 DEF VotingInv, LedgerInv, ChainShape
<1>3. PICK e \in chain[n] \cap Block : Parent[e] = c
  BY <1>1 DEF VotingInv, LedgerInv, ChainShape
<1>4. Certified(d) /\ Certified(e)
  BY <1>2, <1>3, BlockAssumption DEF VotingInv, ChainCertified
<1>5. Height[d] = Height[e]
  BY <1>2, <1>3, BlockAssumption
<1> QED BY <1>2, <1>3, <1>4, <1>5, InvImpliesParentAgreement DEF ParentAgreement

\* Blocks certified at one height extend the same block, although a node may
\* sign rival blocks of a height.
THEOREM ParentAgreementHolds == Spec => []ParentAgreement
  BY VotingInvariant, InvImpliesParentAgreement, PTL

\* A stored block that has a stored successor is the same in all repositories.
THEOREM FinalityHolds == Spec => []Finality
  BY VotingInvariant, InvImpliesFinality, PTL
=============================================================================
