----------------------------- MODULE BftProofs ------------------------------
(***************************************************************************)
(* What the rounds of BFT guarantee for any number of nodes, any tree of   *)
(* blocks and any bounds.  RoundInv is the inductive invariant; its groups *)
(* depend on few variables each, so that an action has to be looked at     *)
(* only for the groups it can disturb.                                     *)
(***************************************************************************)
EXTENDS BftCore, FiniteSetTheorems, TLAPS

\* Module Voting is instantiated with the same constants, so its copies of the
\* shared operators are the operators themselves.
LEMMA SameNodes == Vote!Node = Node /\ Vote!Quorum = Quorum
  BY DEF Vote!Node, Node, Vote!Quorum, Quorum, Vote!Tolerance, Tolerance

LEMMA SameCardinality == \A S : Vote!Cardinality(S) = Cardinality(S)
  BY DEF Vote!Cardinality, Cardinality

LEMMA NodeFacts ==
    /\ IsFiniteSet(Node) /\ Cardinality(Node) = N
    /\ Quorum \in Nat /\ Quorum <= N
<1>1. IsFiniteSet(Node) /\ Cardinality(Node) = N
  BY NAssumption, FS_Interval DEF Node
<1>2. Quorum \in Nat /\ Quorum <= N
  BY NAssumption DEF Quorum, Tolerance
<1> QED BY <1>1, <1>2

LEMMA CertifiedMeaning ==
    ASSUME NEW b
    PROVE  /\ Vote!Signers(b) \in SUBSET Node /\ Vote!Signers(b)' \in SUBSET Node
           /\ Vote!Certified(b) <=> Cardinality(Vote!Signers(b)) >= Quorum
           /\ Vote!Certified(b)' <=> Cardinality(Vote!Signers(b)') >= Quorum
<1>1. Vote!Signers(b) \in SUBSET Node /\ Vote!Signers(b)' \in SUBSET Node
  BY SameNodes DEF Vote!Signers
<1>2. Vote!Certified(b) <=> Cardinality(Vote!Signers(b)) >= Quorum
  BY SameNodes, SameCardinality DEF Vote!Certified
<1>3. Vote!Certified(b)' <=> Cardinality(Vote!Signers(b)') >= Quorum
  BY SameNodes, SameCardinality DEF Vote!Certified
<1> QED BY <1>1, <1>2, <1>3

\* A block that enough nodes have signed is certified.
LEMMA EnoughSigners ==
    ASSUME NEW b, NEW S \in SUBSET Vote!Signers(b), Cardinality(S) >= Quorum
    PROVE  Vote!Certified(b)
<1>1. IsFiniteSet(Vote!Signers(b))
  BY CertifiedMeaning, NodeFacts, FS_Subset
<1>2. /\ Cardinality(S) \in Nat /\ Cardinality(Vote!Signers(b)) \in Nat
      /\ Cardinality(S) <= Cardinality(Vote!Signers(b))
  BY <1>1, FS_Subset, FS_CardinalityType
<1> QED BY <1>2, CertifiedMeaning, NodeFacts

\* Nobody takes a signature back.
LEMMA CertifiedKept ==
    ASSUME signed \subseteq signed', NEW b
    PROVE  /\ Vote!Signers(b) \subseteq Vote!Signers(b)'
           /\ Vote!Certified(b) => Vote!Certified(b)'
<1>1. Vote!Signers(b) \subseteq Vote!Signers(b)' /\ Vote!Signers(b)' \in SUBSET Node
  BY CertifiedMeaning DEF Vote!Signers
<1>2. IsFiniteSet(Vote!Signers(b)')
  BY <1>1, NodeFacts, FS_Subset
<1>3. /\ Cardinality(Vote!Signers(b)) \in Nat /\ Cardinality(Vote!Signers(b)') \in Nat
      /\ Cardinality(Vote!Signers(b)) <= Cardinality(Vote!Signers(b)')
  BY <1>1, <1>2, FS_Subset, FS_CardinalityType
<1> QED BY <1>1, <1>3, CertifiedMeaning, NodeFacts

LEMMA SignersMeaning == \A b, n : n \in Vote!Signers(b) <=> n \in Node /\ <<n, b>> \in signed
  BY SameNodes DEF Vote!Signers

\* The signatures maybeCommit counts were made for the current digest.
LEMMA CountedSigned ==
    ASSUME SignaturesMade, NEW n \in Node
    PROVE  ReallySignature(n) \in SUBSET Vote!Signers(digest[n])
  BY SignersMeaning DEF SignaturesMade, ReallySignature

-----------------------------------------------------------------------------
(* What survives a step that leaves a group's variables alone *)

\* Signatures, stored and verified blocks are only added, and a node that has
\* abandoned a round has done so for good.
Grows ==
    /\ signed \subseteq signed'
    /\ \A n \in Node : /\ chain[n] \subseteq chain'[n]
                       /\ validator[n] \subseteq validator'[n]
                       /\ abandoned[n] => abandoned'[n]

LEMMA SignaturesKept ==
    ASSUME SignaturesMade, Grows, responses' \subseteq responses,
           UNCHANGED <<signMap, validator, replying>>
    PROVE  SignaturesMade'
  BY DEF SignaturesMade, Grows

LEMMA WorkersKept ==
    ASSUME WorkersCurrent, Grows, UNCHANGED <<workers, policy, digest>>
    PROVE  WorkersCurrent'
<1> SUFFICES ASSUME NEW n \in Node, NEW w \in workers[n]
             PROVE  /\ w.ok => Vote!Certified(w.of)' /\ w.pc \in {"lock", "send"}
                    /\ \/ abandoned'[n]
                       \/ /\ workers[n] = {w}
                          /\ w.block = policy[n]
                          /\ w.pc # "request" => w.block \in validator'[n] /\ digest[n] = w.block
                          /\ w.ok => w.of = w.block
  BY DEF WorkersCurrent
<1>1. Vote!Certified(w.of) => Vote!Certified(w.of)'
  BY CertifiedKept DEF Grows
<1> QED BY <1>1 DEF WorkersCurrent, Grows

LEMMA OutcomesKept ==
    ASSUME OutcomesCertified, Grows, UNCHANGED committing, commits' \subseteq commits,
           \A n \in Node : policy'[n] \in {policy[n], None}, commits \subseteq Commit
    PROVE  OutcomesCertified'
<1>1. \A n \in Node : policy'[n] # None => Parent[policy'[n]] \in chain'[n]
  BY DEF OutcomesCertified, Grows
<1>2. \A b : Vote!Certified(b) => Vote!Certified(b)'
  BY CertifiedKept DEF Grows
<1>3. ASSUME NEW n \in Node, NEW c \in committing[n]
      PROVE  /\ Parent[c.block] \in chain'[n]
             /\ c.result => \/ abandoned'[n]
                            \/ Vote!Certified(c.block)' /\ c.block \in validator'[n]
  BY <1>2 DEF OutcomesCertified, Grows
<1>4. ASSUME NEW m \in commits', m.result
      PROVE  \/ Vote!Certified(m.block)'
             \/ abandoned'[m.from] /\ <<m.from, m.block>> \in signed'
  BY <1>2, <1>4 DEF OutcomesCertified, Grows, Commit
<1> QED BY <1>1, <1>3, <1>4 DEF OutcomesCertified

LEMMA LedgerKept ==
    ASSUME Ledger, Grows, UNCHANGED <<chain, tip>> PROVE Ledger'
<1>1. \A n \in Node : tip'[n] \in chain'[n]
  BY DEF Ledger
<1>2. StoredVerified'
  BY DEF Ledger, StoredVerified, Grows
<1>3. CertifiedUnlessAbandoned'
  <2> SUFFICES ASSUME NEW n \in Node, NEW b \in chain[n] \ {Genesis}
               PROVE  Vote!Certified(b)' \/ \E m \in Vote!Signers(b)' : abandoned'[m]
    BY DEF CertifiedUnlessAbandoned
  <2>1. Vote!Certified(b) \/ \E m \in Vote!Signers(b) : abandoned[m]
    BY DEF Ledger, CertifiedUnlessAbandoned
  <2> QED BY <2>1, CertifiedKept, CertifiedMeaning DEF Grows
<1> QED BY <1>1, <1>2, <1>3 DEF Ledger

-----------------------------------------------------------------------------
(* RoundInv is inductive: the calls of the upper layer *)

LEMMA RoleMasterType == ASSUME NEW h \in Nat PROVE RoleMaster(h) \in Node
  BY NAssumption DEF RoleMaster, Node

\* A worker whose block nobody waits for belongs to an abandoned round.
LEMMA IdleOrAbandoned ==
    ASSUME RoundInv, NEW n \in Node, policy[n] = None
    PROVE  abandoned[n] \/ workers[n] = {}
<1> SUFFICES ASSUME NEW w \in workers[n], ~abandoned[n] PROVE FALSE
  OBVIOUS
<1>1. w.block = policy[n]
  BY DEF RoundInv, WorkersCurrent
<1>2. w.block \in Block
  BY DEF RoundInv, BftTypeOK, Worker
<1> QED BY <1>1, <1>2, BftAssumption DEF AnyBlock

LEMMA NextRoundKeeps ==
    ASSUME RoundInv, NEW n \in Node, NextRound(n) PROVE RoundInv'
<1>1. PICK e \in events[n] :
          /\ events' = [events EXCEPT ![n] = @ \ {e}]
          /\ StartRound(n, IF e \in {"ConsensusFailed", "MasterChange"} THEN master[n]
                           ELSE RoleMaster(Height[tip[n]]))
  BY DEF NextRound, RoundAfter
<1> DEFINE m == IF e \in {"ConsensusFailed", "MasterChange"} THEN master[n]
                ELSE RoleMaster(Height[tip[n]])
<1>2. m \in Account
  <2>1. Height[tip[n]] \in Nat
    BY BlockAssumption DEF RoundInv, BftTypeOK
  <2> QED BY <2>1, RoleMasterType DEF RoundInv, BftTypeOK, Account
<1>3. /\ policy[n] = None
      /\ Initialization(n, m)
      /\ UNCHANGED <<blocked, replying, committing, ledgerVars, signed, abandoned, crashed,
                     netVars>>
  BY <1>1 DEF StartRound
<1> HIDE DEF m
<1>4. Grows
  BY <1>3 DEF Grows, Initialization, ledgerVars
<1>5. SignaturesMade'
  BY <1>3, <1>4 DEF RoundInv, BftTypeOK, SignaturesMade, Initialization, netVars
<1>6. Ledger'
  BY <1>3, <1>4, LedgerKept DEF RoundInv, ledgerVars
<1>7. CASE UNCHANGED <<policy, rounds, workers>>
  <2>1. BftTypeOK'
    BY <1>1, <1>2, <1>3, <1>7
    DEF RoundInv, BftTypeOK, Initialization, ledgerVars, netVars, BlockOrNone
  <2>2. WorkersCurrent'
    BY <1>3, <1>4, <1>7, WorkersKept DEF RoundInv, Initialization
  <2>3. OutcomesCertified'
    BY <1>3, <1>4, <1>7, OutcomesKept DEF RoundInv, BftTypeOK, netVars
  <2> QED BY <1>5, <1>6, <2>1, <2>2, <2>3 DEF RoundInv
<1>8. CASE \E b \in Block : Parent[b] = tip[n] /\ ToConsensus(n, b)
  <2>1. PICK b \in Block : Parent[b] = tip[n] /\ ToConsensus(n, b)
    BY <1>8
  <2> DEFINE w0 == [block |-> b, round |-> rounds[n] + 1, pc |-> "request", ok |-> FALSE,
                    of |-> None]
  <2>2. /\ policy' = [policy EXCEPT ![n] = b]
        /\ rounds' = [rounds EXCEPT ![n] = @ + 1]
        /\ workers' = [workers EXCEPT ![n] = @ \cup {w0}]
    BY <2>1 DEF ToConsensus
  <2>3. w0 \in Worker
    BY DEF RoundInv, BftTypeOK, Worker, BlockOrNone
  <2> HIDE DEF w0
  <2>4. BftTypeOK'
    BY <1>1, <1>2, <1>3, <2>2, <2>3
    DEF RoundInv, BftTypeOK, Initialization, ledgerVars, netVars, BlockOrNone
  <2>5. WorkersCurrent'
    <3> SUFFICES ASSUME NEW k \in Node, NEW w \in workers'[k]
                 PROVE  /\ w.ok => Vote!Certified(w.of)' /\ w.pc \in {"lock", "send"}
                        /\ \/ abandoned'[k]
                           \/ /\ workers'[k] = {w}
                              /\ w.block = policy'[k]
                              /\ w.pc # "request" =>
                                    w.block \in validator'[k] /\ digest'[k] = w.block
                              /\ w.ok => w.of = w.block
      BY DEF WorkersCurrent
    <3>1. UNCHANGED <<abandoned, validator, digest>>
      BY <1>3 DEF Initialization
    <3>2. CASE w \in workers[k]
      <4>1. w.ok => Vote!Certified(w.of)' /\ w.pc \in {"lock", "send"}
        BY <1>4, <3>2, CertifiedKept DEF RoundInv, WorkersCurrent, Grows
      <4>2. CASE k = n
        BY <1>3, <3>1, <3>2, <4>1, <4>2, IdleOrAbandoned
      <4>3. CASE k # n
        <5>1. workers'[k] = workers[k] /\ policy'[k] = policy[k]
          BY <2>2, <4>3 DEF RoundInv, BftTypeOK
        <5> QED BY <3>1, <3>2, <4>1, <5>1 DEF RoundInv, WorkersCurrent
      <4> QED BY <4>2, <4>3
    <3>3. CASE w \notin workers[k]
      <4>1. k = n /\ w = w0 /\ policy'[n] = b
        BY <2>2, <3>3 DEF RoundInv, BftTypeOK
      <4>2. abandoned[n] \/ workers'[n] = {w0}
        BY <1>3, <2>2, IdleOrAbandoned DEF RoundInv, BftTypeOK
      <4> QED BY <3>1, <4>1, <4>2 DEF w0
    <3> QED BY <3>2, <3>3
  <2>6. OutcomesCertified'
    <3>1. \A k \in Node : policy'[k] # None => Parent[policy'[k]] \in chain'[k]
      BY <1>3, <2>1, <2>2 DEF RoundInv, BftTypeOK, OutcomesCertified, Ledger, ledgerVars
    <3>2. \A c : Vote!Certified(c) => Vote!Certified(c)'
      BY <1>4, CertifiedKept DEF Grows
    <3>3. UNCHANGED <<committing, commits, chain, abandoned, validator, signed>>
      BY <1>3 DEF Initialization, ledgerVars, netVars
    <3> QED BY <3>1, <3>2, <3>3 DEF RoundInv, OutcomesCertified
  <2> QED BY <1>5, <1>6, <2>4, <2>5, <2>6 DEF RoundInv
<1> QED BY <1>1, <1>7, <1>8 DEF StartRound

LEMMA DeliverResultKeeps ==
    ASSUME RoundInv, NEW n \in Node, DeliverResult(n) PROVE RoundInv'
<1>1. PICK w \in workers[n] :
          /\ w.pc = "send"
          /\ workers' = [workers EXCEPT ![n] = @ \ {w}]
          /\ committing' = [committing EXCEPT ![n] = @ \cup
                {[block |-> policy[n], result |-> w.ok, of |-> w.of]}]
  BY DEF DeliverResult
<1>2. /\ policy[n] # None
      /\ policy' = [policy EXCEPT ![n] = None]
      /\ UNCHANGED <<master, signVars, blocked, replying, rounds, abandoned, events, ledgerVars,
                     signed, crashed, netVars>>
  BY DEF DeliverResult
<1> DEFINE c0 == [block |-> policy[n], result |-> w.ok, of |-> w.of]
<1>3. c0 \in Outcome
  BY <1>2 DEF RoundInv, BftTypeOK, Outcome, Worker, BlockOrNone
<1>4. committing' = [committing EXCEPT ![n] = @ \cup {c0}]
  BY <1>1
<1>5. c0.block = policy[n] /\ c0.result = w.ok
  OBVIOUS
<1> HIDE DEF c0
<1>6. Grows
  BY <1>2 DEF Grows, signVars, ledgerVars
<1>7. BftTypeOK'
  BY <1>1, <1>2, <1>3, <1>4
  DEF RoundInv, BftTypeOK, signVars, ledgerVars, netVars, BlockOrNone
<1>8. SignaturesMade'
  BY <1>2, <1>6, SignaturesKept DEF RoundInv, signVars, netVars
<1>9. WorkersCurrent'
  <2>1. \A b : Vote!Certified(b) => Vote!Certified(b)'
    BY <1>6, CertifiedKept DEF Grows
  <2>2. abandoned[n] \/ workers'[n] = {}
    BY <1>1 DEF RoundInv, BftTypeOK, WorkersCurrent
  <2>3. \A k \in Node : k # n => workers'[k] = workers[k] /\ policy'[k] = policy[k]
    BY <1>1, <1>2 DEF RoundInv, BftTypeOK
  <2>4. workers'[n] \subseteq workers[n]
    BY <1>1 DEF RoundInv, BftTypeOK
  <2>5. UNCHANGED <<abandoned, validator, digest>>
    BY <1>2 DEF signVars
  <2> QED BY <2>1, <2>2, <2>3, <2>4, <2>5 DEF RoundInv, WorkersCurrent
<1>10. OutcomesCertified'
  <2>1. \A b : Vote!Certified(b) => Vote!Certified(b)'
    BY <1>6, CertifiedKept DEF Grows
  <2>2. /\ Parent[c0.block] \in chain[n]
        /\ c0.result => \/ abandoned[n]
                        \/ Vote!Certified(c0.block) /\ c0.block \in validator[n]
    BY <1>1, <1>2, <1>5 DEF RoundInv, WorkersCurrent, OutcomesCertified
  <2>3. UNCHANGED <<chain, abandoned, validator, signed, commits>>
    BY <1>2 DEF signVars, ledgerVars, netVars
  <2>4. \A k \in Node : policy'[k] \in {policy[k], None}
    BY <1>2 DEF RoundInv, BftTypeOK
  <2>5. \A k \in Node : \A c \in committing'[k] : c \in committing[k] \/ (k = n /\ c = c0)
    BY <1>4 DEF RoundInv, BftTypeOK
  <2> QED BY <2>1, <2>2, <2>3, <2>4, <2>5 DEF RoundInv, OutcomesCertified
<1>11. Ledger'
  BY <1>2, <1>6, LedgerKept DEF RoundInv, ledgerVars
<1> QED BY <1>7, <1>8, <1>9, <1>10, <1>11 DEF RoundInv

LEMMA WaitTimeoutKeeps ==
    ASSUME RoundInv, NEW n \in Node, WaitTimeout(n) PROVE RoundInv'
<1> DEFINE c0 == [block |-> policy[n], result |-> FALSE, of |-> None]
<1>1. /\ policy[n] # None
      /\ policy' = [policy EXCEPT ![n] = None]
      /\ committing' = [committing EXCEPT ![n] = @ \cup {c0}]
      /\ abandoned' = [abandoned EXCEPT ![n] = @ \/ workers[n] # {}]
      /\ UNCHANGED <<master, signVars, blocked, replying, rounds, workers, events, ledgerVars,
                     signed, crashed, netVars>>
  BY DEF WaitTimeout
<1>2. c0 \in Outcome
  BY <1>1 DEF RoundInv, BftTypeOK, Outcome, BlockOrNone
<1>3. c0.block = policy[n] /\ c0.result = FALSE
  OBVIOUS
<1> HIDE DEF c0
<1>4. Grows
  BY <1>1 DEF Grows, signVars, ledgerVars, RoundInv, BftTypeOK
<1>5. BftTypeOK'
  BY <1>1, <1>2 DEF RoundInv, BftTypeOK, signVars, ledgerVars, netVars, BlockOrNone
<1>6. SignaturesMade'
  BY <1>1, <1>4, SignaturesKept DEF RoundInv, signVars, netVars
<1>7. WorkersCurrent'
  <2>1. \A b : Vote!Certified(b) => Vote!Certified(b)'
    BY <1>4, CertifiedKept DEF Grows
  <2>2. abandoned'[n] \/ workers[n] = {}
    BY <1>1 DEF RoundInv, BftTypeOK
  <2>3. \A k \in Node : k # n => abandoned'[k] = abandoned[k] /\ policy'[k] = policy[k]
    BY <1>1 DEF RoundInv, BftTypeOK
  <2>4. UNCHANGED <<workers, validator, digest>>
    BY <1>1 DEF signVars
  <2> QED BY <2>1, <2>2, <2>3, <2>4 DEF RoundInv, WorkersCurrent
<1>8. OutcomesCertified'
  <2>1. \A b : Vote!Certified(b) => Vote!Certified(b)'
    BY <1>4, CertifiedKept DEF Grows
  <2>2. Parent[c0.block] \in chain[n]
    BY <1>1, <1>3 DEF RoundInv, OutcomesCertified
  <2>3. UNCHANGED <<chain, validator, signed, commits>>
    BY <1>1 DEF signVars, ledgerVars, netVars
  <2>4. \A k \in Node : policy'[k] \in {policy[k], None}
    BY <1>1 DEF RoundInv, BftTypeOK
  <2>5. \A k \in Node : \A c \in committing'[k] : c \in committing[k] \/ (k = n /\ c = c0)
    BY <1>1 DEF RoundInv, BftTypeOK
  <2>6. \A m \in commits : m.from \in Node
    BY DEF RoundInv, BftTypeOK, Commit
  <2> QED BY <1>3, <1>4, <2>1, <2>2, <2>3, <2>4, <2>5, <2>6
          DEF RoundInv, OutcomesCertified, Grows
<1>9. Ledger'
  BY <1>1, <1>4, LedgerKept DEF RoundInv, ledgerVars
<1> QED BY <1>5, <1>6, <1>7, <1>8, <1>9 DEF RoundInv

-----------------------------------------------------------------------------
(* RoundInv is inductive: receiveRequest and waitResponse *)

\* A worker moves on: what has to hold of its next state.
LEMMA AdvanceKeeps ==
    ASSUME RoundInv, Grows, NEW n \in Node, NEW w \in workers[n], NEW v, Advance(n, w, v),
           UNCHANGED <<policy, abandoned>>, \A k \in Node \ {n} : digest'[k] = digest[k],
           v.block = w.block,
           v.ok => Vote!Certified(v.of)' /\ v.pc \in {"lock", "send"},
           \/ abandoned[n]
           \/ /\ v.pc # "request" => v.block \in validator'[n] /\ digest'[n] = v.block
              /\ v.ok => v.of = v.block
    PROVE  WorkersCurrent'
<1>1. \A b : Vote!Certified(b) => Vote!Certified(b)'
  BY CertifiedKept DEF Grows
<1>2. workers' = [workers EXCEPT ![n] = (@ \ {w}) \cup {v}]
  BY DEF Advance
<1>3. \A k \in Node : k # n => workers'[k] = workers[k]
  BY <1>2 DEF RoundInv, BftTypeOK
<1>4. workers'[n] = (workers[n] \ {w}) \cup {v}
  BY <1>2 DEF RoundInv, BftTypeOK
<1>5. abandoned[n] \/ (workers[n] = {w} /\ w.block = policy[n])
  BY DEF RoundInv, WorkersCurrent
<1> SUFFICES ASSUME NEW k \in Node, NEW u \in workers'[k]
             PROVE  /\ u.ok => Vote!Certified(u.of)' /\ u.pc \in {"lock", "send"}
                    /\ \/ abandoned'[k]
                       \/ /\ workers'[k] = {u}
                          /\ u.block = policy'[k]
                          /\ u.pc # "request" =>
                                u.block \in validator'[k] /\ digest'[k] = u.block
                          /\ u.ok => u.of = u.block
  BY DEF WorkersCurrent
<1>6. CASE k # n
  BY <1>1, <1>3, <1>6 DEF RoundInv, WorkersCurrent, Grows
<1>7. CASE k = n /\ u = v
  BY <1>4, <1>5, <1>7
<1>8. CASE k = n /\ u # v
  <2>1. u \in workers[n] /\ abandoned[n]
    BY <1>4, <1>5, <1>8
  <2> QED BY <1>1, <1>8, <2>1 DEF RoundInv, WorkersCurrent
<1> QED BY <1>6, <1>7, <1>8

LEMMA RequestRefusedKeeps ==
    ASSUME RoundInv, NEW n \in Node, NEW w \in workers[n], RequestRefused(n, w),
           UNCHANGED <<master, blocked, replying, callVars, committing, events, ledgerVars,
                       netVars>>, UNCHANGED crashed
    PROVE  RoundInv'
<1>1. /\ workers' = [workers EXCEPT ![n] = @ \ {w}]
      /\ UNCHANGED <<signVars, signed>>
  BY DEF RequestRefused
<1>2. Grows
  BY <1>1 DEF Grows, signVars, callVars, ledgerVars
<1>3. BftTypeOK'
  BY <1>1 DEF RoundInv, BftTypeOK, signVars, callVars, ledgerVars, netVars
<1>4. SignaturesMade'
  BY <1>1, <1>2, SignaturesKept DEF RoundInv, signVars, netVars
<1>5. WorkersCurrent'
  <2>1. \A b : Vote!Certified(b) => Vote!Certified(b)'
    BY <1>2, CertifiedKept DEF Grows
  <2>2. abandoned[n] \/ workers'[n] = {}
    BY <1>1 DEF RoundInv, BftTypeOK, WorkersCurrent
  <2>3. /\ workers'[n] \subseteq workers[n]
        /\ \A k \in Node : k # n => workers'[k] = workers[k]
    BY <1>1 DEF RoundInv, BftTypeOK
  <2>4. UNCHANGED <<abandoned, validator, digest, policy>>
    BY <1>1 DEF signVars, callVars
  <2> QED BY <2>1, <2>2, <2>3, <2>4 DEF RoundInv, WorkersCurrent
<1>6. OutcomesCertified'
  BY <1>2, OutcomesKept DEF RoundInv, BftTypeOK, callVars, netVars
<1>7. Ledger'
  BY <1>2, LedgerKept DEF RoundInv, ledgerVars
<1> QED BY <1>3, <1>4, <1>5, <1>6, <1>7 DEF RoundInv

\* However the proposal is broadcast.
LEMMA RequestAcceptedKeeps ==
    ASSUME RoundInv, NEW n \in Node, NEW w \in workers[n], w.pc = "request",
           RequestAccepted(n, w), proposals' \subseteq Proposal,
           UNCHANGED <<master, blocked, replying, callVars, committing, events, ledgerVars, crashed,
                       responses, commits>>
    PROVE  RoundInv'
<1> DEFINE v == [w EXCEPT !.pc = "collect"]
<1>1. /\ Advance(n, w, v)
      /\ signed' = signed \cup {<<n, w.block>>}
      /\ validator' = [validator EXCEPT ![n] = @ \cup {w.block}]
      /\ digest' = [digest EXCEPT ![n] = w.block]
      /\ signMap' = [signMap EXCEPT ![n][n] = w.block]
      /\ signatures' = [signatures EXCEPT ![n] = @ + 1]
      /\ UNCHANGED commit
  BY DEF RequestAccepted, AddSignature
<1>2. w \in Worker
  BY DEF RoundInv, BftTypeOK
<1>3. v \in Worker /\ v.block = w.block /\ v.pc = "collect" /\ v.ok = w.ok
  BY <1>2 DEF Worker
<1>4. ~w.ok
  BY DEF RoundInv, WorkersCurrent
<1> HIDE DEF v
<1>5. Grows
  BY <1>1 DEF Grows, callVars, ledgerVars, RoundInv, BftTypeOK
<1>6. BftTypeOK'
  <2>1. w.block \in Block
    BY <1>2 DEF Worker
  <2>2. workers' \in [Node -> SUBSET Worker]
    BY <1>1, <1>3 DEF RoundInv, BftTypeOK, Advance
  <2>3. signMap' \in [Node -> [Node -> BlockOrNone]]
    BY <1>1, <2>1 DEF RoundInv, BftTypeOK, BlockOrNone
  <2> QED BY <1>1, <2>1, <2>2, <2>3
          DEF RoundInv, BftTypeOK, callVars, ledgerVars, BlockOrNone
<1>7. SignaturesMade'
  <2>1. \A k, q \in Node : signMap'[k][q] = IF k = n /\ q = n THEN w.block ELSE signMap[k][q]
    BY <1>1 DEF RoundInv, BftTypeOK
  <2>2. \A k \in Node : \A b \in validator'[k] : b \in validator[k] \/ (k = n /\ b = w.block)
    BY <1>1 DEF RoundInv, BftTypeOK
  <2> QED BY <1>1, <2>1, <2>2 DEF RoundInv, SignaturesMade
<1>8. WorkersCurrent'
  <2>1. /\ \A k \in Node \ {n} : digest'[k] = digest[k]
        /\ digest'[n] = w.block /\ w.block \in validator'[n]
    BY <1>1 DEF RoundInv, BftTypeOK
  <2> QED BY <1>1, <1>3, <1>4, <1>5, <2>1, AdvanceKeeps DEF callVars
<1>9. OutcomesCertified'
  BY <1>5, OutcomesKept DEF RoundInv, BftTypeOK, callVars
<1>10. Ledger'
  BY <1>5, LedgerKept DEF RoundInv, ledgerVars
<1> QED BY <1>6, <1>7, <1>8, <1>9, <1>10 DEF RoundInv

LEMMA ReceiveRequestKeeps ==
    ASSUME RoundInv, NEW n \in Node, ReceiveRequest(n) PROVE RoundInv'
<1>1. PICK w \in workers[n] :
          /\ w.pc = "request"
          /\ \/ RequestRefused(n, w) /\ UNCHANGED proposals
             \/ RequestAccepted(n, w) /\ proposals' = proposals \cup Proposals(n, w.block)
  BY DEF ReceiveRequest
<1>2. UNCHANGED <<master, blocked, replying, callVars, committing, events, ledgerVars, crashed,
                  responses, commits>>
  BY DEF ReceiveRequest
<1>3. CASE RequestRefused(n, w) /\ UNCHANGED proposals
  BY <1>2, <1>3, RequestRefusedKeeps DEF netVars
<1>4. CASE RequestAccepted(n, w) /\ proposals' = proposals \cup Proposals(n, w.block)
  <2>1. w.block \in Block
    BY DEF RoundInv, BftTypeOK, Worker
  <2>2. Proposals(n, w.block) \subseteq Proposal
    BY <2>1 DEF Proposals, Proposal, Peer
  <2>3. proposals' \subseteq Proposal
    BY <1>4, <2>2 DEF RoundInv, BftTypeOK
  <2> QED BY <1>1, <1>2, <1>4, <2>3, RequestAcceptedKeeps
<1> QED BY <1>1, <1>3, <1>4

\* A step of a waitResponse that has signed its block.
LEMMA WaitResponseKeeps ==
    ASSUME RoundInv, NEW n \in Node, NEW w \in workers[n], w.pc # "request",
           NEW v \in Worker, Advance(n, w, v), v.block = w.block,
           v.ok => v.pc \in {"lock", "send"} /\ Vote!Certified(v.of),
           \/ v.ok = w.ok /\ v.of = w.of
           \/ v.of = digest[n],
           commit' \in [Node -> BOOLEAN], blocked' \in [Node -> Nat],
           UNCHANGED <<master, digest, signMap, signatures, validator, replying, callVars, committing,
                       events, ledgerVars, signed, crashed, netVars>>
    PROVE  RoundInv'
<1>1. Grows
  BY DEF Grows, callVars, ledgerVars
<1>2. workers' \in [Node -> SUBSET Worker]
  BY DEF RoundInv, BftTypeOK, Advance
<1>3. BftTypeOK'
  BY <1>2 DEF RoundInv, BftTypeOK, callVars, ledgerVars, netVars
<1>4. SignaturesMade'
  BY <1>1, SignaturesKept DEF RoundInv, netVars
<1>5. WorkersCurrent'
  <2>1. v.ok => Vote!Certified(v.of)' /\ v.pc \in {"lock", "send"}
    BY <1>1, CertifiedKept DEF Grows
  <2>2. \/ abandoned[n]
        \/ /\ w.block \in validator[n] /\ digest[n] = w.block
           /\ w.ok => w.of = w.block
    BY DEF RoundInv, WorkersCurrent
  <2> QED BY <1>1, <2>1, <2>2, AdvanceKeeps DEF callVars
<1>6. OutcomesCertified'
  BY <1>1, OutcomesKept DEF RoundInv, BftTypeOK, callVars, netVars
<1>7. Ledger'
  BY <1>1, LedgerKept DEF RoundInv, ledgerVars
<1> QED BY <1>3, <1>4, <1>5, <1>6, <1>7 DEF RoundInv

LEMMA TakeTunnelKeeps ==
    ASSUME RoundInv, NEW n \in Node, TakeTunnel(n) PROVE RoundInv'
<1>1. PICK w \in workers[n] :
          /\ w.pc = "collect"
          /\ IF ReallySignature(n) = Node
             THEN Advance(n, w, [w EXCEPT !.pc = "lock", !.ok = TRUE, !.of = digest[n]])
             ELSE UNCHANGED workers
  BY DEF TakeTunnel
<1>2. /\ blocked' = [blocked EXCEPT ![n] = @ - 1]
      /\ blocked[n] > 0
      /\ UNCHANGED <<master, signVars, replying, callVars, committing, events, ledgerVars, signed,
                     crashed, netVars>>
  BY DEF TakeTunnel
<1>3. blocked' \in [Node -> Nat]
  BY <1>2 DEF RoundInv, BftTypeOK
<1>4. CASE ReallySignature(n) = Node
  <2> DEFINE v == [w EXCEPT !.pc = "lock", !.ok = TRUE, !.of = digest[n]]
  <2>a. w \in Worker /\ digest[n] \in BlockOrNone
    BY DEF RoundInv, BftTypeOK
  <2>b. Advance(n, w, v)
    BY <1>1, <1>4
  <2>1. v \in Worker /\ v.block = w.block /\ v.pc = "lock" /\ v.of = digest[n]
    BY <2>a DEF Worker
  <2> HIDE DEF v
  <2>2. Vote!Certified(digest[n])
    BY <1>4, CountedSigned, EnoughSigners, NodeFacts, NAssumption DEF RoundInv
  <2>3. commit' \in [Node -> BOOLEAN] /\ UNCHANGED <<master, digest, signMap, signatures,
           validator, replying, callVars, committing, events, ledgerVars, signed, crashed, netVars>>
    BY <1>2 DEF RoundInv, BftTypeOK, signVars
  <2>4. w.pc # "request"
    BY <1>1
  <2> QED BY <1>3, <2>b, <2>1, <2>2, <2>3, <2>4, WaitResponseKeeps
<1>5. CASE ReallySignature(n) # Node
  <2>1. UNCHANGED workers
    BY <1>1, <1>5
  <2>2. Grows
    BY <1>2 DEF Grows, signVars, callVars, ledgerVars
  <2>3. BftTypeOK'
    BY <1>2, <1>3, <2>1 DEF RoundInv, BftTypeOK, signVars, callVars, ledgerVars, netVars
  <2>4. SignaturesMade' /\ WorkersCurrent'
    BY <1>2, <2>1, <2>2, SignaturesKept, WorkersKept DEF RoundInv, signVars, callVars, netVars
  <2>5. OutcomesCertified' /\ Ledger'
    BY <1>2, <2>2, OutcomesKept, LedgerKept
    DEF RoundInv, BftTypeOK, callVars, ledgerVars, netVars
  <2> QED BY <2>3, <2>4, <2>5 DEF RoundInv
<1> QED BY <1>4, <1>5

LEMMA CollectTimeoutKeeps ==
    ASSUME RoundInv, NEW n \in Node, CollectTimeout(n) PROVE RoundInv'
<1>1. PICK w \in workers[n] :
          /\ w.pc = "collect"
          /\ Advance(n, w, [w EXCEPT !.pc = "lock", !.ok = MaybeCommit(n), !.of = digest[n]])
  BY DEF CollectTimeout
<1> DEFINE v == [w EXCEPT !.pc = "lock", !.ok = MaybeCommit(n), !.of = digest[n]]
<1>2. MaybeCommit(n) \in BOOLEAN
  BY DEF MaybeCommit
<1>a. w \in Worker /\ digest[n] \in BlockOrNone
  BY DEF RoundInv, BftTypeOK
<1>b. Advance(n, w, v)
  BY <1>1
<1>3. /\ v \in Worker /\ v.block = w.block /\ v.pc = "lock" /\ v.ok = MaybeCommit(n)
      /\ v.of = digest[n]
  BY <1>a, <1>2 DEF Worker
<1> HIDE DEF v
<1>4. MaybeCommit(n) => Vote!Certified(digest[n])
  BY CountedSigned, EnoughSigners DEF RoundInv, MaybeCommit
<1>5. UNCHANGED <<master, signVars, blocked, replying, callVars, committing, events, ledgerVars,
                  signed, crashed, netVars>>
  BY DEF CollectTimeout
<1>6. /\ commit' \in [Node -> BOOLEAN] /\ blocked' \in [Node -> Nat] /\ w.pc # "request"
      /\ UNCHANGED <<master, digest, signMap, signatures, validator, replying, callVars, committing,
                     events, ledgerVars, signed, crashed, netVars>>
  BY <1>1, <1>5 DEF RoundInv, BftTypeOK, signVars
<1> QED BY <1>b, <1>3, <1>4, <1>6, WaitResponseKeeps

LEMMA SetCommittedKeeps ==
    ASSUME RoundInv, NEW n \in Node, SetCommitted(n) PROVE RoundInv'
<1>1. PICK w \in workers[n] : w.pc = "lock" /\ Advance(n, w, [w EXCEPT !.pc = "send"])
  BY DEF SetCommitted
<1> DEFINE v == [w EXCEPT !.pc = "send"]
<1>a. w \in Worker
  BY DEF RoundInv, BftTypeOK
<1>b. Advance(n, w, v)
  BY <1>1
<1>2. v \in Worker /\ v.block = w.block /\ v.pc = "send" /\ v.ok = w.ok /\ v.of = w.of
  BY <1>a DEF Worker
<1> HIDE DEF v
<1>3. w.ok => Vote!Certified(w.of)
  BY DEF RoundInv, WorkersCurrent
<1>4. /\ commit' = [commit EXCEPT ![n] = TRUE]
      /\ UNCHANGED <<master, digest, signMap, signatures, validator, blocked, replying, callVars,
                     committing, events, ledgerVars, signed, crashed, netVars>>
  BY DEF SetCommitted
<1>5. commit' \in [Node -> BOOLEAN] /\ blocked' \in [Node -> Nat] /\ w.pc # "request"
  BY <1>1, <1>4 DEF RoundInv, BftTypeOK
<1> QED BY <1>b, <1>2, <1>3, <1>4, <1>5, WaitResponseKeeps

-----------------------------------------------------------------------------
(* RoundInv is inductive: messages between the nodes *)

\* A proposal is signed; what becomes of it in the network does not matter.
LEMMA SignProposalKeeps ==
    ASSUME RoundInv, NEW n \in Node, NEW b \in Block, SignProposal(n, b),
           proposals' \subseteq Proposal,
           UNCHANGED <<master, commit, digest, signMap, signatures, blocked, callVars, workers,
                       committing, events, ledgerVars, crashed, responses, commits>>
    PROVE  RoundInv'
<1>1. /\ signed' = signed \cup {<<n, b>>}
      /\ validator' = [validator EXCEPT ![n] = @ \cup {b}]
      /\ replying' = [replying EXCEPT ![n] = @ \cup {b}]
  BY DEF SignProposal
<1>2. Grows
  BY <1>1 DEF Grows, callVars, ledgerVars, RoundInv, BftTypeOK
<1>3. BftTypeOK'
  BY <1>1 DEF RoundInv, BftTypeOK, callVars, ledgerVars
<1>4. SignaturesMade'
  <2>1. \A k \in Node : \A c \in validator'[k] \cup replying'[k] :
            c \in validator[k] \cup replying[k] \/ (k = n /\ c = b)
    BY <1>1 DEF RoundInv, BftTypeOK
  <2> QED BY <1>1, <2>1 DEF RoundInv, SignaturesMade
<1>5. WorkersCurrent' /\ OutcomesCertified' /\ Ledger'
  BY <1>2, WorkersKept, OutcomesKept, LedgerKept
  DEF RoundInv, BftTypeOK, callVars, ledgerVars
<1> QED BY <1>3, <1>4, <1>5 DEF RoundInv

LEMMA ReceiveProposalKeeps ==
    ASSUME RoundInv, NEW n \in Node, ReceiveProposal(n) PROVE RoundInv'
<1>1. PICK m \in proposals :
          /\ SignProposal(n, m.block)
          /\ proposals' = proposals \ {m}
          /\ UNCHANGED <<master, commit, digest, signMap, signatures, blocked, callVars,
                         workers, committing, events, ledgerVars, crashed, responses, commits>>
  BY DEF ReceiveProposal
<1>2. m.block \in Block /\ proposals' \subseteq Proposal
  BY <1>1 DEF RoundInv, BftTypeOK, Proposal
<1> QED BY <1>1, <1>2, SignProposalKeeps

LEMMA SendReplyKeeps ==
    ASSUME RoundInv, NEW n \in Node, SendReply(n) PROVE RoundInv'
<1>1. PICK b \in replying[n] :
          /\ replying' = [replying EXCEPT ![n] = @ \ {b}]
          /\ responses' = responses \cup {[block |-> b, from |-> n, to |-> master[n]]}
          /\ UNCHANGED <<master, signVars, blocked, callVars, workers, committing, events,
                         ledgerVars, signed, crashed, proposals, commits>>
  BY DEF SendReply
<1>2. b \in Block /\ <<n, b>> \in signed
  BY DEF RoundInv, BftTypeOK, SignaturesMade
<1>3. Grows
  BY <1>1 DEF Grows, signVars, callVars, ledgerVars
<1>4. BftTypeOK'
  BY <1>1, <1>2 DEF RoundInv, BftTypeOK, signVars, callVars, ledgerVars, Response
<1>5. SignaturesMade'
  <2>1. \A k \in Node : replying'[k] \subseteq replying[k]
    BY <1>1 DEF RoundInv, BftTypeOK
  <2> QED BY <1>1, <1>2, <2>1 DEF RoundInv, SignaturesMade, signVars
<1>6. WorkersCurrent' /\ OutcomesCertified' /\ Ledger'
  BY <1>1, <1>3, WorkersKept, OutcomesKept, LedgerKept
  DEF RoundInv, BftTypeOK, signVars, callVars, ledgerVars
<1> QED BY <1>4, <1>5, <1>6 DEF RoundInv

LEMMA ReceiveResponseKeeps ==
    ASSUME RoundInv, NEW n \in Node, ReceiveResponse(n) PROVE RoundInv'
<1>1. PICK m \in responses :
          /\ signMap' = [signMap EXCEPT ![n][m.from] = m.block]
          /\ signatures' = [signatures EXCEPT ![n] = @ + 1]
          /\ blocked' = [blocked EXCEPT ![n] = @ + 1]
          /\ responses' = responses \ {m}
          /\ UNCHANGED <<master, commit, digest, validator, replying, callVars, workers, committing,
                         events, ledgerVars, signed, crashed, proposals, commits>>
  BY DEF ReceiveResponse, AddSignature
<1>2. m.from \in Node /\ m.block \in Block
  BY DEF RoundInv, BftTypeOK, Response
<1>3. Grows
  BY <1>1 DEF Grows, callVars, ledgerVars
<1>4. BftTypeOK'
  <2>1. signMap' \in [Node -> [Node -> BlockOrNone]]
    BY <1>1, <1>2 DEF RoundInv, BftTypeOK, BlockOrNone
  <2> QED BY <1>1, <2>1 DEF RoundInv, BftTypeOK, callVars, ledgerVars
<1>5. SignaturesMade'
  <2>1. \A k, q \in Node :
            signMap'[k][q] = IF k = n /\ q = m.from THEN m.block ELSE signMap[k][q]
    BY <1>1, <1>2 DEF RoundInv, BftTypeOK
  <2> QED BY <1>1, <2>1 DEF RoundInv, SignaturesMade
<1>6. WorkersCurrent' /\ OutcomesCertified' /\ Ledger'
  BY <1>1, <1>3, WorkersKept, OutcomesKept, LedgerKept
  DEF RoundInv, BftTypeOK, callVars, ledgerVars
<1> QED BY <1>4, <1>5, <1>6 DEF RoundInv

\* The repository stores a block that the node has signed, or leaves it.
LEMMA WriteBlockKeeps ==
    ASSUME RoundInv, NEW n \in Node, NEW b \in Block, WriteBlock(n, b),
           UNCHANGED <<signed, abandoned, validator>>, <<n, b>> \in signed,
           Vote!Certified(b) \/ \E m \in Vote!Signers(b) : abandoned[m]
    PROVE  /\ Grows /\ Ledger'
           /\ chain' \in [Node -> SUBSET AnyBlock] /\ tip' \in [Node -> AnyBlock]
           /\ events' \in [Node -> SUBSET Event]
<1>1. CASE Parent[b] # tip[n] /\ UNCHANGED <<chain, tip, events>>
  <2>1. Grows
    BY <1>1 DEF Grows
  <2> QED BY <1>1, <2>1, LedgerKept DEF RoundInv, BftTypeOK
<1>2. CASE /\ chain' = [chain EXCEPT ![n] = @ \cup {b}]
           /\ tip' = [tip EXCEPT ![n] = b]
           /\ Notify(n, "BlockCommitted")
  <2>1. /\ chain' \in [Node -> SUBSET AnyBlock] /\ tip' \in [Node -> AnyBlock]
        /\ events' \in [Node -> SUBSET Event]
    BY <1>2 DEF RoundInv, BftTypeOK, Notify, Event, AnyBlock
  <2>2. Grows
    BY <1>2 DEF Grows, RoundInv, BftTypeOK
  <2>3. \A k \in Node : \A c \in chain'[k] : c \in chain[k] \/ (k = n /\ c = b)
    BY <1>2 DEF RoundInv, BftTypeOK
  <2>4. \A k \in Node : tip'[k] \in chain'[k]
    BY <1>2 DEF RoundInv, BftTypeOK, Ledger
  <2>5. StoredVerified'
    BY <2>3 DEF RoundInv, Ledger, StoredVerified
  <2>6. CertifiedUnlessAbandoned'
    <3> SUFFICES ASSUME NEW k \in Node, NEW c \in chain'[k] \ {Genesis}
                 PROVE  Vote!Certified(c)' \/ \E m \in Vote!Signers(c)' : abandoned'[m]
      BY DEF CertifiedUnlessAbandoned
    <3>1. Vote!Certified(c) \/ \E m \in Vote!Signers(c) : abandoned[m]
      BY <2>3 DEF RoundInv, Ledger, CertifiedUnlessAbandoned
    <3> QED BY <3>1, CertifiedKept
  <2> QED BY <2>1, <2>2, <2>4, <2>5, <2>6 DEF Ledger
<1> QED BY <1>1, <1>2 DEF WriteBlock

LEMMA SendCommitKeeps ==
    ASSUME RoundInv, NEW n \in Node, SendCommit(n) PROVE RoundInv'
<1>1. PICK c \in committing[n] :
          /\ committing' = [committing EXCEPT ![n] = @ \ {c}]
          /\ \/ CommitPanics(n, c) /\ UNCHANGED commits
             \/ /\ CommitFailed(n, c) \/ CommitWritten(n, c)
                /\ commits' = commits \cup
                      {[block |-> c.block, from |-> n, to |-> p, result |-> c.result] :
                         p \in Peer(n)}
          /\ UNCHANGED <<master, signVars, blocked, replying, callVars, workers, signed, proposals,
                         responses>>
  BY DEF SendCommit
<1>2. c \in Outcome
  BY DEF RoundInv, BftTypeOK
<1>3. c.block \in Block /\ c.result \in BOOLEAN
  BY <1>2 DEF Outcome
<1>4. /\ Parent[c.block] \in chain[n]
      /\ c.result => \/ abandoned[n]
                     \/ Vote!Certified(c.block) /\ c.block \in validator[n]
  BY DEF RoundInv, OutcomesCertified
<1>5. UNCHANGED <<signed, abandoned, validator, replying, workers, policy, digest, signMap,
                  responses>>
  BY <1>1 DEF signVars, callVars
<1>6. /\ \A k \in Node : committing'[k] \subseteq committing[k]
      /\ committing' \in [Node -> SUBSET Outcome]
  BY <1>1 DEF RoundInv, BftTypeOK
<1>7. ASSUME Grows, Ledger', crashed' \subseteq Node,
             chain' \in [Node -> SUBSET AnyBlock], tip' \in [Node -> AnyBlock],
             events' \in [Node -> SUBSET Event], commits' \subseteq Commit,
             \A m \in commits' \ commits : m.result =>
                 \/ Vote!Certified(m.block)
                 \/ abandoned[m.from] /\ <<m.from, m.block>> \in signed
      PROVE  RoundInv'
  <2>1. BftTypeOK'
    BY <1>1, <1>6, <1>7 DEF RoundInv, BftTypeOK, signVars, callVars
  <2>2. SignaturesMade' /\ WorkersCurrent'
    BY <1>5, <1>7, SignaturesKept, WorkersKept DEF RoundInv
  <2>3. OutcomesCertified'
    <3>1. \A b : Vote!Certified(b) => Vote!Certified(b)'
      BY <1>7, CertifiedKept DEF Grows
    <3>2. \A k \in Node : policy'[k] # None => Parent[policy'[k]] \in chain'[k]
      BY <1>5, <1>7 DEF RoundInv, OutcomesCertified, Grows
    <3>3. ASSUME NEW k \in Node, NEW d \in committing'[k]
          PROVE  /\ Parent[d.block] \in chain'[k]
                 /\ d.result => \/ abandoned'[k]
                                \/ Vote!Certified(d.block)' /\ d.block \in validator'[k]
      BY <1>5, <1>6, <1>7, <3>1 DEF RoundInv, OutcomesCertified, Grows
    <3>4. ASSUME NEW m \in commits', m.result
          PROVE  \/ Vote!Certified(m.block)'
                 \/ abandoned'[m.from] /\ <<m.from, m.block>> \in signed'
      BY <1>5, <1>7, <3>1, <3>4 DEF RoundInv, OutcomesCertified
    <3> QED BY <3>2, <3>3, <3>4 DEF OutcomesCertified
  <2> QED BY <1>7, <2>1, <2>2, <2>3 DEF RoundInv
<1>8. CASE CommitPanics(n, c) /\ UNCHANGED commits
  <2>1. UNCHANGED <<chain, tip, events, commits>> /\ crashed' = crashed \cup {n}
    BY <1>8 DEF CommitPanics
  <2>2. Grows
    BY <1>5, <2>1 DEF Grows
  <2>3. Ledger'
    BY <2>1, <2>2, LedgerKept DEF RoundInv
  <2> QED BY <1>7, <2>1, <2>2, <2>3 DEF RoundInv, BftTypeOK
<1>9. ASSUME commits' = commits \cup
                 {[block |-> c.block, from |-> n, to |-> p, result |-> c.result] : p \in Peer(n)}
      PROVE  /\ commits' \subseteq Commit
             /\ \A m \in commits' \ commits : m.from = n /\ m.block = c.block /\ m.result = c.result
  BY <1>3, <1>9 DEF RoundInv, BftTypeOK, Commit, Peer
<1>10. CASE /\ CommitFailed(n, c)
            /\ commits' = commits \cup
                 {[block |-> c.block, from |-> n, to |-> p, result |-> c.result] : p \in Peer(n)}
  <2>1. UNCHANGED <<chain, tip, crashed>> /\ ~c.result /\ events' \in [Node -> SUBSET Event]
    BY <1>10 DEF CommitFailed, Notify, Event, RoundInv, BftTypeOK
  <2>2. Grows
    BY <1>5, <2>1 DEF Grows
  <2>3. Ledger'
    BY <2>1, <2>2, LedgerKept DEF RoundInv
  <2>4. /\ commits' \subseteq Commit
        /\ \A m \in commits' \ commits : ~m.result
    BY <1>9, <1>10, <2>1
  <2> QED BY <1>7, <2>1, <2>2, <2>3, <2>4 DEF RoundInv, BftTypeOK
<1>11. CASE /\ CommitWritten(n, c)
            /\ commits' = commits \cup
                 {[block |-> c.block, from |-> n, to |-> p, result |-> c.result] : p \in Peer(n)}
  <2>1. c.block \in validator[n] /\ c.result /\ WriteBlock(n, c.block) /\ UNCHANGED crashed
    BY <1>4, <1>11 DEF CommitWritten
  <2>2. <<n, c.block>> \in signed /\ n \in Vote!Signers(c.block)
    BY <2>1, SignersMeaning DEF RoundInv, SignaturesMade
  <2>3. Vote!Certified(c.block) \/ abandoned[n]
    BY <1>4, <2>1
  <2>4. /\ Grows /\ Ledger'
        /\ chain' \in [Node -> SUBSET AnyBlock] /\ tip' \in [Node -> AnyBlock]
        /\ events' \in [Node -> SUBSET Event]
    BY <1>3, <1>5, <2>1, <2>2, <2>3, WriteBlockKeeps
  <2>5. /\ commits' \subseteq Commit
        /\ \A m \in commits' \ commits : m.result =>
               \/ Vote!Certified(m.block)
               \/ abandoned[m.from] /\ <<m.from, m.block>> \in signed
    BY <1>9, <1>11, <2>2, <2>3
  <2> QED BY <1>7, <2>1, <2>4, <2>5 DEF RoundInv, BftTypeOK
<1> QED BY <1>1, <1>8, <1>10, <1>11

LEMMA ReceiveCommitKeeps ==
    ASSUME RoundInv, NEW n \in Node, ReceiveCommit(n) PROVE RoundInv'
<1>1. PICK m \in commits :
          /\ commits' = commits \ {m}
          /\ FailureTold(n, m) \/ (StoreCommitted(n, m) /\ UNCHANGED crashed)
          /\ UNCHANGED <<master, signVars, blocked, replying, callVars, workers, committing, signed,
                         proposals, responses>>
  BY DEF ReceiveCommit
<1>2. m.block \in Block /\ m.from \in Node
  BY DEF RoundInv, BftTypeOK, Commit
<1>3. UNCHANGED <<signed, abandoned, validator, replying, workers, policy, digest, signMap,
                  responses, committing>>
  BY <1>1 DEF signVars, callVars
<1>4. ASSUME Grows, Ledger', chain' \in [Node -> SUBSET AnyBlock], tip' \in [Node -> AnyBlock],
             events' \in [Node -> SUBSET Event], crashed' \subseteq Node
      PROVE  RoundInv'
  <2>1. BftTypeOK'
    BY <1>1, <1>4 DEF RoundInv, BftTypeOK, signVars, callVars
  <2>2. SignaturesMade' /\ WorkersCurrent' /\ OutcomesCertified'
    BY <1>1, <1>3, <1>4, SignaturesKept, WorkersKept, OutcomesKept DEF RoundInv, BftTypeOK
  <2> QED BY <1>4, <2>1, <2>2 DEF RoundInv
<1>5. CASE FailureTold(n, m)
  <2>1. /\ UNCHANGED <<chain, tip>> /\ events' \in [Node -> SUBSET Event]
        /\ crashed' \subseteq Node
    BY <1>5 DEF FailureTold, ledgerVars, Notify, Event, RoundInv, BftTypeOK
  <2>2. Grows
    BY <1>3, <2>1 DEF Grows
  <2> QED BY <1>4, <2>1, <2>2, LedgerKept DEF RoundInv, BftTypeOK
<1>6. CASE StoreCommitted(n, m) /\ UNCHANGED crashed
  <2>1. m.result /\ m.block \in validator[n] /\ WriteBlock(n, m.block)
    BY <1>6 DEF StoreCommitted
  <2>2. <<n, m.block>> \in signed
    BY <2>1 DEF RoundInv, SignaturesMade
  <2>3. Vote!Certified(m.block) \/ \E k \in Vote!Signers(m.block) : abandoned[k]
    BY <1>2, <2>1, SignersMeaning DEF RoundInv, OutcomesCertified
  <2> QED BY <1>2, <1>3, <1>4, <1>6, <2>1, <2>2, <2>3, WriteBlockKeeps DEF RoundInv, BftTypeOK
<1> QED BY <1>1, <1>5, <1>6

-----------------------------------------------------------------------------
(* The theorems *)

LEMMA InitRound == BftInit => RoundInv
<1> SUFFICES ASSUME BftInit PROVE RoundInv
  OBVIOUS
<1>1. /\ chain \in [Node -> SUBSET AnyBlock]
      /\ \A n \in Node : \E t \in chain[n] : \A b \in chain[n] : Height[b] <= Height[t]
  BY BftAssumption DEF BftInit
<1>2. \A n \in Node : Highest(chain[n]) \in chain[n]
  BY <1>1 DEF Highest
<1>3. tip = [n \in Node |-> Highest(chain[n])]
  BY DEF BftInit
<1>4. tip \in [Node -> AnyBlock] /\ \A n \in Node : tip[n] \in chain[n]
  BY <1>1, <1>2, <1>3
<1>5. signed = {v \in Node \X Block : \E n \in Node : v[2] \in chain[n]}
  BY DEF BftInit
<1>6. signed \subseteq Node \X Block
  BY <1>5
<1>7. BftTypeOK
  <2>1. master \in [Node -> Account]
    BY DEF BftInit, Account
  <2> QED BY <1>1, <1>4, <1>6, <2>1 DEF BftInit, BftTypeOK, BlockOrNone, Event
<1>8. SignaturesMade /\ WorkersCurrent /\ OutcomesCertified
  BY DEF BftInit, SignaturesMade, WorkersCurrent, OutcomesCertified
<1>9. \A n, p \in Node : \A b \in chain[p] \ {Genesis} : <<n, b>> \in signed
  BY <1>1, <1>5 DEF AnyBlock
<1>10. StoredVerified
  BY <1>9 DEF StoredVerified
<1>11. CertifiedUnlessAbandoned
  <2> SUFFICES ASSUME NEW n \in Node, NEW b \in chain[n] \ {Genesis} PROVE Vote!Certified(b)
    BY DEF CertifiedUnlessAbandoned
  <2>1. Node \in SUBSET Vote!Signers(b)
    BY <1>9, SignersMeaning
  <2>2. Cardinality(Node) >= Quorum
    BY NodeFacts, NAssumption
  <2> QED BY <2>1, <2>2, EnoughSigners
<1> QED BY <1>4, <1>7, <1>8, <1>10, <1>11 DEF RoundInv, Ledger

LEMMA StutterKeeps == ASSUME RoundInv, UNCHANGED bftVars PROVE RoundInv'
<1> USE DEF bftVars, signVars, callVars, ledgerVars, netVars
<1>1. Grows
  BY DEF Grows
<1>2. BftTypeOK'
  BY DEF RoundInv, BftTypeOK
<1>3. SignaturesMade' /\ WorkersCurrent' /\ OutcomesCertified' /\ Ledger'
  BY <1>1, SignaturesKept, WorkersKept, OutcomesKept, LedgerKept DEF RoundInv, BftTypeOK
<1> QED BY <1>2, <1>3 DEF RoundInv

LEMMA NextRoundInv == ASSUME RoundInv, [BftNext]_bftVars PROVE RoundInv'
<1>1. CASE UNCHANGED bftVars
  BY <1>1, StutterKeeps
<1>2. ASSUME NEW n \in Node, Local(n) PROVE RoundInv'
  BY <1>2, NextRoundKeeps, DeliverResultKeeps, WaitTimeoutKeeps, SendCommitKeeps,
     ReceiveRequestKeeps, TakeTunnelKeeps, CollectTimeoutKeeps, SetCommittedKeeps,
     SendReplyKeeps DEF Local
<1>3. ASSUME NEW n \in Node, Handle(n) PROVE RoundInv'
  BY <1>3, ReceiveProposalKeeps, ReceiveResponseKeeps, ReceiveCommitKeeps DEF Handle
<1> QED BY <1>1, <1>2, <1>3 DEF BftNext

\* The rounds of bft-core.go keep RoundInv: signatures, results, commit messages
\* and stored blocks belong together until a round is abandoned.
THEOREM BftRounds == BftSpec => []RoundInv
<1>1. BftInit => RoundInv
  BY InitRound
<1>2. RoundInv /\ [BftNext]_bftVars => RoundInv'
  BY NextRoundInv
<1> QED BY <1>1, <1>2, PTL DEF BftSpec

\* Every variable of the BFT policy stays in its type; in particular the master
\* is a peer or still the account nobody has.
THEOREM BftTypes == BftSpec => []BftTypeOK
<1>1. RoundInv => BftTypeOK
  BY DEF RoundInv
<1> QED BY <1>1, BftRounds, PTL

\* A node only stores blocks that it has verified and signed itself
\* (receiveCommit and commitBlock look them up in the validator).
THEOREM BftStoredVerified == BftSpec => []StoredVerified
<1>1. RoundInv => StoredVerified
  BY DEF RoundInv, Ledger
<1> QED BY <1>1, BftRounds, PTL

\* A stored block has a quorum of signatures unless one of its signers has
\* abandoned a round: the stale result is the only way around maybeCommit.
THEOREM BftCertified == BftSpec => []CertifiedUnlessAbandoned
<1>1. RoundInv => CertifiedUnlessAbandoned
  BY DEF RoundInv, Ledger
<1> QED BY <1>1, BftRounds, PTL

\* commitBlock ends a process only for a block that it was handed by such a stale
\* result, and a failed commit only before the first Initialization, which an
\* ended process does not get any more.
LEMMA CrashKeeps ==
    ASSUME RoundInv, RoundInv', CrashOnlyAbandoned, [BftNext]_bftVars
    PROVE  CrashOnlyAbandoned'
<1>1. CASE UNCHANGED bftVars
  BY <1>1 DEF bftVars, callVars, CrashOnlyAbandoned
<1>2. ASSUME UNCHANGED <<crashed, master>>, \A k \in Node : abandoned[k] => abandoned'[k]
      PROVE  CrashOnlyAbandoned'
  BY <1>2 DEF RoundInv, BftTypeOK, CrashOnlyAbandoned
<1>3. ASSUME NEW n \in Node, SendCommit(n) PROVE CrashOnlyAbandoned'
  <2>1. PICK c \in committing[n] :
            /\ CommitPanics(n, c) \/ CommitFailed(n, c) \/ CommitWritten(n, c)
            /\ UNCHANGED <<abandoned, master>>
    BY <1>3 DEF SendCommit, callVars
  <2>2. CASE CommitPanics(n, c)
    <3>1. abandoned[n] /\ crashed' = crashed \cup {n}
      BY <2>2 DEF CommitPanics, RoundInv, OutcomesCertified
    <3> QED BY <2>1, <3>1 DEF CrashOnlyAbandoned
  <2>3. CASE CommitFailed(n, c) \/ CommitWritten(n, c)
    BY <1>2, <2>1, <2>3 DEF CommitFailed, CommitWritten
  <2> QED BY <2>1, <2>2, <2>3
<1>4. ASSUME NEW n \in Node, ReceiveCommit(n) PROVE CrashOnlyAbandoned'
  <2>1. PICK m \in commits : /\ FailureTold(n, m) \/ UNCHANGED crashed
                             /\ UNCHANGED <<abandoned, master>>
    BY <1>4 DEF ReceiveCommit, callVars
  <2>2. UNCHANGED crashed \/ (master[n] = Nobody /\ crashed' = crashed \cup {n})
    BY <2>1 DEF FailureTold
  <2> QED BY <1>2, <2>1, <2>2 DEF CrashOnlyAbandoned
<1>5. ASSUME NEW n \in Node, WaitTimeout(n) PROVE CrashOnlyAbandoned'
  BY <1>2, <1>5 DEF WaitTimeout, RoundInv, BftTypeOK
\* Only a node that runs has a new master.
<1>6. ASSUME NEW n \in Node \ crashed, NextRound(n) PROVE CrashOnlyAbandoned'
  <2>1. UNCHANGED <<crashed, abandoned>>
    BY <1>6 DEF NextRound, RoundAfter, StartRound
  <2>2. PICK m : master' = [master EXCEPT ![n] = m]
    BY <1>6 DEF NextRound, RoundAfter, StartRound, Initialization
  <2>3. \A k \in crashed : master'[k] = master[k]
    BY <2>2 DEF RoundInv, BftTypeOK
  <2> QED BY <2>1, <2>3 DEF CrashOnlyAbandoned
<1>7. ASSUME NEW n \in Node,
             \/ DeliverResult(n) \/ ReceiveRequest(n) \/ TakeTunnel(n) \/ CollectTimeout(n)
             \/ SetCommitted(n) \/ SendReply(n) \/ ReceiveProposal(n) \/ ReceiveResponse(n)
      PROVE  CrashOnlyAbandoned'
  <2>1. UNCHANGED <<crashed, abandoned, master>>
    BY <1>7 DEF DeliverResult, ReceiveRequest, TakeTunnel, CollectTimeout, SetCommitted,
       SendReply, ReceiveProposal, ReceiveResponse, callVars
  <2> QED BY <1>2, <2>1
<1> QED BY <1>1, <1>3, <1>4, <1>5, <1>6, <1>7 DEF BftNext, Local, Handle

\* The nil dereference in commitBlock (bft-core.go) needs an abandoned round, and
\* the one in receiveCommit a node that has not been initialized.
THEOREM BftCrash == BftSpec => []CrashOnlyAbandoned
<1>1. BftInit => CrashOnlyAbandoned
  BY DEF BftInit, CrashOnlyAbandoned
<1>2. RoundInv /\ RoundInv' /\ CrashOnlyAbandoned /\ [BftNext]_bftVars => CrashOnlyAbandoned'
  BY CrashKeeps
<1> QED BY <1>1, <1>2, BftRounds, PTL DEF BftSpec

-----------------------------------------------------------------------------
(* As long as no round is abandoned, the rounds implement module Voting *)

LEMMA QuietVotes == ASSUME UNCHANGED <<signed, chain, tip>> PROVE VotingStep
  BY DEF VotingStep

\* VerifyPayload has looked the parent up before the node signs.
LEMMA SignVotes ==
    ASSUME NEW n \in Node, NEW b \in Block, VerifyPayload(n, b),
           signed' = signed \cup {<<n, b>>}, UNCHANGED <<chain, tip>>
    PROVE  VotingStep
<1>1. Vote!Sign(n, b)
  BY DEF VerifyPayload, Vote!Sign
<1> QED BY <1>1, SameNodes DEF VotingStep, Vote!Next

\* The repository puts a certified block on its current one, or does nothing.
LEMMA WriteVotes ==
    ASSUME NEW n \in Node, NEW b \in Block, WriteBlock(n, b), UNCHANGED signed,
           Vote!Certified(b) \/ \E m \in Node : abandoned'[m]
    PROVE  VotingStep
<1>1. CASE UNCHANGED <<chain, tip>>
  BY <1>1, QuietVotes
<1>2. CASE /\ Parent[b] = tip[n]
           /\ chain' = [chain EXCEPT ![n] = @ \cup {b}]
           /\ tip' = [tip EXCEPT ![n] = b]
  <2>1. SUFFICES ASSUME Vote!Certified(b) PROVE Vote!Next
    BY DEF VotingStep
  <2>2. Vote!Store(n, b)
    BY <1>2, <2>1 DEF Vote!Store, Vote!Extend
  <2> QED BY <2>2, SameNodes DEF Vote!Next
<1> QED BY <1>1, <1>2 DEF WriteBlock

LEMMA RequestVotes ==
    ASSUME NEW n \in Node, NEW w \in workers[n], w.block \in Block,
           RequestRefused(n, w) \/ RequestAccepted(n, w), UNCHANGED ledgerVars
    PROVE  VotingStep
<1>1. CASE RequestRefused(n, w)
  BY <1>1, QuietVotes DEF RequestRefused, ledgerVars
<1>2. CASE RequestAccepted(n, w)
  BY <1>2, SignVotes DEF RequestAccepted, ledgerVars
<1> QED BY <1>1, <1>2

LEMMA ProposalVotes ==
    ASSUME NEW n \in Node, NEW b \in Block, SignProposal(n, b), UNCHANGED ledgerVars
    PROVE  VotingStep
  BY SignVotes DEF SignProposal, ledgerVars

\* What a round hands to the repository, here or in a commit message, is
\* certified until somebody abandons a round.
LEMMA SendCommitVotes ==
    ASSUME RoundInv, NEW n \in Node, SendCommit(n) PROVE VotingStep
<1>1. PICK c \in committing[n] :
          /\ CommitPanics(n, c) \/ CommitFailed(n, c) \/ CommitWritten(n, c)
          /\ UNCHANGED <<signed, abandoned>>
  BY DEF SendCommit, callVars
<1>2. CASE CommitPanics(n, c) \/ CommitFailed(n, c)
  BY <1>1, <1>2, QuietVotes DEF CommitPanics, CommitFailed
<1>3. CASE CommitWritten(n, c)
  <2>1. c.result /\ WriteBlock(n, c.block)
    BY <1>3 DEF CommitWritten
  <2>2. Vote!Certified(c.block) \/ abandoned[n]
    BY <2>1 DEF RoundInv, OutcomesCertified
  <2>3. c.block \in Block
    BY DEF RoundInv, BftTypeOK, Outcome
  <2> QED BY <1>1, <2>1, <2>2, <2>3, WriteVotes
<1> QED BY <1>1, <1>2, <1>3

LEMMA ReceiveCommitVotes ==
    ASSUME RoundInv, NEW n \in Node, ReceiveCommit(n) PROVE VotingStep
<1>1. PICK m \in commits :
          /\ UNCHANGED ledgerVars \/ StoreCommitted(n, m)
          /\ UNCHANGED <<signed, abandoned>>
  BY DEF ReceiveCommit, FailureTold, callVars
<1>2. CASE UNCHANGED ledgerVars
  BY <1>1, <1>2, QuietVotes DEF ledgerVars
<1>3. CASE StoreCommitted(n, m)
  <2>1. m.result /\ WriteBlock(n, m.block)
    BY <1>3 DEF StoreCommitted
  <2>2. m.block \in Block /\ m.from \in Node
    BY DEF RoundInv, BftTypeOK, Commit
  <2>3. Vote!Certified(m.block) \/ abandoned[m.from]
    BY <2>1 DEF RoundInv, OutcomesCertified
  <2> QED BY <1>1, <2>1, <2>2, <2>3, WriteVotes
<1> QED BY <1>1, <1>2, <1>3

\* The steps that neither sign nor store.
LEMMA RestVotes ==
    ASSUME NEW n \in Node,
           \/ NextRound(n) \/ DeliverResult(n) \/ WaitTimeout(n) \/ TakeTunnel(n)
           \/ CollectTimeout(n) \/ SetCommitted(n) \/ SendReply(n) \/ ReceiveResponse(n)
    PROVE  VotingStep
<1>1. UNCHANGED <<signed, chain, tip>>
  BY DEF NextRound, RoundAfter, StartRound, DeliverResult, WaitTimeout, TakeTunnel, CollectTimeout,
     SetCommitted, SendReply, ReceiveResponse, ledgerVars
<1> QED BY <1>1, QuietVotes

LEMMA BftStepVotes == ASSUME RoundInv, [BftNext]_bftVars PROVE VotingStep
<1>1. CASE UNCHANGED bftVars
  BY <1>1, QuietVotes DEF bftVars, ledgerVars
<1>2. ASSUME NEW n \in Node, ReceiveRequest(n) PROVE VotingStep
  <2>1. PICK w \in workers[n] : /\ RequestRefused(n, w) \/ RequestAccepted(n, w)
                               /\ UNCHANGED ledgerVars
    BY <1>2 DEF ReceiveRequest
  <2> QED BY <2>1, RequestVotes DEF RoundInv, BftTypeOK, Worker
<1>3. ASSUME NEW n \in Node, ReceiveProposal(n) PROVE VotingStep
  <2>1. PICK m \in proposals : SignProposal(n, m.block) /\ UNCHANGED ledgerVars
    BY <1>3 DEF ReceiveProposal
  <2> QED BY <2>1, ProposalVotes DEF RoundInv, BftTypeOK, Proposal
<1> QED BY <1>1, <1>2, <1>3, RestVotes, SendCommitVotes, ReceiveCommitVotes
        DEF BftNext, Local, Handle

\* Until a ToConsensus gives up on a running round, bft-core.go signs and stores
\* as module Voting does.
THEOREM BftRefinesVoting == BftSpec => VotesUnlessAbandoned
<1>1. RoundInv /\ [BftNext]_bftVars => VotingStep
  BY BftStepVotes
<1> QED BY <1>1, BftRounds, PTL DEF BftSpec, VotesUnlessAbandoned

VoteProof == INSTANCE VotingProofs

\* The hypothesis of the next theorem: no earlier life of the network.
FromGenesis == FirstChains = {[n \in Node |-> {Genesis}]}

\* Nobody has abandoned a round yet.
AllCurrent == \A n \in Node : ~abandoned[n]
VotedInv == AllCurrent => VoteProof!VotingInv

LEMMA VoteAssumptions == VoteProof!NAssumption /\ VoteProof!BlockAssumption
  BY NAssumption, BlockAssumption DEF AnyBlock, VoteProof!AnyBlock

\* The instance of module Voting and that of its proofs are the same protocol.
LEMMA SameProtocol ==
    /\ [Vote!Next]_<<signed, chain, tip>> => [VoteProof!Next]_(VoteProof!votingVars)
    /\ VoteProof!Finality => Vote!Finality
    /\ VoteProof!ParentAgreement => Vote!ParentAgreement
<1>1. \A S : VoteProof!Cardinality(S) = Vote!Cardinality(S)
  BY DEF VoteProof!Cardinality, Vote!Cardinality
<1>2. VoteProof!Node = Vote!Node /\ VoteProof!Quorum = Vote!Quorum
  BY DEF VoteProof!Node, Vote!Node, VoteProof!Quorum, Vote!Quorum, VoteProof!Tolerance,
     Vote!Tolerance
<1>3. \A b : VoteProof!Certified(b) <=> Vote!Certified(b)
  BY <1>1, <1>2 DEF VoteProof!Certified, Vote!Certified, VoteProof!Signers, Vote!Signers
<1>4. ASSUME NEW n, NEW b
      PROVE  /\ Vote!Sign(n, b) => VoteProof!Sign(n, b)
             /\ Vote!Store(n, b) => VoteProof!Store(n, b)
  BY <1>3 DEF Vote!Sign, VoteProof!Sign, Vote!Store, VoteProof!Store, Vote!Extend,
     VoteProof!Extend
<1>5. Vote!Next => VoteProof!Next
  BY <1>2, <1>4 DEF Vote!Next, VoteProof!Next
<1>6. VoteProof!Finality => Vote!Finality
  BY <1>2 DEF VoteProof!Finality, Vote!Finality
<1>7. VoteProof!ParentAgreement => Vote!ParentAgreement
  BY <1>3 DEF VoteProof!ParentAgreement, Vote!ParentAgreement
<1> QED BY <1>5, <1>6, <1>7 DEF VoteProof!votingVars

LEMMA VotedInit == ASSUME FromGenesis, BftInit PROVE VotedInv
<1>1. chain = [n \in Node |-> {Genesis}]
  BY DEF FromGenesis, BftInit
<1>2. \A n \in Node : tip[n] = Genesis
  <2>1. Highest({Genesis}) = Genesis
    <3>1. Height[Genesis] \in Nat
      BY BlockAssumption DEF AnyBlock
    <3>2. \E t \in {Genesis} : \A b \in {Genesis} : Height[b] <= Height[t]
      BY <3>1
    <3> QED BY <3>2 DEF Highest
  <2> QED BY <1>1, <2>1 DEF BftInit
<1>3. tip = [n \in Node |-> Genesis]
  BY <1>2 DEF BftInit
<1>4. signed = {}
  BY <1>1, BlockAssumption DEF BftInit
<1>5. VoteProof!Init
  BY <1>1, <1>3, <1>4, SameNodes
  DEF VoteProof!Init, VoteProof!Node, Node
<1> QED BY <1>5, VoteAssumptions, VoteProof!VotingInit DEF VotedInv

\* A step that is one of the voting protocol, once all are current, keeps its
\* invariant as long as they are.
LEMMA VotedKept ==
    ASSUME VotedInv, VotingStep, \A n \in Node : abandoned[n] => abandoned'[n]
    PROVE  VotedInv'
<1> SUFFICES ASSUME AllCurrent' PROVE VoteProof!VotingInv'
  BY DEF VotedInv
<1>1. AllCurrent
  BY DEF AllCurrent
<1>2. [VoteProof!Next]_(VoteProof!votingVars)
  BY SameProtocol DEF VotingStep, AllCurrent
<1>3. VoteProof!VotingInv
  BY <1>1 DEF VotedInv
<1> QED BY <1>2, <1>3, VoteAssumptions, VoteProof!VotingInvStep

LEMMA AbandonedKept ==
    ASSUME RoundInv, [BftNext]_bftVars, NEW n \in Node, abandoned[n] PROVE abandoned'[n]
<1>1. CASE UNCHANGED bftVars
  BY <1>1 DEF bftVars, callVars
<1>2. ASSUME NEW k \in Node, WaitTimeout(k) PROVE abandoned'[n]
  BY <1>2 DEF WaitTimeout, RoundInv, BftTypeOK
<1>3. ASSUME NEW k \in Node,
             \/ NextRound(k) \/ DeliverResult(k) \/ SendCommit(k) \/ ReceiveRequest(k)
             \/ TakeTunnel(k) \/ CollectTimeout(k) \/ SetCommitted(k) \/ SendReply(k)
             \/ Handle(k)
      PROVE  abandoned'[n]
  BY <1>3 DEF NextRound, RoundAfter, StartRound, DeliverResult, SendCommit, ReceiveRequest, TakeTunnel,
     CollectTimeout, SetCommitted, SendReply, Handle, ReceiveProposal, ReceiveResponse,
     ReceiveCommit, callVars
<1> QED BY <1>1, <1>2, <1>3 DEF BftNext, Local

\* Until a round is abandoned, blocks below the current ones are final and the
\* certified blocks of a height extend the same block.
Final == AllCurrent => Vote!Finality /\ Vote!ParentAgreement

LEMMA VotedIsFinal == VotedInv => Final
<1>1. VoteProof!VotingInv => VoteProof!Finality /\ VoteProof!ParentAgreement
  BY VoteAssumptions, VoteProof!InvImpliesFinality, VoteProof!InvImpliesParentAgreement
<1> QED BY <1>1, SameProtocol DEF VotedInv, Final

\* In a network that started at the genesis block the repositories of any two BFT
\* nodes agree below their current blocks, until a ToConsensus gives up on a
\* running round.
THEOREM BftFinality == ASSUME FromGenesis PROVE BftSpec => []Final
<1>1. BftInit => VotedInv
  BY VotedInit
<1>2. RoundInv /\ VotedInv /\ [BftNext]_bftVars => VotedInv'
  BY BftStepVotes, AbandonedKept, VotedKept
<1> QED BY <1>1, <1>2, VotedIsFinal, BftRounds, PTL DEF BftSpec
=============================================================================
