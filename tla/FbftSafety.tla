---------------------------- MODULE FbftSafety -----------------------------
(***************************************************************************)
(* What module FbftCore guarantees for any number of nodes, any tree of    *)
(* blocks and any bounds: blocks are handed over and stored with a quorum  *)
(* of signatures, the handlers implement module Voting, and a node enters  *)
(* a view only after a quorum has timed out on the one it leaves behind.   *)
(*                                                                         *)
(* A ToConsensus that gives up before its waitResponse does leaves a result *)
(* behind; what is said about certificates excepts the blocks of producers *)
(* to which that has happened.                                             *)
(***************************************************************************)
EXTENDS FbftTypes

\* Module Voting is instantiated with the same constants, so its copies of the
\* shared operators are the operators themselves.
LEMMA SameNodes == Vote!Node = Node /\ Vote!Quorum = Quorum
  BY DEF Vote!Node, Node, Vote!Quorum, Quorum, Vote!Tolerance, Tolerance

LEMMA SameCardinality == \A S : Vote!Cardinality(S) = Cardinality(S)
  BY DEF Vote!Cardinality, Cardinality

\* Nobody takes a signature back, so a quorum stays one.
LEMMA QuorumStable ==
    ASSUME signed \subseteq signed', NEW b, NEW S, HasQuorum(b, S) PROVE HasQuorum(b, S)'
<1>1. Vote!Signers(b) \subseteq Vote!Signers(b)'
  BY DEF Vote!Signers
<1> QED BY <1>1 DEF HasQuorum

\* What the instance calls certified, in terms of the shared operators.
LEMMA CertifiedMeaning ==
    ASSUME NEW b
    PROVE  /\ Vote!Signers(b) \in SUBSET Node /\ Vote!Signers(b)' \in SUBSET Node
           /\ Vote!Certified(b) <=> Cardinality(Vote!Signers(b)) >= Quorum
           /\ Vote!Certified(b)' <=> Cardinality(Vote!Signers(b)') >= Quorum
<1>1. Vote!Signers(b) \in SUBSET Node /\ Vote!Signers(b)' \in SUBSET Node
  BY SameNodes DEF Vote!Signers
<1>2. Vote!Certified(b) <=> Cardinality(Vote!Signers(b)) >= Quorum
  BY SameNodes, SameCardinality DEF Vote!Certified
<1>3. Vote!Certified(b)' <=> Cardinality(Vote!Signers(b)') >= Quorum
  BY SameNodes, SameCardinality DEF Vote!Certified
<1> QED BY <1>1, <1>2, <1>3

\* The number of signers of a block grows with the set.
LEMMA NodeSets ==
    ASSUME NEW T \in SUBSET Node, NEW S \in SUBSET T
    PROVE  /\ Cardinality(S) \in Nat /\ Cardinality(T) \in Nat
           /\ Cardinality(S) <= Cardinality(T)
           /\ Quorum \in Nat
<1>1. IsFiniteSet(Node)
  BY NAssumption, FS_Interval DEF Node
<1>2. IsFiniteSet(T) /\ IsFiniteSet(S)
  BY <1>1, FS_Subset
<1>3. Cardinality(S) <= Cardinality(T) /\ Cardinality(S) \in Nat /\ Cardinality(T) \in Nat
  BY <1>2, FS_Subset, FS_CardinalityType
<1>4. Quorum \in Nat
  BY NAssumption DEF Quorum, Tolerance
<1> QED BY <1>3, <1>4

\* A quorum that has signed b certifies it.
LEMMA QuorumCertifies ==
    ASSUME NEW b, NEW S, HasQuorum(b, S) PROVE Vote!Certified(b)
<1>1. S \in SUBSET Vote!Signers(b) /\ Vote!Signers(b) \in SUBSET Node
  BY CertifiedMeaning DEF HasQuorum
<1>2. Cardinality(S) >= Quorum
  BY DEF HasQuorum
<1> QED BY <1>1, <1>2, NodeSets, CertifiedMeaning

LEMMA CertifiedKept ==
    ASSUME signed \subseteq signed', NEW b, Vote!Certified(b) PROVE Vote!Certified(b)'
<1>1. Vote!Signers(b) \in SUBSET (Vote!Signers(b)') /\ Vote!Signers(b)' \in SUBSET Node
  BY CertifiedMeaning DEF Vote!Signers
<1>2. Cardinality(Vote!Signers(b)) >= Quorum
  BY CertifiedMeaning
<1> QED BY <1>1, <1>2, NodeSets, CertifiedMeaning

-----------------------------------------------------------------------------
(* Each part of CoreInv survives when its variables do not change: nobody    *)
(* takes back a signature, or a round that was abandoned.                    *)

Grows ==
    /\ signed \subseteq signed'
    /\ \A k \in Node : abandoned[k] => abandoned'[k]

LEMMA CoversStable == ASSUME Grows, NEW b, NEW S, Covers(b, S) PROVE Covers(b, S)'
<1>1. PICK c \in Block : /\ Producer[c] = Producer[b]
                         /\ HasQuorum(c, S)
                         /\ c = b \/ abandoned[Producer[b]]
  BY DEF Covers
<1>2. Producer[b] \in Node
  BY <1>1, CoreAssumption
<1>3. HasQuorum(c, S)'
  BY <1>1, QuorumStable DEF Grows
<1>4. c = b \/ abandoned'[Producer[b]]
  BY <1>1, <1>2 DEF Grows
<1> QED BY <1>1, <1>3, <1>4 DEF Covers

LEMMA AccountedStable ==
    ASSUME Grows, NEW b \in Block, Accounted(b) PROVE Accounted(b)'
<1>1. Producer[b] \in Node
  BY CoreAssumption
<1>2. Vote!Certified(b) => Vote!Certified(b)'
  BY CertifiedKept DEF Grows
<1>3. abandoned[Producer[b]] => abandoned'[Producer[b]]
  BY <1>1 DEF Grows
<1> QED BY <1>2, <1>3 DEF Accounted

LEMMA CoversAccounts == ASSUME NEW b, NEW S, Covers(b, S) PROVE Accounted(b)
<1>1. PICK c \in Block : HasQuorum(c, S) /\ (c = b \/ abandoned[Producer[b]])
  BY DEF Covers
<1> QED BY <1>1, QuorumCertifies DEF Accounted

LEMMA ResponsesSignedKept ==
    ASSUME ResponsesSigned, Grows, responses' \subseteq responses
    PROVE  ResponsesSigned'
  BY DEF ResponsesSigned, Grows

LEMMA CacheSignedKept ==
    ASSUME CacheSigned, Grows, UNCHANGED cache PROVE CacheSigned'
<1>1. \A b \in Block : Vote!Signers(b) \subseteq Vote!Signers(b)'
  BY DEF Vote!Signers, Grows
<1> QED BY <1>1 DEF CacheSigned

\* What WaitersCurrent says of one node.
Current(n) ==
    /\ policy[n] # None => Producer[policy[n]] = n
    /\ \A w \in waiters[n] :
          /\ Producer[w.block] = n
          /\ w.pc = "send" /\ w.result => HasQuorum(w.block, w.signers)
          /\ \/ abandoned[n]
             \/ waiters[n] = {w} /\ w.block = policy[n] /\ w.round = rounds[n]

LEMMA CurrentMeaning == WaitersCurrent <=> \A n \in Node : Current(n)
  BY DEF WaitersCurrent, Current

LEMMA CurrentKept ==
    ASSUME Grows, NEW n \in Node, Current(n), waiters'[n] = waiters[n],
           policy'[n] = policy[n], rounds'[n] = rounds[n]
    PROVE  Current(n)'
<1>1. \A w : HasQuorum(w.block, w.signers) => HasQuorum(w.block, w.signers)'
  BY QuorumStable DEF Grows
<1>2. abandoned[n] => abandoned'[n]
  BY DEF Grows
<1> QED BY <1>1, <1>2 DEF Current

LEMMA WaitersCurrentKept ==
    ASSUME WaitersCurrent, Grows, UNCHANGED <<waiters, policy, rounds>>
    PROVE  WaitersCurrent'
<1>1. \A n \in Node : Current(n)'
  BY CurrentMeaning, CurrentKept
<1> QED BY <1>1 DEF WaitersCurrent, Current

LEMMA CommitsCertifiedKept ==
    ASSUME CommitsCertified, Grows, commits' \subseteq commits
    PROVE  CommitsCertified'
<1> SUFFICES ASSUME NEW m \in commits', m.result PROVE Covers(m.block, m.signers)'
  BY DEF CommitsCertified
<1>1. Covers(m.block, m.signers)
  BY DEF CommitsCertified
<1> QED BY <1>1, CoversStable

LEMMA CertifiedCommitKept ==
    ASSUME CertifiedCommit, Grows, UNCHANGED handed PROVE CertifiedCommit'
<1> SUFFICES ASSUME NEW n \in Node, NEW c \in handed[n]
             PROVE  Covers(c.block, c.signers)'
  BY DEF CertifiedCommit
<1>1. Covers(c.block, c.signers)
  BY DEF CertifiedCommit
<1> QED BY <1>1, CoversStable

LEMMA SyncCertifiedKept ==
    ASSUME TypeOK, SyncCertified, Grows, syncResps' \subseteq syncResps
    PROVE  SyncCertified'
<1> SUFFICES ASSUME NEW m \in syncResps' PROVE Accounted(m.block)'
  BY DEF SyncCertified
<1>1. m.block \in Block /\ Accounted(m.block)
  BY DEF SyncCertified, TypeOK, SyncBlockResp
<1> QED BY <1>1, AccountedStable

LEMMA ChainCertifiedKept ==
    ASSUME TypeOK, ChainCertified, Grows, UNCHANGED chain PROVE ChainCertified'
<1> SUFFICES ASSUME NEW n \in Node, NEW b \in chain[n] \ {Genesis}
             PROVE  Accounted(b)'
  BY DEF ChainCertified
<1>1. b \in Block /\ Accounted(b)
  BY DEF ChainCertified, TypeOK, AnyBlock
<1> QED BY <1>1, AccountedStable

-----------------------------------------------------------------------------
(* CoreInv is inductive *)

coreVars == <<responses, cache, waiters, policy, rounds, commits, handed, syncResps, chain,
              signed, abandoned>>

LEMMA CoreInvKept == ASSUME TypeOK, CoreInv, UNCHANGED coreVars PROVE CoreInv'
<1>1. /\ Grows /\ responses' \subseteq responses
      /\ commits' \subseteq commits /\ syncResps' \subseteq syncResps
      /\ UNCHANGED <<cache, waiters, policy, rounds, handed, chain>>
  BY DEF coreVars, Grows
<1> QED BY <1>1, ResponsesSignedKept, CacheSignedKept, WaitersCurrentKept,
       CommitsCertifiedKept, CertifiedCommitKept, SyncCertifiedKept, ChainCertifiedKept
       DEF CoreInv

\* Removing contents only loses signatures.
LEMMA RemoveSigned ==
    ASSUME CacheSigned, TypeOK, NEW n \in Node, NEW b \in Block, UNCHANGED signed,
           cache' = [cache EXCEPT ![n] = Remove(@, b)]
    PROVE  CacheSigned'
<1>1. \A c \in Block : Remove(cache[n], b)[c].signers \subseteq cache[n][c].signers
  BY DEF Remove, NoContent
<1>2. \A k \in Node : \A c \in Block : cache'[k][c].signers \subseteq cache[k][c].signers
  <2> DEFINE row == Remove(cache[n], b)
  <2>1. cache' = [cache EXCEPT ![n] = row] /\ cache \in [Node -> Cache]
    BY DEF TypeOK
  <2>2. \A c \in Block : row[c].signers \subseteq cache[n][c].signers
    BY <1>1
  <2> HIDE DEF row
  <2> QED BY <2>1, <2>2
<1>3. \A c \in Block : Vote!Signers(c)' = Vote!Signers(c)
  BY DEF Vote!Signers
<1> QED BY <1>2, <1>3 DEF CacheSigned

\* A commit with a certificate hands over a certificate.
LEMMA CommitBlockCore ==
    ASSUME TypeOK, CacheSigned, CertifiedCommit, UNCHANGED signed, Grows, NEW n \in Node,
           NEW b \in Block, NEW S, Covers(b, S), CommitBlock(n, b, S)
    PROVE  CacheSigned' /\ CertifiedCommit'
<1>1. CacheSigned'
  BY RemoveSigned DEF CommitBlock
<1>2. CertifiedCommit'
  <2> SUFFICES ASSUME NEW k \in Node, NEW c \in handed'[k]
               PROVE  Covers(c.block, c.signers)'
    BY DEF CertifiedCommit
  <2> DEFINE new == [block |-> b, signers |-> S]
  <2>1. \/ handed' = handed
        \/ handed' = [handed EXCEPT ![n] = @ \cup {new}]
    BY DEF CommitBlock
  <2>2. c \in handed[k] \/ c = new
    <3>1. handed \in [Node -> SUBSET Certificate]
      BY DEF TypeOK
    <3> HIDE DEF new
    <3>2. CASE handed' = handed
      BY <3>2
    <3>3. CASE handed' = [handed EXCEPT ![n] = @ \cup {new}]
      BY <3>1, <3>3
    <3> QED BY <2>1, <3>2, <3>3
  <2>3. Covers(c.block, c.signers)
    BY <2>2 DEF CertifiedCommit
  <2> QED BY <2>3, CoversStable
<1> QED BY <1>1, <1>2

\* tryToCommit broadcasts and hands over what it is given.
LEMMA TryToCommitCore ==
    ASSUME TypeOK, CacheSigned, CertifiedCommit, CommitsCertified, UNCHANGED signed, Grows,
           NEW n \in Node, NEW b \in Block, NEW r \in BOOLEAN, NEW S, r => Covers(b, S),
           TryToCommit(n, b, r, S)
    PROVE  CacheSigned' /\ CertifiedCommit' /\ CommitsCertified'
<1>1. CommitsCertified'
  <2> SUFFICES ASSUME NEW m \in commits', m.result PROVE Covers(m.block, m.signers)'
    BY DEF CommitsCertified
  <2>1. \/ m \in commits
        \/ \E p \in Peer(n) : m = [block |-> b, from |-> n, to |-> p, round |-> rounds[n],
                                  result |-> r, signers |-> S]
    BY DEF TryToCommit
  <2>2. m \in commits \/ (m.block = b /\ m.signers = S /\ r)
    BY <2>1
  <2>3. Covers(m.block, m.signers)
    BY <2>2 DEF CommitsCertified
  <2> QED BY <2>3, CoversStable
<1>2. CASE r
  <2>1. CommitBlock(n, b, S) /\ Covers(b, S)
    BY <1>2 DEF TryToCommit
  <2> QED BY <1>1, <2>1, CommitBlockCore
<1>3. CASE ~r
  <2>1. UNCHANGED <<cache, handed>>
    BY <1>3 DEF TryToCommit
  <2> QED BY <1>1, <2>1, CacheSignedKept, CertifiedCommitKept
<1> QED BY <1>2, <1>3

\* A result is put on the block ToConsensus waits for.  It may be another one's,
\* but then the same node has produced both and has abandoned a round.
LEMMA DeliverResultCore ==
    ASSUME TypeOK, CoreInv, NEW n \in Node, DeliverResult(n) PROVE CoreInv'
<1>1. PICK w \in waiters[n] :
        /\ w.pc = "send"
        /\ waiters' = [waiters EXCEPT ![n] = @ \ {w}]
        /\ TryToCommit(n, policy[n], w.result, w.signers)
  BY DEF DeliverResult
<1>2. /\ UNCHANGED <<rounds, signed, abandoned, chain, responses, syncResps>>
      /\ policy' = [policy EXCEPT ![n] = None]
      /\ policy[n] # None
  BY DEF DeliverResult, ledgerVars
<1>3. Grows
  BY <1>2 DEF Grows
<1>4. /\ policy[n] \in Block /\ Producer[policy[n]] = n
      /\ w.block \in Block /\ Producer[w.block] = n /\ w.result \in BOOLEAN
      /\ w.result => HasQuorum(w.block, w.signers)
      /\ abandoned[n] \/ (waiters[n] = {w} /\ w.block = policy[n])
  <2>1. policy[n] \in Block /\ w.block \in Block /\ w.result \in BOOLEAN
    BY <1>2 DEF TypeOK, Waiter
  <2> QED BY <1>1, <1>2, <2>1 DEF CoreInv, WaitersCurrent
<1>5. w.result => Covers(policy[n], w.signers)
  BY <1>4 DEF Covers
<1>6. CacheSigned' /\ CertifiedCommit' /\ CommitsCertified'
  BY <1>1, <1>2, <1>3, <1>4, <1>5, TryToCommitCore DEF CoreInv
<1>7. WaitersCurrent'
  <2> SUFFICES ASSUME NEW k \in Node PROVE Current(k)'
    BY DEF WaitersCurrent, Current
  <2>0. Current(k)
    BY CurrentMeaning DEF CoreInv
  <2>1. CASE k # n
    <3>1. waiters'[k] = waiters[k] /\ policy'[k] = policy[k] /\ rounds'[k] = rounds[k]
      BY <1>1, <1>2, <2>1 DEF TypeOK
    <3> QED BY <1>3, <2>0, <3>1, CurrentKept
  <2>2. CASE k = n
    <3>1. waiters'[n] = waiters[n] \ {w} /\ policy'[n] = None
      BY <1>1, <1>2 DEF TypeOK
    <3>2. ASSUME NEW u \in waiters'[n]
          PROVE  /\ Producer[u.block] = n /\ abandoned'[n]
                 /\ u.pc = "send" /\ u.result => HasQuorum(u.block, u.signers)'
      <4>1. /\ Producer[u.block] = n /\ abandoned[n]
            /\ u.pc = "send" /\ u.result => HasQuorum(u.block, u.signers)
        BY <1>4, <2>0, <2>2, <3>1 DEF Current
      <4> QED BY <1>2, <4>1, QuorumStable
    <3> QED BY <2>2, <3>1, <3>2 DEF Current
  <2> QED BY <2>1, <2>2
<1> QED BY <1>2, <1>3, <1>6, <1>7, ResponsesSignedKept, SyncCertifiedKept,
       ChainCertifiedKept DEF CoreInv

\* Giving up with a waitResponse alive is what abandoned records.
LEMMA WaitTimeoutCore ==
    ASSUME TypeOK, CoreInv, NEW n \in Node, WaitTimeout(n) PROVE CoreInv'
<1>1. /\ UNCHANGED <<rounds, waiters, signed, chain, responses, syncResps>>
      /\ policy' = [policy EXCEPT ![n] = None]
      /\ TryToCommit(n, policy[n], FALSE, {})
      /\ policy[n] \in Block
  BY DEF WaitTimeout, ledgerVars, TypeOK
<1>2. /\ \A k \in Node : abandoned[k] => abandoned'[k]
      /\ waiters[n] # {} => abandoned'[n]
  BY DEF WaitTimeout, TypeOK
<1>3. Grows
  BY <1>1, <1>2 DEF Grows
<1>4. CacheSigned' /\ CertifiedCommit' /\ CommitsCertified'
  BY <1>1, <1>3, TryToCommitCore DEF CoreInv
<1>5. WaitersCurrent'
  <2> SUFFICES ASSUME NEW k \in Node PROVE Current(k)'
    BY DEF WaitersCurrent, Current
  <2>0. Current(k)
    BY CurrentMeaning DEF CoreInv
  <2>1. CASE k # n
    <3>1. policy'[k] = policy[k]
      BY <1>1, <2>1 DEF TypeOK
    <3> QED BY <1>1, <1>3, <2>0, <3>1, CurrentKept
  <2>2. CASE k = n
    <3>1. policy'[n] = None
      BY <1>1 DEF TypeOK
    <3>2. ASSUME NEW u \in waiters[n]
          PROVE  /\ Producer[u.block] = n /\ abandoned'[n]
                 /\ u.pc = "send" /\ u.result => HasQuorum(u.block, u.signers)'
      <4>1. u.pc = "send" /\ u.result => HasQuorum(u.block, u.signers)
        BY <2>0, <2>2 DEF Current
      <4>2. Producer[u.block] = n
        BY <2>0, <2>2 DEF Current
      <4> QED BY <1>1, <1>2, <4>1, <4>2, QuorumStable
    <3> QED BY <1>1, <2>2, <3>1, <3>2 DEF Current
  <2> QED BY <2>1, <2>2
<1> QED BY <1>1, <1>3, <1>4, <1>5, ResponsesSignedKept, SyncCertifiedKept,
       ChainCertifiedKept DEF CoreInv

\* Replacing a waitResponse of a node by at most one that works for the same
\* block and round, and is certified if it reports success.
LEMMA WaiterReplaced ==
    ASSUME TypeOK, WaitersCurrent, UNCHANGED <<policy, rounds, signed, abandoned>>,
           NEW n \in Node, NEW w \in waiters[n], NEW U,
           U = {} \/ \E u : /\ U = {u} /\ u.block = w.block /\ u.round = w.round
                            /\ (u.pc = "send" /\ u.result => HasQuorum(u.block, u.signers)),
           waiters' = [waiters EXCEPT ![n] = (@ \ {w}) \cup U]
    PROVE  WaitersCurrent'
<1> SUFFICES ASSUME NEW k \in Node PROVE Current(k)'
  BY DEF WaitersCurrent, Current
<1>0. Current(k) /\ Current(n)
  BY CurrentMeaning
<1>1. CASE k = n
  <2>1. waiters'[n] = (waiters[n] \ {w}) \cup U
    BY DEF TypeOK
  <2>2. ASSUME NEW x \in waiters'[n]
        PROVE  /\ Producer[x.block] = n
               /\ x.pc = "send" /\ x.result => HasQuorum(x.block, x.signers)'
               /\ \/ abandoned[n]
                  \/ waiters'[n] = {x} /\ x.block = policy[n] /\ x.round = rounds[n]
    <3>1. CASE x \in U
      <4>1. /\ U = {x} /\ x.block = w.block /\ x.round = w.round
            /\ x.pc = "send" /\ x.result => HasQuorum(x.block, x.signers)
        BY <3>1
      <4>2. /\ Producer[w.block] = n
            /\ \/ abandoned[n]
               \/ waiters[n] = {w} /\ w.block = policy[n] /\ w.round = rounds[n]
        BY <1>0 DEF Current
      <4> QED BY <2>1, <4>1, <4>2, QuorumStable
    <3>2. CASE x \notin U
      <4>1. x \in waiters[n] /\ x # w
        BY <2>1, <2>2, <3>2
      <4>2. /\ Producer[x.block] = n /\ abandoned[n]
            /\ x.pc = "send" /\ x.result => HasQuorum(x.block, x.signers)
        BY <1>0, <4>1 DEF Current
      <4> QED BY <4>2, QuorumStable
    <3> QED BY <3>1, <3>2
  <2> QED BY <1>0, <1>1, <2>2 DEF Current
<1>2. CASE k # n
  <2>1. waiters'[k] = waiters[k]
    BY <1>2 DEF TypeOK
  <2>2. Grows
    BY DEF Grows
  <2> QED BY <1>0, <2>1, <2>2, CurrentKept
<1> QED BY <1>1, <1>2

LEMMA WaiterStartCore ==
    ASSUME TypeOK, CoreInv, NEW n \in Node, WaiterStart(n) PROVE CoreInv'
<1>1. PICK w \in waiters[n] :
        waiters' = [waiters EXCEPT ![n] = (@ \ {w}) \cup
            IF Has(cache[n], w.block)
            THEN {[w EXCEPT !.pc = "collect", !.id = cache[n][w.block].round]}
            ELSE {}]
  BY DEF WaiterStart
<1> DEFINE u == [w EXCEPT !.pc = "collect", !.id = cache[n][w.block].round]
           U == IF Has(cache[n], w.block) THEN {u} ELSE {}
<1>2. w \in Waiter
  BY DEF TypeOK
<1>3. u.block = w.block /\ u.round = w.round /\ u.pc = "collect"
  BY <1>2 DEF Waiter
<1>4. U = {} \/ \E x : /\ U = {x} /\ x.block = w.block /\ x.round = w.round
                       /\ (x.pc = "send" /\ x.result => HasQuorum(x.block, x.signers))
  <2>1. U = {} \/ U = {u}
    OBVIOUS
  <2>2. u.pc = "send" /\ u.result => HasQuorum(u.block, u.signers)
    BY <1>3
  <2> HIDE DEF u, U
  <2> QED BY <1>3, <2>1, <2>2
<1>5. UNCHANGED <<policy, rounds, signed, abandoned, cache, responses, commits, handed,
                  syncResps, chain>>
  BY DEF WaiterStart, pluginVars, ledgerVars, netVars
<1>6. waiters' = [waiters EXCEPT ![n] = (@ \ {w}) \cup U]
  BY <1>1
<1> HIDE DEF u, U
<1>7. WaitersCurrent'
  BY <1>4, <1>5, <1>6, WaiterReplaced DEF CoreInv
<1> QED BY <1>5, <1>7, ResponsesSignedKept, CacheSignedKept, CommitsCertifiedKept,
       CertifiedCommitKept, SyncCertifiedKept, ChainCertifiedKept DEF CoreInv, Grows

LEMMA ConcludeCore ==
    ASSUME TypeOK, CacheSigned, WaitersCurrent,
           UNCHANGED <<policy, rounds, signed, abandoned>>,
           NEW n \in Node, NEW w \in waiters[n], Conclude(n, w)
    PROVE  CacheSigned' /\ WaitersCurrent'
<1>1. w \in Waiter /\ w.block \in Block
  BY DEF TypeOK, Waiter
<1>2. cache \in [Node -> Cache] /\ cache[n] \in Cache /\ cache[n][w.block] \in Content
  BY <1>1 DEF TypeOK, Cache
<1>3. WaitersCurrent'
  <2> DEFINE ok == MaybeCommit(n, w.block)
             S == IF ok THEN cache[n][w.block].signers ELSE {}
             u == [w EXCEPT !.pc = "send", !.result = ok, !.signers = S]
  <2>1. waiters' = [waiters EXCEPT ![n] = (@ \ {w}) \cup {u}]
    BY DEF Conclude
  <2>2. ok => HasQuorum(w.block, S)
    BY <1>1 DEF MaybeCommit, HasQuorum, CacheSigned
  <2>3. ok \in BOOLEAN
    BY DEF MaybeCommit
  <2> HIDE DEF ok, S
  <2>4. u.block = w.block /\ u.round = w.round /\ (u.result => ok) /\ u.signers = S
    BY <1>1, <2>3 DEF Waiter
  <2>5. u.pc = "send" /\ u.result => HasQuorum(u.block, u.signers)
    BY <2>2, <2>4
  <2> HIDE DEF u
  <2>6. \E x : /\ {u} = {x} /\ x.block = w.block /\ x.round = w.round
               /\ (x.pc = "send" /\ x.result => HasQuorum(x.block, x.signers))
    BY <2>4, <2>5
  <2> QED BY <2>1, <2>6, WaiterReplaced
<1>4. CacheSigned'
  <2> DEFINE t == SetState(cache[n][w.block], ToConsensusState)
             row == [cache[n] EXCEPT ![w.block] = t]
  <2>1. t.signers = cache[n][w.block].signers
    BY <1>2 DEF SetState, Content
  <2>2. CASE cache' = cache
    BY <2>2, CacheSignedKept DEF Grows
  <2>3. CASE cache' = [cache EXCEPT ![n][w.block] = SetState(@, ToConsensusState)]
    <3>1. cache' = [cache EXCEPT ![n] = row]
      BY <2>3, <1>2
    <3>2. \A c \in Block : row[c].signers = cache[n][c].signers
      <4> HIDE DEF t
      <4> QED BY <1>1, <1>2, <2>1 DEF Cache
    <3> HIDE DEF row
    <3>3. \A k \in Node : \A c \in Block : cache'[k][c].signers = cache[k][c].signers
      BY <1>2, <3>1, <3>2
    <3>4. \A c \in Block : Vote!Signers(c)' = Vote!Signers(c)
      BY DEF Vote!Signers
    <3> QED BY <3>3, <3>4 DEF CacheSigned
  <2> QED BY <2>2, <2>3 DEF Conclude
<1> QED BY <1>3, <1>4

LEMMA CollectCore ==
    ASSUME TypeOK, CoreInv, NEW n \in Node, CollectTimeout(n) \/ CollectSignal(n)
    PROVE  CoreInv'
<1>1. UNCHANGED <<policy, rounds, signed, abandoned, responses, commits, handed, syncResps,
                  chain>>
  BY DEF CollectTimeout, CollectSignal, ledgerVars, netVars
<1>0. Grows
  BY <1>1 DEF Grows
<1>2. CacheSigned' /\ WaitersCurrent'
  <2>1. CASE UNCHANGED <<waiters, cache>>
    BY <1>0, <1>1, <2>1, CacheSignedKept, WaitersCurrentKept DEF CoreInv
  <2>2. CASE \E w \in waiters[n] : Conclude(n, w)
    BY <1>1, <2>2, ConcludeCore DEF CoreInv
  <2> QED BY <2>1, <2>2 DEF CollectTimeout, CollectSignal
<1> QED BY <1>0, <1>1, <1>2, ResponsesSignedKept, CommitsCertifiedKept,
       CertifiedCommitKept, SyncCertifiedKept, ChainCertifiedKept DEF CoreInv

\* Adding a content keeps the signatures of those that stay and starts empty.
LEMMA AddSigners ==
    ASSUME NEW c \in Cache, NEW b \in Block, NEW r \in Nat
    PROVE  \A d \in Block : Add(c, b, r)[d].signers \subseteq c[d].signers
  BY DEF Add, NewContent, NoContent

\* A cache that gains no signatures but those of nodes that have signed.
LEMMA CacheSignedGrows ==
    ASSUME TypeOK, CacheSigned, signed \subseteq signed', NEW n \in Node, NEW row,
           cache' = [cache EXCEPT ![n] = row],
           \A d \in Block : row[d].signers \subseteq cache[n][d].signers \cup Vote!Signers(d)'
    PROVE  CacheSigned'
<1>1. cache \in [Node -> Cache]
  BY DEF TypeOK
<1>2. \A d \in Block : Vote!Signers(d) \subseteq Vote!Signers(d)'
  BY DEF Vote!Signers
<1>3. \A k \in Node : \A d \in Block :
        cache'[k][d].signers \subseteq cache[k][d].signers \cup Vote!Signers(d)'
  BY <1>1
<1>4. \A k \in Node : \A d \in Block : cache[k][d].signers \subseteq Vote!Signers(d)'
  BY <1>2 DEF CacheSigned
<1> QED BY <1>3, <1>4 DEF CacheSigned

LEMMA ToConsensusCore ==
    ASSUME TypeOK, CoreInv, NEW n \in Node, ToConsensus(n) PROVE CoreInv'
<1>1. UNCHANGED <<responses, commits, handed, syncResps, chain, abandoned>>
  BY DEF ToConsensus, ledgerVars
<1>2. CASE UNCHANGED <<policy, rounds, cache, signed, waiters>>
  BY <1>1, <1>2, CoreInvKept DEF coreVars
<1>3. CASE policy[n] = None /\ ~UNCHANGED <<policy, rounds, cache, signed, waiters>>
  <2>1. PICK b \in Block :
          /\ Producer[b] = n
          /\ policy' = [policy EXCEPT ![n] = b]
          /\ rounds' = [rounds EXCEPT ![n] = @ + 1]
          /\ \/ RequestIgnored(n) \/ RequestUnsigned(n, b)
             \/ RequestRepeated(n, b) \/ RequestAccepted(n, b)
    BY <1>3 DEF ToConsensus
  <2>2. \A u \in waiters[n] : abandoned[n]
    <3> SUFFICES ASSUME NEW u \in waiters[n], ~abandoned[n] PROVE FALSE
      OBVIOUS
    <3>1. u.block \in Block /\ u.block = None
      BY <1>3 DEF TypeOK, Waiter, CoreInv, WaitersCurrent
    <3> QED BY <3>1, CoreAssumption DEF AnyBlock
  <2>3. Grows
    BY <1>1, <2>1 DEF RequestIgnored, RequestUnsigned, RequestRepeated, RequestAccepted, Grows
  <2> DEFINE w == [block |-> b, round |-> rounds[n] + 1, id |-> 0, pc |-> "start",
                   result |-> FALSE, signers |-> {}]
             added == Add(cache[n], b, rounds[n] + 1)
             content == SetState(AddSignature(added[b], n), InConsensus)
  <2>4. waiters' = waiters \/ waiters' = [waiters EXCEPT ![n] = @ \cup {w}]
    BY <2>1 DEF RequestIgnored, RequestUnsigned, RequestRepeated, RequestAccepted
  <2>5. WaitersCurrent'
    <3> SUFFICES ASSUME NEW k \in Node PROVE Current(k)'
      BY DEF WaitersCurrent, Current
    <3>0. Current(k)
      BY CurrentMeaning DEF CoreInv
    <3>1. CASE k = n
      <4>1. policy'[n] = b /\ rounds'[n] = rounds[n] + 1
        BY <2>1 DEF TypeOK
      <4>2. waiters'[n] = waiters[n] \/ waiters'[n] = waiters[n] \cup {w}
        <5> HIDE DEF w
        <5> QED BY <2>4 DEF TypeOK
      <4>3. ASSUME NEW x \in waiters'[n]
            PROVE  /\ Producer[x.block] = n
                   /\ x.pc = "send" /\ x.result => HasQuorum(x.block, x.signers)'
                   /\ \/ abandoned'[n]
                      \/ waiters'[n] = {x} /\ x.block = b /\ x.round = rounds'[n]
        <5>1. CASE x \in waiters[n]
          <6>1. /\ Producer[x.block] = n /\ abandoned[n]
                /\ x.pc = "send" /\ x.result => HasQuorum(x.block, x.signers)
            BY <2>2, <3>0, <3>1, <5>1 DEF Current
          <6> QED BY <1>1, <2>3, <6>1, QuorumStable DEF Grows
        <5>2. CASE x \notin waiters[n]
          <6>1. x = w /\ waiters'[n] = waiters[n] \cup {w}
            <7> HIDE DEF w
            <7> QED BY <4>2, <4>3, <5>2
          <6>2. x.block = b /\ x.round = rounds'[n] /\ x.pc = "start"
            BY <4>1, <6>1
          <6>3. abandoned'[n] \/ waiters'[n] = {x}
            <7> HIDE DEF w
            <7> QED BY <1>1, <2>2, <6>1
          <6> QED BY <2>1, <6>2, <6>3
        <5> QED BY <5>1, <5>2
      <4> QED BY <2>1, <3>1, <4>1, <4>3 DEF Current
    <3>2. CASE k # n
      <4>1. waiters'[k] = waiters[k]
        <5> HIDE DEF w
        <5> QED BY <2>4, <3>2 DEF TypeOK
      <4>2. policy'[k] = policy[k] /\ rounds'[k] = rounds[k]
        BY <2>1, <3>2 DEF TypeOK
      <4> QED BY <2>3, <3>0, <4>1, <4>2, CurrentKept
    <3> QED BY <3>1, <3>2
  <2>6. CacheSigned'
    <3>1. rounds[n] + 1 \in Nat /\ cache[n] \in Cache
      BY CoreAssumption DEF TypeOK
    <3>2. \A d \in Block : added[d].signers \subseteq cache[n][d].signers
      BY <3>1, AddSigners
    <3>3. added \in Cache
      BY <3>1, CacheTypes
    <3>4. CASE RequestIgnored(n) \/ RequestUnsigned(n, b)
      BY <2>3, <3>4, CacheSignedKept DEF RequestIgnored, RequestUnsigned, CoreInv
    <3>5. CASE RequestRepeated(n, b)
      <4>1. cache' = [cache EXCEPT ![n] = added]
        BY <3>5 DEF RequestRepeated
      <4> HIDE DEF added
      <4> QED BY <2>3, <3>2, <4>1, CacheSignedGrows DEF CoreInv, Grows
    <3>6. CASE RequestAccepted(n, b)
      <4> DEFINE row == [added EXCEPT ![b] = content]
      <4>1. cache' = [cache EXCEPT ![n] = row] /\ <<n, b>> \in signed'
        BY <3>6 DEF RequestAccepted
      <4>2. n \in Vote!Signers(b)'
        BY <4>1, SameNodes DEF Vote!Signers
      <4>3. content.signers = added[b].signers \cup {n}
        <5>1. added[b] \in Content
          BY <3>3 DEF Cache
        <5> HIDE DEF added
        <5> QED BY <5>1 DEF AddSignature, SetState, Content
      <4> HIDE DEF content
      <4>4. \A d \in Block : row[d].signers \subseteq cache[n][d].signers \cup Vote!Signers(d)'
        <5> HIDE DEF added
        <5> QED BY <3>2, <3>3, <4>2, <4>3 DEF Cache
      <4> HIDE DEF row
      <4> QED BY <2>3, <4>1, <4>4, CacheSignedGrows DEF CoreInv, Grows
    <3> QED BY <2>1, <3>4, <3>5, <3>6
  <2> QED BY <1>1, <2>3, <2>5, <2>6, ResponsesSignedKept, CommitsCertifiedKept,
         CertifiedCommitKept, SyncCertifiedKept, ChainCertifiedKept DEF CoreInv
<1> QED BY <1>2, <1>3 DEF ToConsensus

LEMMA ReceiveProposalCore ==
    ASSUME TypeOK, CoreInv, NEW n \in Node, ReceiveProposal(n) PROVE CoreInv'
<1>1. PICK m \in proposals :
        FallBehind(n, m) \/ ProposalNotFromMaster(n, m) \/ ProposalFromMaster(n, m)
  BY DEF ReceiveProposal
<1>2. m.block \in Block
  BY DEF TypeOK, Proposal
<1>3. UNCHANGED <<waiters, policy, rounds, abandoned, commits, handed, syncResps, chain>>
  BY DEF ReceiveProposal, roundVars, ledgerVars
<1>4. CASE UNCHANGED <<cache, signed, responses>>
  BY <1>3, <1>4, CoreInvKept DEF coreVars
<1>5. CASE ProposalFromMaster(n, m)
  <2> DEFINE answer == [block |-> m.block, from |-> n, to |-> m.from, round |-> m.round]
  <2>1. \/ signed' = signed /\ responses' = responses
        \/ signed' = signed \cup {<<n, m.block>>} /\ responses' = responses \cup {answer}
    BY <1>5 DEF ProposalFromMaster
  <2>2. signed \subseteq signed' /\ Grows
    BY <1>3, <2>1 DEF Grows
  <2>3. ResponsesSigned'
    <3>1. answer.from = n /\ answer.block = m.block
      OBVIOUS
    <3> HIDE DEF answer
    <3> SUFFICES ASSUME NEW r \in responses' PROVE <<r.from, r.block>> \in signed'
      BY DEF ResponsesSigned
    <3>2. CASE r \in responses
      BY <2>2, <3>2 DEF CoreInv, ResponsesSigned
    <3>3. CASE r \notin responses
      BY <2>1, <3>1, <3>3
    <3> QED BY <3>2, <3>3
  <2>4. CacheSigned'
    <3> DEFINE row == Add(cache[n], m.block, 0)
    <3>1. cache[n] \in Cache /\ 0 \in Nat
      BY DEF TypeOK
    <3>2. \A d \in Block : row[d].signers \subseteq cache[n][d].signers
      BY <1>2, <3>1, AddSigners
    <3>3. cache' = [cache EXCEPT ![n] = row]
      BY <1>5 DEF ProposalFromMaster
    <3> HIDE DEF row
    <3> QED BY <2>2, <3>2, <3>3, CacheSignedGrows DEF CoreInv
  <2> QED BY <1>3, <2>2, <2>3, <2>4, WaitersCurrentKept, CommitsCertifiedKept,
         CertifiedCommitKept, SyncCertifiedKept, ChainCertifiedKept DEF CoreInv
<1> QED BY <1>1, <1>4, <1>5 DEF FallBehind, ProposalNotFromMaster

LEMMA ReceiveResponseCore ==
    ASSUME TypeOK, CoreInv, NEW n \in Node, ReceiveResponse(n) PROVE CoreInv'
<1>1. PICK m \in responses :
        /\ responses' = responses \ {m}
        /\ cache' = [cache EXCEPT ![n][m.block] = AddSignature(@, m.from)]
  BY DEF ReceiveResponse
<1>2. m.block \in Block /\ m.from \in Node
  BY DEF TypeOK, Response
<1>3. UNCHANGED <<waiters, policy, rounds, abandoned, commits, handed, syncResps, chain,
                  signed>>
  BY DEF ReceiveResponse, ledgerVars
<1>4. CacheSigned'
  <2> DEFINE t == AddSignature(cache[n][m.block], m.from)
             row == [cache[n] EXCEPT ![m.block] = t]
  <2>1. cache[n] \in Cache /\ cache[n][m.block] \in Content
    BY <1>2 DEF TypeOK, Cache
  <2>2. t.signers = cache[n][m.block].signers \cup {m.from}
    BY <2>1 DEF AddSignature, Content
  <2>3. m.from \in Vote!Signers(m.block)'
    BY <1>2, <1>3, SameNodes DEF CoreInv, ResponsesSigned, Vote!Signers
  <2>4. cache' = [cache EXCEPT ![n] = row]
    BY <1>1 DEF TypeOK
  <2> HIDE DEF t
  <2>5. \A d \in Block : row[d].signers \subseteq cache[n][d].signers \cup Vote!Signers(d)'
    BY <1>2, <2>1, <2>2, <2>3 DEF Cache
  <2> HIDE DEF row
  <2> QED BY <1>3, <2>4, <2>5, CacheSignedGrows DEF CoreInv
<1>5. responses' \subseteq responses /\ Grows
  BY <1>1, <1>3 DEF Grows
<1> QED BY <1>3, <1>4, <1>5, ResponsesSignedKept, WaitersCurrentKept, CommitsCertifiedKept,
       CertifiedCommitKept, SyncCertifiedKept, ChainCertifiedKept DEF CoreInv

LEMMA ReceiveCommitCore ==
    ASSUME TypeOK, CoreInv, NEW n \in Node, ReceiveCommit(n) PROVE CoreInv'
<1>1. PICK m \in commits :
        /\ commits' = commits \ {m}
        /\ CommitFailed(n, m) \/ CommitUnknown(n, m) \/ CommitKnown(n, m)
  BY DEF ReceiveCommit
<1>2. m.block \in Block
  BY DEF TypeOK, Commit
<1>3. UNCHANGED <<waiters, policy, rounds, abandoned, responses, syncResps, chain, signed>>
  BY DEF ReceiveCommit, roundVars, ledgerVars
<1>4. commits' \subseteq commits /\ Grows
  BY <1>1, <1>3 DEF Grows
<1>5. CacheSigned' /\ CertifiedCommit'
  <2>1. CASE UNCHANGED <<cache, handed>>
    BY <1>4, <2>1, CacheSignedKept, CertifiedCommitKept DEF CoreInv
  <2>2. CASE CommitKnown(n, m)
    <3>1. Covers(m.block, m.signers)
      BY <2>2 DEF CommitKnown, CoreInv, CommitsCertified
    <3>2. CommitBlock(n, m.block, m.signers)
      BY <2>2 DEF CommitKnown
    <3> QED BY <1>2, <1>3, <1>4, <3>1, <3>2, CommitBlockCore DEF CoreInv
  <2> QED BY <1>1, <2>1, <2>2 DEF CommitFailed, CommitUnknown
<1> QED BY <1>3, <1>4, <1>5, ResponsesSignedKept, WaitersCurrentKept, CommitsCertifiedKept,
       SyncCertifiedKept, ChainCertifiedKept DEF CoreInv

\* Storing a block that is accounted for.
LEMMA StoreBlockCore ==
    ASSUME TypeOK, ChainCertified, Grows, NEW n \in Node, NEW b \in Block,
           Accounted(b), StoreBlock(n, b)
    PROVE  ChainCertified'
<1> SUFFICES ASSUME NEW k \in Node, NEW c \in chain'[k] \ {Genesis} PROVE Accounted(c)'
  BY DEF ChainCertified
<1>1. c \in chain[k] \/ c = b
  BY DEF StoreBlock, TypeOK
<1>2. c \in Block /\ Accounted(c)
  BY <1>1 DEF ChainCertified, TypeOK, AnyBlock
<1> QED BY <1>2, AccountedStable

LEMMA WriteBlockCore ==
    ASSUME TypeOK, CoreInv, NEW n \in Node, WriteBlock(n) PROVE CoreInv'
<1>1. PICK c \in handed[n] : StoreBlock(n, c.block)
  BY DEF WriteBlock
<1>2. UNCHANGED <<responses, cache, waiters, policy, rounds, abandoned, commits, handed,
                  syncResps, signed>>
  BY DEF WriteBlock, pluginVars, roundVars, netVars
<1>3. Grows
  BY <1>2 DEF Grows
<1>4. c.block \in Block /\ Accounted(c.block)
  BY CoversAccounts DEF CoreInv, CertifiedCommit, TypeOK, Certificate
<1>5. ChainCertified'
  BY <1>1, <1>3, <1>4, StoreBlockCore DEF CoreInv
<1> QED BY <1>2, <1>3, <1>5, ResponsesSignedKept, CacheSignedKept, WaitersCurrentKept,
       CommitsCertifiedKept, CertifiedCommitKept, SyncCertifiedKept DEF CoreInv

LEMMA ReceiveSyncBlockRequestCore ==
    ASSUME TypeOK, CoreInv, NEW n \in Node, ReceiveSyncBlockRequest(n) PROVE CoreInv'
<1>1. PICK m \in syncReqs, b \in chain[n] \cap Block :
        syncResps' = syncResps \cup {[to |-> m.from, block |-> b]}
  BY DEF ReceiveSyncBlockRequest
<1>2. UNCHANGED <<responses, cache, waiters, policy, rounds, abandoned, commits, handed,
                  chain, signed>>
  BY DEF ReceiveSyncBlockRequest, pluginVars, roundVars, ledgerVars
<1>3. Grows
  BY <1>2 DEF Grows
<1>4. Accounted(b)
  BY BlockAssumption DEF CoreInv, ChainCertified
<1>5. SyncCertified'
  <2> SUFFICES ASSUME NEW r \in syncResps' PROVE Accounted(r.block)'
    BY DEF SyncCertified
  <2>1. r \in syncResps \/ r.block = b
    BY <1>1
  <2>2. r.block \in Block /\ Accounted(r.block)
    BY <1>4, <2>1 DEF CoreInv, SyncCertified, TypeOK, SyncBlockResp
  <2> QED BY <1>3, <2>2, AccountedStable
<1> QED BY <1>2, <1>3, <1>5, ResponsesSignedKept, CacheSignedKept, WaitersCurrentKept,
       CommitsCertifiedKept, CertifiedCommitKept, ChainCertifiedKept DEF CoreInv

LEMMA ReceiveSyncBlockResponseCore ==
    ASSUME TypeOK, CoreInv, NEW n \in Node, ReceiveSyncBlockResponse(n) PROVE CoreInv'
<1>1. PICK m \in syncResps : StoreBlock(n, m.block) /\ syncResps' = syncResps \ {m}
  BY DEF ReceiveSyncBlockResponse
<1>2. UNCHANGED <<responses, cache, waiters, policy, rounds, abandoned, commits, handed, signed>>
  BY DEF ReceiveSyncBlockResponse, pluginVars, roundVars
<1>3. syncResps' \subseteq syncResps /\ Grows
  BY <1>1, <1>2 DEF Grows
<1>4. m.block \in Block /\ Accounted(m.block)
  BY DEF CoreInv, SyncCertified, TypeOK, SyncBlockResp
<1>5. ChainCertified'
  BY <1>1, <1>3, <1>4, StoreBlockCore DEF CoreInv
<1> QED BY <1>2, <1>3, <1>5, ResponsesSignedKept, CacheSignedKept, WaitersCurrentKept,
       CommitsCertifiedKept, CertifiedCommitKept, SyncCertifiedKept DEF CoreInv

\* The handlers that touch nothing CoreInv speaks of.
LEMMA QuietSteps ==
    ASSUME NEW n \in Node,
           \/ Initialization(n) \/ TakeSyncRequest(n) \/ SendSyncBlockMsg(n) \/ FinishSync(n)
           \/ StartTimer(n) \/ TimerStopped(n) \/ TimerFires(n) \/ RequestView(n)
           \/ ReceiveChangeViewReq(n) \/ EndView(n)
    PROVE  UNCHANGED coreVars
  BY DEF Initialization, TakeSyncRequest, SendSyncBlockMsg, FinishSync, StartTimer,
     TimerStopped, TimerFires, RequestView, ReceiveChangeViewReq, EndView, coreVars,
     pluginVars, roundVars, ledgerVars, netVars

LEMMA CoreInit == Init => CoreInv
<1> SUFFICES ASSUME Init PROVE CoreInv
  OBVIOUS
<1>1. \A b \in Block : Vote!Signers(b) = {}
  BY DEF Init, Fresh, Vote!Signers
<1>2. CacheSigned
  BY <1>1 DEF Init, Fresh, CacheSigned, NoContent
<1>3. ChainCertified
  BY DEF Init, Fresh, ChainCertified
<1>4. ResponsesSigned /\ WaitersCurrent /\ CommitsCertified /\ CertifiedCommit /\ SyncCertified
  BY DEF Init, Fresh, ResponsesSigned, WaitersCurrent, CommitsCertified, CertifiedCommit,
     SyncCertified
<1> QED BY <1>2, <1>3, <1>4 DEF CoreInv

LEMMA CoreStep ==
    ASSUME TypeOK, CoreInv, [Next]_vars PROVE CoreInv'
<1>1. CASE UNCHANGED vars
  <2>1. UNCHANGED coreVars
    BY <1>1 DEF vars, coreVars, pluginVars, roundVars, ledgerVars, netVars
  <2> QED BY <2>1, CoreInvKept
<1>2. CASE Next
  <2>1. PICK n \in Node : Step(n)
    BY <1>2 DEF Next, Live
  <2>2. CASE \/ Initialization(n) \/ TakeSyncRequest(n) \/ SendSyncBlockMsg(n)
             \/ FinishSync(n) \/ StartTimer(n) \/ TimerStopped(n) \/ TimerFires(n)
             \/ RequestView(n) \/ ReceiveChangeViewReq(n) \/ EndView(n)
    <3>1. UNCHANGED coreVars
      BY <2>2, QuietSteps
    <3> QED BY <3>1, CoreInvKept
  <2>3. CASE \/ ToConsensus(n) \/ DeliverResult(n) \/ WaitTimeout(n) \/ WaiterStart(n)
             \/ CollectTimeout(n) \/ CollectSignal(n) \/ ReceiveProposal(n)
             \/ ReceiveResponse(n) \/ ReceiveCommit(n) \/ WriteBlock(n)
             \/ ReceiveSyncBlockRequest(n) \/ ReceiveSyncBlockResponse(n)
    BY <2>3, ToConsensusCore, DeliverResultCore, WaitTimeoutCore, WaiterStartCore,
       CollectCore, ReceiveProposalCore, ReceiveResponseCore, ReceiveCommitCore,
       WriteBlockCore, ReceiveSyncBlockRequestCore, ReceiveSyncBlockResponseCore
  <2> QED BY <2>1, <2>2, <2>3 DEF Step
<1> QED BY <1>1, <1>2

\* Every certificate that travels is a quorum of real signatures, for the very block
\* it travels with unless the producer of that block has abandoned a round; until
\* then every result belongs to the round that waits for it.
THEOREM CoreInvariant == Spec => []CoreInv
<1>1. TypeInv => TypeOK
  BY DEF TypeInv
<1>2. TypeOK /\ CoreInv /\ [Next]_vars => CoreInv'
  BY CoreStep
<1> QED BY <1>1, <1>2, CoreInit, TypeInvariant, PTL DEF Spec

\* commitBlock hands over blocks with a quorum of signatures, on that block or, after
\* an abandoned round, on another one of its producer.
THEOREM CertifiedCommitHolds == Spec => []CertifiedCommit
<1>1. CoreInv => CertifiedCommit
  BY DEF CoreInv
<1> QED BY <1>1, CoreInvariant, PTL

\* The repositories hold certified blocks, synchronised ones included; only blocks of
\* a producer that has abandoned a round may lack a quorum.
THEOREM ChainCertifiedHolds == Spec => []ChainCertified
<1>1. CoreInv => ChainCertified
  BY DEF CoreInv
<1> QED BY <1>1, CoreInvariant, PTL

-----------------------------------------------------------------------------
(* FbftCore implements Voting *)

\* A step that stores a certified block is a Store of the abstract protocol.
LEMMA StoreRefines ==
    ASSUME NEW n \in Node, NEW b \in Block, Vote!Certified(b), StoreBlock(n, b),
           UNCHANGED signed
    PROVE  Vote!Next
<1>1. Vote!Store(n, b)
  BY DEF StoreBlock, Vote!Store, Vote!Extend
<1> QED BY <1>1, SameNodes DEF Vote!Next

\* A step that signs on top of a stored parent is a Sign.
LEMMA SignRefines ==
    ASSUME NEW n \in Node, NEW b \in Block, Parent[b] \in chain[n],
           signed' = signed \cup {<<n, b>>}, UNCHANGED <<chain, tip>>
    PROVE  Vote!Next
<1>1. Vote!Sign(n, b)
  BY DEF Vote!Sign
<1> QED BY <1>1, SameNodes DEF Vote!Next

\* ToConsensus and receiveProposal sign on top of a stored block, if at all.
LEMMA SignsOnStored ==
    ASSUME TypeOK, NEW n \in Node, ToConsensus(n) \/ ReceiveProposal(n)
    PROVE  \/ UNCHANGED signed
           \/ \E b \in Block : Parent[b] \in chain[n] /\ signed' = signed \cup {<<n, b>>}
<1> SUFFICES ASSUME ~UNCHANGED signed
             PROVE  \E b \in Block : Parent[b] \in chain[n] /\ signed' = signed \cup {<<n, b>>}
  OBVIOUS
<1>1. CASE ToConsensus(n)
  <2>1. PICK b \in Block : /\ Parent[b] \in chain[n]
                           /\ RequestRepeated(n, b) \/ RequestAccepted(n, b)
    BY <1>1 DEF ToConsensus, RequestIgnored, RequestUnsigned
  <2>2. signed' = signed \cup {<<n, b>>}
    BY <2>1 DEF RequestRepeated, RequestAccepted
  <2> QED BY <2>1, <2>2
<1>2. CASE ReceiveProposal(n)
  <2>1. PICK m \in proposals : ProposalFromMaster(n, m)
    BY <1>2 DEF ReceiveProposal, FallBehind, ProposalNotFromMaster
  <2>2. /\ signed' = signed \cup {<<n, m.block>>}
        /\ Parent[m.block] \in chain[n]
    BY <2>1 DEF ProposalFromMaster, VerifyPayload
  <2>3. m.block \in Block
    BY DEF TypeOK, Proposal
  <2> QED BY <2>2, <2>3
<1> QED BY <1>1, <1>2

\* The other steps that do not store a block change neither signatures nor chains.
LEMMA OthersKeepLedger ==
    ASSUME NEW n \in Node, Step(n), ~ToConsensus(n), ~ReceiveProposal(n), ~WriteBlock(n),
           ~ReceiveSyncBlockResponse(n)
    PROVE  UNCHANGED <<signed, chain, tip>>
  BY DEF Step, Initialization, DeliverResult, WaitTimeout, WaiterStart, CollectTimeout,
     CollectSignal, ReceiveResponse, ReceiveCommit, TakeSyncRequest, SendSyncBlockMsg,
     FinishSync, ReceiveSyncBlockRequest, StartTimer, TimerStopped, TimerFires,
     RequestView, ReceiveChangeViewReq, EndView, ledgerVars

\* A block stored in a step after which nobody has abandoned a round is certified.
LEMMA StoringRefines ==
    ASSUME TypeOK, CoreInv, NEW n \in Node, WriteBlock(n) \/ ReceiveSyncBlockResponse(n),
           NoneAbandoned'
    PROVE  Vote!Next
<1>1. UNCHANGED <<signed, abandoned>>
  BY DEF WriteBlock, ReceiveSyncBlockResponse, roundVars
<1>2. \A b \in Block : Accounted(b) => Vote!Certified(b)
  BY <1>1, CoreAssumption DEF Accounted, NoneAbandoned
<1>3. CASE WriteBlock(n)
  <2>1. PICK c \in handed[n] : StoreBlock(n, c.block)
    BY <1>3 DEF WriteBlock
  <2>2. c.block \in Block /\ Accounted(c.block)
    BY CoversAccounts DEF TypeOK, Certificate, CoreInv, CertifiedCommit
  <2> QED BY <1>1, <1>2, <2>1, <2>2, StoreRefines
<1>4. CASE ReceiveSyncBlockResponse(n)
  <2>1. PICK m \in syncResps : StoreBlock(n, m.block)
    BY <1>4 DEF ReceiveSyncBlockResponse
  <2>2. m.block \in Block /\ Accounted(m.block)
    BY DEF TypeOK, SyncBlockResp, CoreInv, SyncCertified
  <2> QED BY <1>1, <1>2, <2>1, <2>2, StoreRefines
<1> QED BY <1>3, <1>4

LEMMA StepRefines ==
    ASSUME TypeOK, CoreInv, [Next]_vars, NoneAbandoned' PROVE [Vote!Next]_(Vote!votingVars)
<1>1. CASE UNCHANGED vars
  BY <1>1 DEF vars, ledgerVars, Vote!votingVars
<1>2. CASE Next
  <2>1. PICK n \in Node : Step(n)
    BY <1>2 DEF Next, Live
  <2>2. CASE ToConsensus(n) \/ ReceiveProposal(n)
    <3>1. UNCHANGED <<chain, tip>>
      BY <2>2 DEF ToConsensus, ReceiveProposal, ledgerVars
    <3>2. CASE UNCHANGED signed
      BY <3>1, <3>2 DEF Vote!votingVars
    <3>3. CASE \E b \in Block : Parent[b] \in chain[n] /\ signed' = signed \cup {<<n, b>>}
      BY <3>1, <3>3, SignRefines
    <3> QED BY <2>2, <3>2, <3>3, SignsOnStored
  <2>3. CASE WriteBlock(n) \/ ReceiveSyncBlockResponse(n)
    BY <2>3, StoringRefines
  <2>4. CASE ~ToConsensus(n) /\ ~ReceiveProposal(n) /\ ~WriteBlock(n)
             /\ ~ReceiveSyncBlockResponse(n)
    BY <2>1, <2>4, OthersKeepLedger DEF Vote!votingVars
  <2> QED BY <2>2, <2>3, <2>4
<1> QED BY <1>1, <1>2

\* Seen from its repositories and signatures the FBFT policy is the voting protocol,
\* up to the moment somebody abandons a round.
THEOREM RefinesVoting == Spec => ImplementsVoting
<1>1. Init => Vote!Init
  BY SameNodes DEF Init, Fresh, Vote!Init
<1>2. TypeOK /\ CoreInv /\ [Next]_vars => [VotingStep]_vars
  BY StepRefines DEF VotingStep
<1> QED BY <1>1, <1>2, CoreInvariant, TypeCorrect, PTL DEF Spec, ImplementsVoting

VoteProof == INSTANCE VotingProofs

LEMMA VoteAssumptions == VoteProof!NAssumption /\ VoteProof!BlockAssumption
  BY NAssumption, BlockAssumption DEF AnyBlock, VoteProof!AnyBlock

\* The instance of module Voting and that of its proofs are the same protocol.
LEMMA SameProtocol ==
    /\ Vote!Init => VoteProof!Init
    /\ [Vote!Next]_(Vote!votingVars) => [VoteProof!Next]_(VoteProof!votingVars)
    /\ VoteProof!Finality => Vote!Finality
    /\ VoteProof!ParentAgreement => Vote!ParentAgreement
<1>1. \A S : VoteProof!Cardinality(S) = Vote!Cardinality(S)
  BY DEF VoteProof!Cardinality, Vote!Cardinality
<1>2. VoteProof!Node = Vote!Node /\ VoteProof!Quorum = Vote!Quorum
  BY DEF VoteProof!Node, Vote!Node, VoteProof!Quorum, Vote!Quorum, VoteProof!Tolerance,
     Vote!Tolerance
<1>3. \A b : VoteProof!Certified(b) <=> Vote!Certified(b)
  BY <1>1, <1>2 DEF VoteProof!Certified, Vote!Certified, VoteProof!Signers, Vote!Signers
<1>4. ASSUME NEW n, NEW b
      PROVE  /\ Vote!Sign(n, b) => VoteProof!Sign(n, b)
             /\ Vote!Store(n, b) => VoteProof!Store(n, b)
  BY <1>3 DEF Vote!Sign, VoteProof!Sign, Vote!Store, VoteProof!Store, Vote!Extend,
     VoteProof!Extend
<1>5. Vote!Next => VoteProof!Next
  BY <1>2, <1>4 DEF Vote!Next, VoteProof!Next
<1>6. Vote!Init => VoteProof!Init
  BY <1>2 DEF Vote!Init, VoteProof!Init
<1>7. VoteProof!Finality => Vote!Finality
  BY <1>2 DEF VoteProof!Finality, Vote!Finality
<1>8. VoteProof!ParentAgreement => Vote!ParentAgreement
  BY <1>3 DEF VoteProof!ParentAgreement, Vote!ParentAgreement
<1> QED BY <1>5, <1>6, <1>7, <1>8 DEF Vote!votingVars, VoteProof!votingVars

\* An abandoned round stays abandoned.
LEMMA AbandonedKept ==
    ASSUME TypeOK, [Next]_vars, NEW n \in Node, abandoned[n] PROVE abandoned'[n]
<1>1. CASE UNCHANGED vars
  BY <1>1 DEF vars, roundVars
<1>2. ASSUME NEW k \in Node, WaitTimeout(k) PROVE abandoned'[n]
  BY <1>2 DEF WaitTimeout, TypeOK
<1>3. ASSUME NEW k \in Node, Step(k), ~WaitTimeout(k) PROVE abandoned'[n]
  BY <1>3 DEF Step, Initialization, ToConsensus, DeliverResult, WaiterStart, CollectTimeout,
     CollectSignal, ReceiveProposal, ReceiveResponse, ReceiveCommit, WriteBlock,
     TakeSyncRequest, SendSyncBlockMsg, FinishSync, ReceiveSyncBlockRequest,
     ReceiveSyncBlockResponse, StartTimer, TimerStopped, TimerFires, RequestView,
     ReceiveChangeViewReq, EndView, roundVars
<1> QED BY <1>1, <1>2, <1>3 DEF Next, Live

\* The voting protocol's invariant holds while its steps are taken.
VotedInv == NoneAbandoned => VoteProof!VotingInv

LEMMA VotedStep ==
    ASSUME TypeOK, CoreInv, VotedInv, [Next]_vars PROVE VotedInv'
<1> SUFFICES ASSUME NoneAbandoned' PROVE VoteProof!VotingInv'
  BY DEF VotedInv
<1>1. NoneAbandoned
  BY AbandonedKept DEF NoneAbandoned
<1>2. [VoteProof!Next]_(VoteProof!votingVars)
  BY StepRefines, SameProtocol
<1>3. VoteProof!VotingInv
  BY <1>1 DEF VotedInv
<1> QED BY <1>2, <1>3, VoteAssumptions, VoteProof!VotingInvStep

\* Until a round is abandoned, blocks below the current ones are final.
Final == NoneAbandoned => Vote!Finality

\* Below their current blocks the repositories of any two FBFT nodes agree, although
\* rival blocks of one height can both be committed, until a ToConsensus gives up
\* on a round that is still collecting.
THEOREM FbftFinality == Spec => []Final
<1>1. Init => VotedInv
  <2>1. Init => Vote!Init
    BY SameNodes DEF Init, Fresh, Vote!Init
  <2> QED BY <2>1, SameProtocol, VoteAssumptions, VoteProof!VotingInit DEF VotedInv
<1>2. TypeOK /\ CoreInv /\ VotedInv /\ [Next]_vars => VotedInv'
  BY VotedStep
<1>3. VotedInv => Final
  BY VoteAssumptions, VoteProof!InvImpliesFinality, SameProtocol DEF VotedInv, Final
<1> QED BY <1>1, <1>2, <1>3, CoreInvariant, TypeCorrect, PTL DEF Spec

-----------------------------------------------------------------------------
(* Whatever is abandoned, a node signs on top of what it has stored and its  *)
(* repository is a chain.                                                    *)

LEMMA SignLedger ==
    ASSUME VoteProof!LedgerInv, NEW n \in Node, NEW b \in Block, Parent[b] \in chain[n],
           signed' = signed \cup {<<n, b>>}, UNCHANGED <<chain, tip>>
    PROVE  VoteProof!LedgerInv'
<1>1. VoteProof!Sign(n, b) /\ n \in VoteProof!Node
  BY DEF VoteProof!Sign, VoteProof!Node, Node
<1> QED BY <1>1, VoteAssumptions, VoteProof!SignKeepsLedger

LEMMA StoreLedger ==
    ASSUME VoteProof!LedgerInv, NEW n \in Node, NEW b \in Block, StoreBlock(n, b),
           UNCHANGED signed
    PROVE  VoteProof!LedgerInv'
<1>1. VoteProof!Extend(n, b) /\ n \in VoteProof!Node
  BY DEF VoteProof!Extend, StoreBlock, VoteProof!Node, Node
<1> QED BY <1>1, VoteAssumptions, VoteProof!ExtendKeepsLedger

LEMMA LedgerStep ==
    ASSUME TypeOK, VoteProof!LedgerInv, [Next]_vars PROVE VoteProof!LedgerInv'
<1>1. ASSUME UNCHANGED <<signed, chain, tip>> PROVE VoteProof!LedgerInv'
  BY <1>1, VoteAssumptions, VoteProof!LedgerKept DEF VoteProof!votingVars
<1>2. CASE UNCHANGED vars
  BY <1>1, <1>2 DEF vars, ledgerVars
<1>3. CASE Next
  <2>1. PICK n \in Node : Step(n)
    BY <1>3 DEF Next, Live
  <2>2. CASE ToConsensus(n) \/ ReceiveProposal(n)
    <3>1. UNCHANGED <<chain, tip>>
      BY <2>2 DEF ToConsensus, ReceiveProposal, ledgerVars
    <3>2. \/ UNCHANGED signed
          \/ \E b \in Block : Parent[b] \in chain[n] /\ signed' = signed \cup {<<n, b>>}
      BY <2>2, SignsOnStored
    <3> QED BY <1>1, <3>1, <3>2, SignLedger
  <2>3. CASE WriteBlock(n)
    <3>1. PICK c \in handed[n] : StoreBlock(n, c.block) /\ UNCHANGED signed
      BY <2>3 DEF WriteBlock
    <3> QED BY <3>1, StoreLedger DEF TypeOK, Certificate
  <2>4. CASE ReceiveSyncBlockResponse(n)
    <3>1. PICK m \in syncResps : StoreBlock(n, m.block) /\ UNCHANGED signed
      BY <2>4 DEF ReceiveSyncBlockResponse
    <3> QED BY <3>1, StoreLedger DEF TypeOK, SyncBlockResp
  <2>5. CASE ~ToConsensus(n) /\ ~ReceiveProposal(n) /\ ~WriteBlock(n)
             /\ ~ReceiveSyncBlockResponse(n)
    BY <1>1, <2>1, <2>5, OthersKeepLedger
  <2> QED BY <2>2, <2>3, <2>4, <2>5
<1> QED BY <1>2, <1>3

\* FBFT never certifies two blocks of a height on different parents: a fork that a
\* lost commit message and a view change leave behind is one block deep, and rounds
\* that are abandoned change nothing about it.
THEOREM FbftParentAgreement == Spec => []Vote!ParentAgreement
<1>1. Init => VoteProof!LedgerInv
  <2>1. Init => Vote!Init
    BY SameNodes DEF Init, Fresh, Vote!Init
  <2> QED BY <2>1, SameProtocol, VoteAssumptions, VoteProof!VotingInit DEF VoteProof!VotingInv
<1>2. TypeOK /\ VoteProof!LedgerInv /\ [Next]_vars => VoteProof!LedgerInv'
  BY LedgerStep
<1>3. VoteProof!LedgerInv => Vote!ParentAgreement
  BY VoteAssumptions, VoteProof!LedgerImpliesParentAgreement, SameProtocol
<1> QED BY <1>1, <1>2, <1>3, TypeCorrect, PTL DEF Spec

-----------------------------------------------------------------------------
(* The view change: a node enters a view only after a quorum has timed out   *)
(* on the one it leaves behind, and elects one of those that did.            *)

\* The set of nodes that asked for a view only grows, and is finite.
LEMMA AskersGrow ==
    ASSUME asked \subseteq asked', NEW v
    PROVE  /\ Askers(v) \subseteq Askers(v)'
           /\ Cardinality(Askers(v)) >= Quorum => Cardinality(Askers(v)') >= Quorum
<1>1. Askers(v) \subseteq Askers(v)' /\ Askers(v)' \subseteq Node
  BY DEF Askers
<1>2. IsFiniteSet(Node)
  BY NAssumption, FS_Interval DEF Node
<1>3. IsFiniteSet(Askers(v)') /\ IsFiniteSet(Askers(v))
  BY <1>1, <1>2, FS_Subset
<1>4. /\ Cardinality(Askers(v)) \in Nat /\ Cardinality(Askers(v)') \in Nat
      /\ Cardinality(Askers(v)) <= Cardinality(Askers(v)')
  BY <1>1, <1>3, FS_Subset, FS_CardinalityType
<1>5. Quorum \in Nat
  BY NAssumption DEF Quorum, Tolerance
<1> QED BY <1>1, <1>4, <1>5

\* A list of requests that ends a view witnesses a quorum of timeouts.
LEMMA EndedViewAsked ==
    ASSUME NEW v, NEW S \in SUBSET Askers(v), ViewEnd(S)
    PROVE  Cardinality(Askers(v)) >= Quorum
<1>1. Askers(v) \subseteq Node
  BY DEF Askers
<1>2. IsFiniteSet(Node)
  BY NAssumption, FS_Interval DEF Node
<1>3. IsFiniteSet(Askers(v)) /\ IsFiniteSet(S)
  BY <1>1, <1>2, FS_Subset
<1>4. /\ Cardinality(S) \in Nat /\ Cardinality(Askers(v)) \in Nat
      /\ Cardinality(S) <= Cardinality(Askers(v))
  BY <1>3, FS_Subset, FS_CardinalityType
<1>5. Quorum \in Nat
  BY NAssumption DEF Quorum, Tolerance
<1> QED BY <1>4, <1>5 DEF ViewEnd

\* ViewInv without the part TypeInv already holds.
AskedInv == RequestsAsked /\ ListsAsked /\ ViewCertificate

LEMMA AskedInvKept ==
    ASSUME AskedInv, UNCHANGED <<viewReqs, requests, view, asked>> PROVE AskedInv'
  BY DEF AskedInv, RequestsAsked, ListsAsked, ViewCertificate, Askers

LEMMA RequestViewAsked ==
    ASSUME TypeInv, AskedInv, NEW n \in Node, RequestView(n) PROVE AskedInv'
<1>1. /\ asked' = asked \cup {<<n, view[n] + 1>>}
      /\ viewReqs' = viewReqs \cup
            {[from |-> n, to |-> p, view |-> view[n] + 1, nodes |-> {n}] : p \in Node}
      /\ UNCHANGED <<view, requests>>
  BY DEF RequestView
<1>2. asked \subseteq asked'
  BY <1>1
<1>3. RequestsAsked'
  <2> SUFFICES ASSUME NEW m \in viewReqs' PROVE m.nodes \subseteq Askers(m.view)'
    BY DEF RequestsAsked
  <2>1. CASE m \in viewReqs
    BY <1>2, <2>1, AskersGrow DEF AskedInv, RequestsAsked
  <2>2. CASE m \notin viewReqs
    <3>1. m.nodes = {n} /\ m.view = view[n] + 1
      BY <1>1, <2>2
    <3> QED BY <1>1, <3>1 DEF Askers
  <2> QED BY <2>1, <2>2
<1>4. ListsAsked'
  <2> SUFFICES ASSUME NEW k \in Node, NEW v \in View PROVE requests[k][v] \subseteq Askers(v)'
    BY <1>1 DEF ListsAsked
  <2>1. requests[k][v] \subseteq Askers(v)
    BY DEF AskedInv, ListsAsked
  <2> QED BY <1>2, <2>1, AskersGrow
<1>5. ViewCertificate'
  BY <1>1, <1>2, AskersGrow DEF AskedInv, ViewCertificate
<1> QED BY <1>3, <1>4, <1>5 DEF AskedInv

LEMMA ReceiveChangeViewReqAsked ==
    ASSUME TypeInv, AskedInv, NEW n \in Node, ReceiveChangeViewReq(n) PROVE AskedInv'
<1> DEFINE old(m) == requests[n][m.view]
           new(m) == IF ViewEnd(old(m)) THEN old(m) ELSE old(m) \cup m.nodes
<1>1. PICK m \in viewReqs :
        /\ viewReqs' = viewReqs \ {m}
        /\ requests' = [requests EXCEPT ![n][m.view] = new(m)]
  BY DEF ReceiveChangeViewReq
<1>2. UNCHANGED <<view, asked>>
  BY DEF ReceiveChangeViewReq
<1>3. m.view \in View /\ requests \in [Node -> [View -> SUBSET Node]]
  BY DEF TypeInv, TypeOK, ViewChangeReq
<1>4. RequestsAsked' /\ ViewCertificate'
  BY <1>1, <1>2 DEF AskedInv, RequestsAsked, ViewCertificate, Askers
<1>5. ListsAsked'
  <2>1. new(m) \subseteq Askers(m.view)
    BY <1>3 DEF AskedInv, RequestsAsked, ListsAsked
  <2> HIDE DEF new
  <2> SUFFICES ASSUME NEW k \in Node, NEW v \in View PROVE requests'[k][v] \subseteq Askers(v)
    BY <1>2 DEF ListsAsked, Askers
  <2>2. requests'[k][v] = IF k = n /\ v = m.view THEN new(m) ELSE requests[k][v]
    BY <1>1, <1>3
  <2>3. requests[k][v] \subseteq Askers(v)
    BY DEF AskedInv, ListsAsked
  <2> QED BY <2>1, <2>2, <2>3
<1> QED BY <1>4, <1>5 DEF AskedInv

LEMMA EndViewAsked ==
    ASSUME TypeInv, AskedInv, NEW n \in Node, EndView(n)
    PROVE  /\ AskedInv'
           /\ \A k \in Node : view'[k] # view[k] => <<master'[k], view'[k]>> \in asked
<1>1. PICK m \in ending[n] :
        /\ viewReqs' = viewReqs \cup
              {[from |-> n, to |-> p, view |-> m.view, nodes |-> {}] : p \in Peer(n)}
        /\ view' = [view EXCEPT ![n] = m.view]
        /\ master' = [master EXCEPT ![n] = AccountWithMinId(requests[n][m.view])]
  BY DEF EndView
<1>2. UNCHANGED <<requests, asked>>
  BY DEF EndView
<1>3. m.view \in View /\ requests[n][m.view] \in SUBSET Node
  BY DEF TypeInv, TypeOK, ViewChangeReq
<1>4. ViewEnd(requests[n][m.view]) /\ requests[n][m.view] \subseteq Askers(m.view)
  BY <1>3 DEF TypeInv, EndingEnough, AskedInv, ListsAsked
<1>5. RequestsAsked'
  <2> SUFFICES ASSUME NEW r \in viewReqs' PROVE r.nodes \subseteq Askers(r.view)
    BY <1>2 DEF RequestsAsked, Askers
  <2>1. r \in viewReqs \/ r.nodes = {}
    BY <1>1
  <2> QED BY <2>1 DEF AskedInv, RequestsAsked
<1>6. ListsAsked'
  BY <1>2 DEF AskedInv, ListsAsked, Askers
<1>7. ViewCertificate'
  <2> SUFFICES ASSUME NEW k \in Node, view'[k] > 0
               PROVE  Cardinality(Askers(view'[k])) >= Quorum
    BY <1>2 DEF ViewCertificate, Askers
  <2>1. CASE k = n
    <3>1. view'[k] = m.view
      BY <1>1, <2>1 DEF TypeInv, TypeOK
    <3> QED BY <1>4, <3>1, EndedViewAsked
  <2>2. CASE k # n
    <3>1. view'[k] = view[k]
      BY <1>1, <2>2 DEF TypeInv, TypeOK
    <3> QED BY <3>1 DEF AskedInv, ViewCertificate
  <2> QED BY <2>1, <2>2
<1>8. AccountWithMinId(requests[n][m.view]) \in requests[n][m.view]
  <2>1. requests[n][m.view] # {}
    BY <1>4, ViewEndNonEmpty
  <2> QED BY <1>3, <2>1, MinIdExists
<1>9. ASSUME NEW k \in Node, view'[k] # view[k] PROVE <<master'[k], view'[k]>> \in asked
  <2>1. k = n /\ view'[n] = m.view /\ master'[n] = AccountWithMinId(requests[n][m.view])
    BY <1>1, <1>9 DEF TypeInv, TypeOK
  <2>2. AccountWithMinId(requests[n][m.view]) \in Askers(m.view)
    BY <1>4, <1>8
  <2> QED BY <2>1, <2>2 DEF Askers
<1> QED BY <1>5, <1>6, <1>7, <1>9 DEF AskedInv

\* Every step keeps AskedInv and elects only nodes that asked for the new view.
LEMMA ViewStep ==
    ASSUME TypeInv, AskedInv, [Next]_vars
    PROVE  /\ AskedInv'
           /\ \A k \in Node : view'[k] # view[k] => <<master'[k], view'[k]>> \in asked
<1>1. CASE UNCHANGED vars
  <2>1. UNCHANGED <<viewReqs, requests, view, asked>>
    BY <1>1 DEF vars, viewVars, netVars
  <2> QED BY <2>1, AskedInvKept
<1>2. CASE Next
  <2>1. PICK n \in Node : Step(n)
    BY <1>2 DEF Next, Live
  <2>2. CASE RequestView(n)
    <3>1. view' = view
      BY <2>2 DEF RequestView
    <3> QED BY <2>2, <3>1, RequestViewAsked
  <2>3. CASE ReceiveChangeViewReq(n)
    <3>1. view' = view
      BY <2>3 DEF ReceiveChangeViewReq
    <3> QED BY <2>3, <3>1, ReceiveChangeViewReqAsked
  <2>4. CASE EndView(n)
    BY <2>4, EndViewAsked
  <2>5. CASE \/ Initialization(n) \/ ToConsensus(n) \/ DeliverResult(n) \/ WaitTimeout(n)
             \/ WaiterStart(n) \/ CollectTimeout(n) \/ CollectSignal(n)
             \/ ReceiveProposal(n) \/ ReceiveResponse(n) \/ ReceiveCommit(n)
             \/ WriteBlock(n) \/ TakeSyncRequest(n) \/ SendSyncBlockMsg(n) \/ FinishSync(n)
             \/ ReceiveSyncBlockRequest(n) \/ ReceiveSyncBlockResponse(n)
             \/ StartTimer(n) \/ TimerStopped(n) \/ TimerFires(n)
    <3>1. UNCHANGED <<viewReqs, requests, view, asked>>
      BY <2>5 DEF Initialization, ToConsensus, DeliverResult, WaitTimeout, WaiterStart,
         CollectTimeout, CollectSignal, ReceiveProposal, ReceiveResponse, ReceiveCommit,
         WriteBlock, TakeSyncRequest, SendSyncBlockMsg, FinishSync,
         ReceiveSyncBlockRequest, ReceiveSyncBlockResponse, StartTimer, TimerStopped,
         TimerFires, viewVars, netVars
    <3> QED BY <3>1, AskedInvKept
  <2> QED BY <2>1, <2>2, <2>3, <2>4, <2>5 DEF Step
<1> QED BY <1>1, <1>2

\* Nobody votes for a node that did not time out, and the list a master is
\* elected from has a quorum: the inductive invariant of the view change.
THEOREM ViewInvariant == Spec => []ViewInv
<1>1. Init => AskedInv
  BY DEF Init, Fresh, AskedInv, RequestsAsked, ListsAsked, ViewCertificate
<1>2. TypeInv /\ AskedInv /\ [Next]_vars => AskedInv'
  BY ViewStep
<1>3. TypeInv /\ AskedInv => ViewInv
  BY DEF TypeInv, AskedInv, ViewInv
<1> QED BY <1>1, <1>2, <1>3, TypeInvariant, PTL DEF Spec

\* A node is in a view only if a quorum of nodes timed out and asked for it.
THEOREM ViewCertificateHolds == Spec => []ViewCertificate
<1>1. ViewInv => ViewCertificate
  BY DEF ViewInv
<1> QED BY <1>1, ViewInvariant, PTL

\* A view change makes a node master that itself asked for the new view, so a
\* node that is down is never elected.
THEOREM ElectedAskedHolds == Spec => ElectedAsked
<1>1. TypeInv /\ ViewInv /\ [Next]_vars =>
        [\A n \in Node : view'[n] # view[n] => <<master'[n], view'[n]>> \in asked]_vars
  <2> SUFFICES ASSUME TypeInv, ViewInv, [Next]_vars
               PROVE  \A n \in Node : view'[n] # view[n] => <<master'[n], view'[n]>> \in asked
    OBVIOUS
  <2>1. AskedInv
    BY DEF ViewInv, AskedInv
  <2> QED BY <2>1, ViewStep
<1> QED BY <1>1, TypeInvariant, ViewInvariant, PTL DEF Spec, ElectedAsked
=============================================================================
