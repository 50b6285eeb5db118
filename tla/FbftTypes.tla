----------------------------- MODULE FbftTypes ------------------------------
(***************************************************************************)
(* Type correctness of module FbftCore, and what its content cache holds,  *)
(* for any number of nodes, any tree of blocks and any bounds.             *)
(***************************************************************************)
EXTENDS FbftCore, FiniteSetTheorems, WellFoundedInduction, TLAPS

\* GetAccountWithMinId returns a member of a non-empty list, the least one.
LEMMA MinIdExists ==
    ASSUME NEW S \in SUBSET Node, S # {}
    PROVE  AccountWithMinId(S) \in S /\ \A j \in S : AccountWithMinId(S) <= j
<1> DEFINE R == {ss \in Nat \X Nat : ss[1] < ss[2]}
<1>1. R = OpToRel(<, Nat)
  BY DEF OpToRel
<1>2. IsWellFoundedOn(R, Nat)
  BY <1>1, NatLessThanWellFounded
<1>3. S \subseteq Nat
  BY NAssumption DEF Node
<1> HIDE DEF R
<1>4. PICK i \in S : \A j \in S : ~(<<j, i>> \in R)
  BY <1>2, <1>3, WFMin
<1>5. ASSUME NEW j \in S PROVE i <= j
  <2>1. <<j, i>> \notin R /\ i \in Nat /\ j \in Nat
    BY <1>3, <1>4
  <2> QED BY <2>1 DEF R
<1> QED BY <1>5 DEF AccountWithMinId

\* The role policy names a participant.
LEMMA RoleMasterIsNode == \A h \in Nat : RoleMaster(h) \in Node
  BY NAssumption DEF RoleMaster, Node

\* The operators of the content cache stay within its type.
LEMMA CacheTypes ==
    ASSUME NEW c \in Cache, NEW b \in Block, NEW r \in Nat, NEW n \in Node
    PROVE  /\ Add(c, b, r) \in Cache
           /\ Remove(c, b) \in Cache
           /\ \A t \in Content : AddSignature(t, n) \in Content
           /\ \A t \in Content, s \in 0 .. 3 : SetState(t, s) \in Content
<1>1. NoContent \in Content /\ NewContent(r) \in Content
  BY DEF NoContent, NewContent, Content, Absent, Initial
<1>2. Add(c, b, r) \in Cache
  BY <1>1 DEF Add, Cache
<1>3. Remove(c, b) \in Cache
  BY <1>1 DEF Remove, Cache
<1>4. \A t \in Content : AddSignature(t, n) \in Content
  BY DEF AddSignature, Content
<1>5. \A t \in Content, s \in 0 .. 3 : SetState(t, s) \in Content
  BY DEF SetState, Content
<1> QED BY <1>2, <1>3, <1>4, <1>5

LEMMA InitTypes == Init => TypeOK
<1>1. NoContent \in Content
  BY DEF NoContent, Content, Absent
<1>2. Height[Genesis] \in Nat /\ Genesis \in AnyBlock
  BY BlockAssumption DEF AnyBlock
<1> QED BY <1>1, <1>2, RoleMasterIsNode, CoreAssumption DEF Init, Fresh, TypeOK, Cache, Event

\* The pieces the handlers share stay within the types.
LEMMA SharedTypes ==
    ASSUME TypeOK, NEW n \in Node
    PROVE  /\ GoWaitMasterTimeout(n) => starts' \in [Node -> 0 .. MaxStarts]
           /\ StopChangeViewTimer(n) => timer' \in [Node -> {"off", "armed", "stopping", "fired"}]
           /\ \A e \in Event : Notify(n, e) => events' \in [Node -> SUBSET Event]
<1>1. starts \in [Node -> 0 .. MaxStarts] /\ MaxStarts \in Nat
  BY CoreAssumption DEF TypeOK
<1>2. GoWaitMasterTimeout(n) => starts' \in [Node -> 0 .. MaxStarts]
  BY <1>1 DEF GoWaitMasterTimeout
<1>3. StopChangeViewTimer(n) => timer' \in [Node -> {"off", "armed", "stopping", "fired"}]
  BY DEF StopChangeViewTimer, TypeOK
<1>4. \A e \in Event : Notify(n, e) => events' \in [Node -> SUBSET Event]
  BY DEF Notify, TypeOK
<1> QED BY <1>2, <1>3, <1>4

LEMMA InitializationTypes ==
    ASSUME TypeOK, NEW n \in Node, Initialization(n) PROVE TypeOK'
<1>1. Height[tip[n]] \in Nat
  BY BlockAssumption DEF TypeOK
<1>2. RoleMaster(Height[tip[n]]) \in Node
  BY <1>1, RoleMasterIsNode
<1> DEFINE elected(e) == IF e \in {"ConsensusFailed", "MasterChange"} THEN master[n]
                          ELSE RoleMaster(Height[tip[n]])
<1>3. PICK e \in events[n] :
        /\ events' = [events EXCEPT ![n] = @ \ {e}]
        /\ master' = [master EXCEPT ![n] = elected(e)]
        /\ producing' = [producing EXCEPT ![n] = (elected(e) = n)]
        /\ GoWaitMasterTimeout(n) \/ UNCHANGED starts
  BY DEF Initialization
<1> DEFINE m == elected(e)
<1>m. m \in Node
  BY <1>2 DEF TypeOK
<1> HIDE DEF m
<1>4. master' \in [Node -> Node] /\ events' \in [Node -> SUBSET Event]
  BY <1>3, <1>m DEF TypeOK, m
<1>5. producing' \in [Node -> BOOLEAN]
  <2>1. producing' = [producing EXCEPT ![n] = (m = n)]
    BY <1>3 DEF m
  <2>2. producing \in [Node -> BOOLEAN]
    BY DEF TypeOK
  <2> QED BY <2>1, <2>2, Zenon
<1>6. starts' \in [Node -> 0 .. MaxStarts]
  BY <1>3, SharedTypes DEF TypeOK
<1> QED BY <1>4, <1>5, <1>6 DEF TypeOK, Initialization, viewVars, timerVars, pluginVars,
       roundVars, ledgerVars, syncVars, netVars

LEMMA CommitBlockTypes ==
    ASSUME TypeOK, NEW n \in Node, NEW b \in Block, NEW S \in SUBSET Node,
           CommitBlock(n, b, S)
    PROVE  /\ cache' \in [Node -> Cache]
           /\ handed' \in [Node -> SUBSET Certificate]
           /\ events' \in [Node -> SUBSET Event]
<1>1. cache' \in [Node -> Cache]
  <2>1. cache[n] \in Cache /\ cache' = [cache EXCEPT ![n] = Remove(cache[n], b)]
    BY DEF CommitBlock, TypeOK
  <2>2. Remove(cache[n], b) \in Cache
    BY <2>1, CacheTypes
  <2> QED BY <2>1, <2>2 DEF TypeOK
<1>2. [block |-> b, signers |-> S] \in Certificate
  BY DEF Certificate
<1>3. handed' \in [Node -> SUBSET Certificate]
  <2>1. handed \in [Node -> SUBSET Certificate]
    BY DEF TypeOK
  <2>2. \/ handed' = [handed EXCEPT ![n] = @ \cup {[block |-> b, signers |-> S]}]
        \/ handed' = handed
    BY DEF CommitBlock
  <2> QED BY <1>2, <2>1, <2>2
<1>4. events' \in [Node -> SUBSET Event]
  BY SharedTypes DEF CommitBlock, TypeOK, Event
<1> QED BY <1>1, <1>3, <1>4

LEMMA TryToCommitTypes ==
    ASSUME TypeOK, NEW n \in Node, NEW b \in Block, NEW r \in BOOLEAN,
           NEW S \in SUBSET Node, TryToCommit(n, b, r, S)
    PROVE  /\ cache' \in [Node -> Cache]
           /\ handed' \in [Node -> SUBSET Certificate]
           /\ events' \in [Node -> SUBSET Event]
           /\ commits' \subseteq Commit
<1>1. commits' \subseteq Commit
  <2>1. rounds[n] \in Nat
    BY CoreAssumption DEF TypeOK
  <2>2. \A p \in Peer(n) : [block |-> b, from |-> n, to |-> p, round |-> rounds[n],
                            result |-> r, signers |-> S] \in Commit
    BY <2>1 DEF Commit, Peer
  <2> QED BY <2>2 DEF TryToCommit, TypeOK
<1>2. CASE r
  <2>1. CommitBlock(n, b, S)
    BY <1>2 DEF TryToCommit
  <2> QED BY <2>1, <1>1, CommitBlockTypes
<1>3. CASE ~r
  <2>1. Notify(n, "ConsensusFailed") /\ UNCHANGED <<cache, handed>>
    BY <1>3 DEF TryToCommit
  <2>2. events' \in [Node -> SUBSET Event]
    BY <2>1, SharedTypes DEF Event
  <2> QED BY <1>1, <2>1, <2>2 DEF TypeOK
<1> QED BY <1>2, <1>3

LEMMA ToConsensusTypes ==
    ASSUME TypeOK, NEW n \in Node, ToConsensus(n) PROVE TypeOK'
<1>1. producing' \in [Node -> BOOLEAN]
  <2>1. producing' = [producing EXCEPT ![n] = FALSE] /\ producing \in [Node -> BOOLEAN]
    BY DEF ToConsensus, TypeOK
  <2> QED BY <2>1, Zenon
<1>2. /\ policy' \in [Node -> Block \cup {None}]
      /\ rounds' \in [Node -> Nat]
  <2>1. policy \in [Node -> Block \cup {None}] /\ rounds \in [Node -> Nat]
    BY DEF TypeOK
  <2>2. \/ UNCHANGED <<policy, rounds>>
        \/ /\ rounds' = [rounds EXCEPT ![n] = @ + 1]
           /\ \E b \in Block : policy' = [policy EXCEPT ![n] = b]
    BY DEF ToConsensus
  <2> QED BY <2>1, <2>2
<1>3. /\ timer' \in [Node -> {"off", "armed", "stopping", "fired"}]
      /\ cache' \in [Node -> Cache]
      /\ signed' \subseteq Node \X Block
      /\ waiters' \in [Node -> SUBSET Waiter]
      /\ proposals' \subseteq Proposal
  <2>1. CASE UNCHANGED <<timer, cache, signed, waiters, proposals>>
    BY <2>1 DEF TypeOK
  <2>u. CASE \E b \in Block : RequestUnsigned(n, b)
    BY <2>u, SharedTypes DEF RequestUnsigned, TypeOK
  <2>2. CASE \E b \in Block : RequestRepeated(n, b)
    <3>1. PICK b \in Block : RequestRepeated(n, b)
      BY <2>2
    <3>2. rounds[n] + 1 \in Nat /\ cache[n] \in Cache
      BY CoreAssumption DEF TypeOK
    <3>3. Add(cache[n], b, rounds[n] + 1) \in Cache
      BY <3>2, CacheTypes
    <3>4. timer' \in [Node -> {"off", "armed", "stopping", "fired"}]
      BY <3>1, SharedTypes DEF RequestRepeated
    <3>5. cache' \in [Node -> Cache]
      <4>1. cache' = [cache EXCEPT ![n] = Add(cache[n], b, rounds[n] + 1)]
        BY <3>1 DEF RequestRepeated
      <4> QED BY <4>1, <3>3 DEF TypeOK
    <3>6. /\ signed' \subseteq Node \X Block
          /\ UNCHANGED <<waiters, proposals>>
      BY <3>1 DEF RequestRepeated, TypeOK
    <3> QED BY <3>4, <3>5, <3>6 DEF TypeOK
  <2>3. CASE \E b \in Block : RequestAccepted(n, b)
    <3>1. PICK b \in Block : RequestAccepted(n, b)
      BY <2>3
    <3>2. rounds[n] + 1 \in Nat /\ cache[n] \in Cache
      BY CoreAssumption DEF TypeOK
    <3> DEFINE added == Add(cache[n], b, rounds[n] + 1)
               content == SetState(AddSignature(added[b], n), InConsensus)
    <3>3. added \in Cache
      BY <3>2, CacheTypes
    <3>4. content \in Content
      <4>1. added[b] \in Content
        BY <3>3 DEF Cache
      <4> HIDE DEF added
      <4>2. AddSignature(added[b], n) \in Content
        BY <4>1, <3>2, CacheTypes
      <4>3. InConsensus \in 0 .. 3
        BY DEF InConsensus
      <4> QED BY <4>2, <4>3, <3>2, CacheTypes
    <3>5. timer' \in [Node -> {"off", "armed", "stopping", "fired"}]
      BY <3>1, SharedTypes DEF RequestAccepted
    <3>6. cache' \in [Node -> Cache]
      <4>1. cache' = [cache EXCEPT ![n] = [added EXCEPT ![b] = content]]
        BY <3>1 DEF RequestAccepted
      <4> HIDE DEF added, content
      <4>2. [added EXCEPT ![b] = content] \in Cache
        BY <3>3, <3>4 DEF Cache
      <4> QED BY <4>1, <4>2 DEF TypeOK
    <3>7. waiters' \in [Node -> SUBSET Waiter]
      <4>1. [block |-> b, round |-> rounds[n] + 1, id |-> 0, pc |-> "start",
             result |-> FALSE, signers |-> {}] \in Waiter
        BY <3>2 DEF Waiter
      <4> QED BY <4>1, <3>1 DEF RequestAccepted, TypeOK
    <3>8. proposals' \subseteq Proposal
      <4>1. \A p \in Peer(n) : [block |-> b, from |-> n, to |-> p, round |-> rounds[n] + 1]
                               \in Proposal
        BY <3>2 DEF Proposal, Peer
      <4> QED BY <4>1, <3>1 DEF RequestAccepted, TypeOK
    <3>9. signed' \subseteq Node \X Block
      BY <3>1 DEF RequestAccepted, TypeOK
    <3> QED BY <3>5, <3>6, <3>7, <3>8, <3>9
  <2> QED BY <2>1, <2>u, <2>2, <2>3 DEF ToConsensus, RequestIgnored
<1> QED BY <1>1, <1>2, <1>3 DEF TypeOK, ToConsensus, viewVars, ledgerVars, syncVars

LEMMA DeliverResultTypes ==
    ASSUME TypeOK, NEW n \in Node, DeliverResult(n) PROVE TypeOK'
<1>1. policy[n] \in Block
  BY DEF DeliverResult, TypeOK
<1>2. PICK w \in waiters[n] :
        /\ waiters' = [waiters EXCEPT ![n] = @ \ {w}]
        /\ TryToCommit(n, policy[n], w.result, w.signers)
  BY DEF DeliverResult
<1>3. w.result \in BOOLEAN /\ w.signers \in SUBSET Node
  BY DEF TypeOK, Waiter
<1>4. /\ cache' \in [Node -> Cache] /\ handed' \in [Node -> SUBSET Certificate]
      /\ events' \in [Node -> SUBSET Event] /\ commits' \subseteq Commit
  BY <1>1, <1>2, <1>3, TryToCommitTypes
<1>5. waiters' \in [Node -> SUBSET Waiter] /\ policy' \in [Node -> Block \cup {None}]
  BY <1>2 DEF DeliverResult, TypeOK
<1> QED BY <1>4, <1>5 DEF TypeOK, DeliverResult, viewVars, timerVars, ledgerVars, syncVars

LEMMA WaitTimeoutTypes ==
    ASSUME TypeOK, NEW n \in Node, WaitTimeout(n) PROVE TypeOK'
<1>1. policy[n] \in Block
  BY DEF WaitTimeout, TypeOK
<1>2. /\ cache' \in [Node -> Cache] /\ handed' \in [Node -> SUBSET Certificate]
      /\ events' \in [Node -> SUBSET Event] /\ commits' \subseteq Commit
  <2>1. TryToCommit(n, policy[n], FALSE, {})
    BY DEF WaitTimeout
  <2>2. FALSE \in BOOLEAN /\ {} \in SUBSET Node
    OBVIOUS
  <2> QED BY <1>1, <2>1, <2>2, TryToCommitTypes
<1>3. policy' \in [Node -> Block \cup {None}]
  BY DEF WaitTimeout, TypeOK
<1>4. abandoned' \in [Node -> BOOLEAN]
  <2> DEFINE left == abandoned[n] \/ waiters[n] # {}
  <2>1. abandoned' = [abandoned EXCEPT ![n] = left] /\ abandoned \in [Node -> BOOLEAN]
    BY DEF WaitTimeout, TypeOK
  <2>2. left \in BOOLEAN
    BY Zenon DEF TypeOK
  <2> HIDE DEF left
  <2> QED BY <2>1, <2>2, Zenon
<1> QED BY <1>2, <1>3, <1>4 DEF TypeOK, WaitTimeout, viewVars, timerVars, ledgerVars, syncVars

LEMMA WaiterStartTypes ==
    ASSUME TypeOK, NEW n \in Node, WaiterStart(n) PROVE TypeOK'
<1>1. PICK w \in waiters[n] :
        waiters' = [waiters EXCEPT ![n] = (@ \ {w}) \cup
            IF Has(cache[n], w.block)
            THEN {[w EXCEPT !.pc = "collect", !.id = cache[n][w.block].round]}
            ELSE {}]
  BY DEF WaiterStart
<1>2. w \in Waiter
  BY DEF TypeOK
<1>3. cache[n][w.block].round \in Nat
  BY <1>2 DEF TypeOK, Cache, Content, Waiter
<1>4. [w EXCEPT !.pc = "collect", !.id = cache[n][w.block].round] \in Waiter
  BY <1>2, <1>3 DEF Waiter
<1>5. waiters' \in [Node -> SUBSET Waiter]
  <2> DEFINE new == IF Has(cache[n], w.block)
                    THEN {[w EXCEPT !.pc = "collect", !.id = cache[n][w.block].round]}
                    ELSE {}
  <2>1. new \in SUBSET Waiter
    BY <1>4
  <2>2. waiters' = [waiters EXCEPT ![n] = (@ \ {w}) \cup new]
    BY <1>1
  <2> HIDE DEF new
  <2> QED BY <2>1, <2>2 DEF TypeOK
<1> QED BY <1>5 DEF TypeOK, WaiterStart, viewVars, timerVars, upperVars, pluginVars,
       ledgerVars, syncVars, netVars

LEMMA ConcludeTypes ==
    ASSUME TypeOK, NEW n \in Node, NEW w \in waiters[n], Conclude(n, w)
    PROVE  /\ waiters' \in [Node -> SUBSET Waiter]
           /\ cache' \in [Node -> Cache]
           /\ latest' \in [Node -> Nat]
<1>1. w \in Waiter /\ w.block \in Block
  BY DEF TypeOK, Waiter
<1>2. cache[n] \in Cache /\ cache[n][w.block] \in Content
  BY <1>1 DEF TypeOK, Cache
<1>3. waiters' \in [Node -> SUBSET Waiter]
  <2> DEFINE ok == MaybeCommit(n, w.block)
             done == [w EXCEPT !.pc = "send", !.result = ok,
                               !.signers = IF ok THEN cache[n][w.block].signers ELSE {}]
  <2>1. ok \in BOOLEAN
    BY DEF MaybeCommit
  <2>2. cache[n][w.block].signers \in SUBSET Node
    BY <1>2 DEF Content
  <2>3. waiters' = [waiters EXCEPT ![n] = (@ \ {w}) \cup {done}]
    BY DEF Conclude
  <2> HIDE DEF ok
  <2>4. done \in Waiter
    BY <1>1, <2>1, <2>2 DEF Waiter
  <2> HIDE DEF done
  <2> QED BY <2>3, <2>4 DEF TypeOK
<1>4. cache' \in [Node -> Cache]
  <2>1. SetState(cache[n][w.block], ToConsensusState) \in Content
    <3>1. ToConsensusState \in 0 .. 3
      BY DEF ToConsensusState
    <3> QED BY <3>1, <1>1, <1>2, CacheTypes
  <2>2. \/ cache' = cache
        \/ cache' = [cache EXCEPT ![n][w.block] = SetState(@, ToConsensusState)]
    BY DEF Conclude
  <2>3. CASE cache' = [cache EXCEPT ![n][w.block] = SetState(@, ToConsensusState)]
    <3> DEFINE row == [cache[n] EXCEPT ![w.block] = SetState(cache[n][w.block], ToConsensusState)]
    <3>1. row \in Cache
      BY <2>1, <1>1, <1>2 DEF Cache
    <3>2. cache' = [cache EXCEPT ![n] = row]
      BY <2>3 DEF TypeOK
    <3> HIDE DEF row
    <3> QED BY <3>1, <3>2 DEF TypeOK
  <2> QED BY <2>2, <2>3 DEF TypeOK
<1>5. latest' \in [Node -> Nat]
  <2>1. Height[w.block] \in Nat
    BY <1>1, BlockAssumption DEF AnyBlock
  <2>2. latest' = latest \/ latest' = [latest EXCEPT ![n] = Height[w.block]]
    BY DEF Conclude
  <2> QED BY <2>1, <2>2 DEF TypeOK
<1> QED BY <1>3, <1>4, <1>5

LEMMA CollectTimeoutTypes ==
    ASSUME TypeOK, NEW n \in Node, CollectTimeout(n) PROVE TypeOK'
<1>1. PICK w \in waiters[n] : Conclude(n, w)
  BY DEF CollectTimeout
<1>2. /\ waiters' \in [Node -> SUBSET Waiter] /\ cache' \in [Node -> Cache]
      /\ latest' \in [Node -> Nat]
  BY <1>1, ConcludeTypes
<1> QED BY <1>2 DEF TypeOK, CollectTimeout, viewVars, timerVars, upperVars, ledgerVars,
       syncVars, netVars

LEMMA CollectSignalTypes ==
    ASSUME TypeOK, NEW n \in Node, CollectSignal(n) PROVE TypeOK'
<1>1. /\ waiters' \in [Node -> SUBSET Waiter] /\ cache' \in [Node -> Cache]
      /\ latest' \in [Node -> Nat]
  <2>1. CASE UNCHANGED <<waiters, cache, latest>>
    BY <2>1 DEF TypeOK
  <2>2. CASE \E w \in waiters[n] : Conclude(n, w)
    BY <2>2, ConcludeTypes
  <2> QED BY <2>1, <2>2 DEF CollectSignal
<1>2. signals' \in [Node -> Nat]
  <2>1. signals[n] > 0 /\ signals' = [signals EXCEPT ![n] = @ - 1] /\ signals \in [Node -> Nat]
    BY DEF CollectSignal, TypeOK
  <2> QED BY <2>1
<1> QED BY <1>1, <1>2 DEF TypeOK, CollectSignal, viewVars, timerVars, upperVars, ledgerVars,
       syncVars, netVars

\* pushOrReplace keeps a sequence of requests.
LEMMA PushOrReplaceTypes ==
    ASSUME NEW T, NEW q \in Seq(T), NEW r \in T PROVE PushOrReplace(q, r) \in Seq(T)
<1>1. CASE Len(q) < SyncLimit
  BY <1>1 DEF PushOrReplace
<1>2. CASE ~(Len(q) < SyncLimit)
  <2>1. q # <<>>
    BY <1>2, CoreAssumption
  <2>2. Tail(q) \in Seq(T)
    BY <2>1
  <2> QED BY <1>2, <2>2 DEF PushOrReplace
<1> QED BY <1>1, <1>2

LEMMA ReceiveProposalTypes ==
    ASSUME TypeOK, NEW n \in Node, ReceiveProposal(n) PROVE TypeOK'
<1>1. PICK m \in proposals :
        /\ proposals' = proposals \ {m}
        /\ StopChangeViewTimer(n)
        /\ FallBehind(n, m) \/ ProposalNotFromMaster(n, m) \/ ProposalFromMaster(n, m)
  BY DEF ReceiveProposal
<1>2. m.block \in Block /\ m.from \in Node /\ m.round \in Nat
  BY DEF TypeOK, Proposal
<1>3. /\ proposals' \subseteq Proposal
      /\ timer' \in [Node -> {"off", "armed", "stopping", "fired"}]
  BY <1>1, SharedTypes DEF TypeOK
<1>4. /\ master' \in [Node -> Node]
      /\ starts' \in [Node -> 0 .. MaxStarts]
      /\ syncQ' \in [Node -> Seq(BlockSyncRequest)]
      /\ cache' \in [Node -> Cache]
      /\ signed' \subseteq Node \X Block
      /\ responses' \subseteq Response
  <2>1. CASE FallBehind(n, m)
    <3>1. Height[m.block] \in Nat
      BY <1>2, BlockAssumption DEF AnyBlock
    <3>2. [end |-> Height[m.block], target |-> m.from] \in BlockSyncRequest
      BY <1>2, <3>1 DEF BlockSyncRequest
    <3> DEFINE new == PushOrReplace(syncQ[n], [end |-> Height[m.block], target |-> m.from])
    <3>3. syncQ[n] \in Seq(BlockSyncRequest)
      BY DEF TypeOK
    <3>4. new \in Seq(BlockSyncRequest)
      BY <3>2, <3>3, PushOrReplaceTypes
    <3>5. syncQ' = [syncQ EXCEPT ![n] = new] /\ master' = [master EXCEPT ![n] = m.from]
      BY <2>1 DEF FallBehind
    <3> HIDE DEF new
    <3>6. syncQ' \in [Node -> Seq(BlockSyncRequest)] /\ master' \in [Node -> Node]
      BY <1>2, <3>4, <3>5 DEF TypeOK
    <3> QED BY <2>1, <3>6 DEF FallBehind, TypeOK
  <2>2. CASE ProposalNotFromMaster(n, m)
    BY <2>2 DEF ProposalNotFromMaster, TypeOK
  <2>3. CASE ProposalFromMaster(n, m)
    <3>1. starts' \in [Node -> 0 .. MaxStarts]
      BY <2>3, SharedTypes DEF ProposalFromMaster
    <3>2. cache' \in [Node -> Cache]
      <4>1. cache[n] \in Cache /\ 0 \in Nat
        BY DEF TypeOK
      <4>2. Add(cache[n], m.block, 0) \in Cache
        BY <4>1, <1>2, CacheTypes
      <4>3. cache' = [cache EXCEPT ![n] = Add(cache[n], m.block, 0)]
        BY <2>3 DEF ProposalFromMaster
      <4> QED BY <4>2, <4>3 DEF TypeOK
    <3>3. signed' \subseteq Node \X Block
      <4>1. signed' = signed \/ signed' = signed \cup {<<n, m.block>>}
        BY <2>3 DEF ProposalFromMaster
      <4> QED BY <4>1, <1>2 DEF TypeOK
    <3>4. responses' \subseteq Response
      <4> DEFINE answer == [block |-> m.block, from |-> n, to |-> m.from, round |-> m.round]
      <4>1. responses' = responses \/ responses' = responses \cup {answer}
        BY <2>3 DEF ProposalFromMaster
      <4>2. answer \in Response
        BY <1>2 DEF Response
      <4> HIDE DEF answer
      <4> QED BY <4>1, <4>2 DEF TypeOK
    <3>5. UNCHANGED <<master, syncQ>>
      BY <2>3 DEF ProposalFromMaster
    <3> QED BY <3>1, <3>2, <3>3, <3>4, <3>5 DEF TypeOK
  <2> QED BY <1>1, <2>1, <2>2, <2>3
<1> QED BY <1>3, <1>4 DEF TypeOK, ReceiveProposal, viewVars, upperVars, roundVars, ledgerVars

LEMMA ReceiveResponseTypes ==
    ASSUME TypeOK, NEW n \in Node, ReceiveResponse(n) PROVE TypeOK'
<1>1. PICK m \in responses :
        /\ responses' = responses \ {m}
        /\ cache' = [cache EXCEPT ![n][m.block] = AddSignature(@, m.from)]
        /\ signals' = [signals EXCEPT ![n] = @ + 1]
  BY DEF ReceiveResponse
<1>2. m.block \in Block /\ m.from \in Node
  BY DEF TypeOK, Response
<1>3. cache' \in [Node -> Cache]
  <2>1. cache[n] \in Cache /\ cache[n][m.block] \in Content /\ 0 \in Nat
    BY <1>2 DEF TypeOK, Cache
  <2>2. AddSignature(cache[n][m.block], m.from) \in Content
    BY <1>2, <2>1, CacheTypes
  <2> DEFINE row == [cache[n] EXCEPT ![m.block] = AddSignature(cache[n][m.block], m.from)]
  <2>3. row \in Cache
    BY <2>1, <2>2, <1>2 DEF Cache
  <2>4. cache' = [cache EXCEPT ![n] = row]
    BY <1>1 DEF TypeOK
  <2> HIDE DEF row
  <2> QED BY <2>3, <2>4 DEF TypeOK
<1>4. responses' \subseteq Response /\ signals' \in [Node -> Nat]
  BY <1>1 DEF TypeOK
<1> QED BY <1>3, <1>4 DEF TypeOK, ReceiveResponse, viewVars, timerVars, upperVars,
       ledgerVars, syncVars

LEMMA ReceiveCommitTypes ==
    ASSUME TypeOK, NEW n \in Node, ReceiveCommit(n) PROVE TypeOK'
<1>1. PICK m \in commits :
        /\ commits' = commits \ {m}
        /\ StopChangeViewTimer(n)
        /\ CommitFailed(n, m) \/ CommitUnknown(n, m) \/ CommitKnown(n, m)
  BY DEF ReceiveCommit
<1>2. m.block \in Block /\ m.from \in Node /\ m.signers \in SUBSET Node
  BY DEF TypeOK, Commit
<1>3. /\ commits' \subseteq Commit
      /\ timer' \in [Node -> {"off", "armed", "stopping", "fired"}]
  BY <1>1, SharedTypes DEF TypeOK
<1>4. /\ master' \in [Node -> Node]
      /\ events' \in [Node -> SUBSET Event]
      /\ cache' \in [Node -> Cache]
      /\ handed' \in [Node -> SUBSET Certificate]
  <2>1. CASE CommitFailed(n, m)
    <3>1. events' \in [Node -> SUBSET Event]
      BY <2>1, SharedTypes DEF CommitFailed, Event
    <3>2. master' \in [Node -> Node]
      BY <2>1, <1>2 DEF CommitFailed, TypeOK
    <3> QED BY <2>1, <3>1, <3>2 DEF CommitFailed, TypeOK
  <2>2. CASE CommitUnknown(n, m)
    BY <2>2 DEF CommitUnknown, TypeOK
  <2>3. CASE CommitKnown(n, m)
    <3>1. CommitBlock(n, m.block, m.signers) /\ UNCHANGED master
      BY <2>3 DEF CommitKnown
    <3> QED BY <1>2, <3>1, CommitBlockTypes DEF TypeOK
  <2> QED BY <1>1, <2>1, <2>2, <2>3
<1> QED BY <1>3, <1>4 DEF TypeOK, ReceiveCommit, viewVars, roundVars, ledgerVars, syncVars

\* Storing a block of the tree keeps chain, current block and notifications typed.
LEMMA StoreBlockTypes ==
    ASSUME TypeOK, NEW n \in Node, NEW b \in Block, StoreBlock(n, b)
    PROVE  /\ chain' \in [Node -> SUBSET AnyBlock]
           /\ tip' \in [Node -> AnyBlock]
           /\ events' \in [Node -> SUBSET Event]
<1>1. b \in AnyBlock
  BY DEF AnyBlock
<1>2. chain' \in [Node -> SUBSET AnyBlock] /\ tip' \in [Node -> AnyBlock]
  BY <1>1 DEF StoreBlock, TypeOK
<1>3. events' \in [Node -> SUBSET Event]
  BY SharedTypes DEF StoreBlock, Event
<1> QED BY <1>2, <1>3

LEMMA WriteBlockTypes ==
    ASSUME TypeOK, NEW n \in Node, WriteBlock(n) PROVE TypeOK'
<1>1. PICK c \in handed[n] : StoreBlock(n, c.block)
  BY DEF WriteBlock
<1>2. c.block \in Block
  BY DEF TypeOK, Certificate
<1>3. /\ chain' \in [Node -> SUBSET AnyBlock] /\ tip' \in [Node -> AnyBlock]
      /\ events' \in [Node -> SUBSET Event]
  BY <1>1, <1>2, StoreBlockTypes
<1> QED BY <1>3 DEF TypeOK, WriteBlock, viewVars, timerVars, pluginVars, roundVars,
       syncVars, netVars

LEMMA TakeSyncRequestTypes ==
    ASSUME TypeOK, NEW n \in Node, TakeSyncRequest(n) PROVE TypeOK'
<1>1. syncQ[n] \in Seq(BlockSyncRequest) /\ syncQ[n] # <<>>
  BY DEF TypeOK, TakeSyncRequest
<1>2. Head(syncQ[n]) \in BlockSyncRequest /\ Tail(syncQ[n]) \in Seq(BlockSyncRequest)
  BY <1>1
<1>3. [end |-> Head(syncQ[n]).end, target |-> Head(syncQ[n]).target, height |-> 0] \in SyncJob
  BY <1>2 DEF BlockSyncRequest, SyncJob
<1>4. syncing' \in [Node -> SUBSET SyncJob] /\ syncQ' \in [Node -> Seq(BlockSyncRequest)]
  BY <1>2, <1>3 DEF TypeOK, TakeSyncRequest
<1> QED BY <1>4 DEF TypeOK, TakeSyncRequest, viewVars, timerVars, upperVars, pluginVars,
       roundVars, ledgerVars, netVars

LEMMA SendSyncBlockMsgTypes ==
    ASSUME TypeOK, NEW n \in Node, SendSyncBlockMsg(n) PROVE TypeOK'
<1> DEFINE next == Height[tip[n]] + 1
<1>1. next \in Nat
  BY BlockAssumption DEF TypeOK
<1>2. PICK j \in syncing[n] :
        /\ syncReqs' = syncReqs \cup {[from |-> n, to |-> j.target, height |-> next]}
        /\ syncing' = [syncing EXCEPT ![n] = {[j EXCEPT !.height = next]}]
  BY DEF SendSyncBlockMsg
<1> HIDE DEF next
<1>3. j \in SyncJob
  BY DEF TypeOK
<1>4. /\ [j EXCEPT !.height = next] \in SyncJob
      /\ [from |-> n, to |-> j.target, height |-> next] \in SyncBlockReq
  BY <1>1, <1>3 DEF SyncJob, SyncBlockReq
<1>5. syncReqs' \subseteq SyncBlockReq /\ syncing' \in [Node -> SUBSET SyncJob]
  BY <1>2, <1>4 DEF TypeOK
<1> QED BY <1>5 DEF TypeOK, SendSyncBlockMsg, viewVars, timerVars, upperVars, pluginVars,
       roundVars, ledgerVars

LEMMA FinishSyncTypes ==
    ASSUME TypeOK, NEW n \in Node, FinishSync(n) PROVE TypeOK'
  BY DEF TypeOK, FinishSync, viewVars, timerVars, upperVars, pluginVars, roundVars,
         ledgerVars, netVars

LEMMA ReceiveSyncBlockRequestTypes ==
    ASSUME TypeOK, NEW n \in Node, ReceiveSyncBlockRequest(n) PROVE TypeOK'
<1>1. PICK m \in syncReqs, b \in chain[n] \cap Block :
        /\ syncReqs' = syncReqs \ {m}
        /\ syncResps' = syncResps \cup {[to |-> m.from, block |-> b]}
  BY DEF ReceiveSyncBlockRequest
<1>2. [to |-> m.from, block |-> b] \in SyncBlockResp
  BY DEF TypeOK, SyncBlockReq, SyncBlockResp
<1>3. syncReqs' \subseteq SyncBlockReq /\ syncResps' \subseteq SyncBlockResp
  BY <1>1, <1>2 DEF TypeOK
<1> QED BY <1>3 DEF TypeOK, ReceiveSyncBlockRequest, viewVars, timerVars, upperVars,
       pluginVars, roundVars, ledgerVars, syncVars

LEMMA ReceiveSyncBlockResponseTypes ==
    ASSUME TypeOK, NEW n \in Node, ReceiveSyncBlockResponse(n) PROVE TypeOK'
<1>1. PICK m \in syncResps : StoreBlock(n, m.block) /\ syncResps' = syncResps \ {m}
  BY DEF ReceiveSyncBlockResponse
<1>2. m.block \in Block
  BY DEF TypeOK, SyncBlockResp
<1>3. /\ chain' \in [Node -> SUBSET AnyBlock] /\ tip' \in [Node -> AnyBlock]
      /\ events' \in [Node -> SUBSET Event]
  BY <1>1, <1>2, StoreBlockTypes
<1> QED BY <1>1, <1>3 DEF TypeOK, ReceiveSyncBlockResponse, viewVars, timerVars,
       pluginVars, roundVars, syncVars

LEMMA StartTimerTypes ==
    ASSUME TypeOK, NEW n \in Node, StartTimer(n) PROVE TypeOK'
<1>1. starts[n] \in 0 .. MaxStarts /\ MaxStarts \in Nat /\ starts[n] > 0
  BY CoreAssumption DEF TypeOK, StartTimer
<1>2. starts' \in [Node -> 0 .. MaxStarts]
  BY <1>1 DEF TypeOK, StartTimer
<1>3. timer' \in [Node -> {"off", "armed", "stopping", "fired"}]
  BY DEF TypeOK, StartTimer
<1> QED BY <1>2, <1>3 DEF TypeOK, StartTimer, viewVars, upperVars, pluginVars, roundVars,
       ledgerVars, syncVars, netVars

LEMMA TimerStoppedTypes ==
    ASSUME TypeOK, NEW n \in Node, TimerStopped(n) PROVE TypeOK'
  BY DEF TypeOK, TimerStopped, viewVars, upperVars, pluginVars, roundVars, ledgerVars,
         syncVars, netVars

LEMMA TimerFiresTypes ==
    ASSUME TypeOK, NEW n \in Node, TimerFires(n) PROVE TypeOK'
  BY DEF TypeOK, TimerFires, viewVars, upperVars, pluginVars, roundVars, ledgerVars,
         syncVars, netVars

LEMMA RequestViewTypes ==
    ASSUME TypeOK, NEW n \in Node, RequestView(n) PROVE TypeOK'
<1>1. view[n] + 1 \in View
  BY CoreAssumption DEF TypeOK, RequestView, View
<1>2. \A p \in Node : [from |-> n, to |-> p, view |-> view[n] + 1, nodes |-> {n}]
                      \in ViewChangeReq
  BY <1>1 DEF ViewChangeReq
<1>3. viewReqs' \subseteq ViewChangeReq /\ asked' \subseteq Node \X View
  BY <1>1, <1>2 DEF TypeOK, RequestView
<1>4. timer' \in [Node -> {"off", "armed", "stopping", "fired"}]
  BY DEF TypeOK, RequestView
<1> QED BY <1>3, <1>4 DEF TypeOK, RequestView, upperVars, pluginVars, roundVars,
       ledgerVars, syncVars

\* Electing from a list needs it to be non-empty, which EndingEnough gives.
TypeInv == TypeOK /\ EndingEnough

\* Enough requests are at least one.
LEMMA ViewEndNonEmpty == ASSUME NEW S, ViewEnd(S) PROVE S # {}
<1>1. Quorum \in Nat /\ Quorum >= 1
  BY NAssumption DEF Quorum, Tolerance
<1>2. Cardinality({}) = 0
  BY FS_EmptySet
<1> QED BY <1>1, <1>2 DEF ViewEnd

LEMMA ReceiveChangeViewReqTypes ==
    ASSUME TypeInv, NEW n \in Node, ReceiveChangeViewReq(n) PROVE TypeInv'
<1> DEFINE old(m) == requests[n][m.view]
           new(m) == IF ViewEnd(old(m)) THEN old(m) ELSE old(m) \cup m.nodes
<1>1. PICK m \in viewReqs :
        /\ viewReqs' = viewReqs \ {m}
        /\ requests' = [requests EXCEPT ![n][m.view] = new(m)]
        /\ ending' = IF ViewEnd(new(m)) THEN [ending EXCEPT ![n] = @ \cup {m}] ELSE ending
  BY DEF ReceiveChangeViewReq
<1>2. m \in ViewChangeReq /\ m.view \in View /\ m.nodes \in SUBSET Node
  BY DEF TypeInv, TypeOK, ViewChangeReq
<1>t. /\ requests \in [Node -> [View -> SUBSET Node]]
      /\ ending \in [Node -> SUBSET ViewChangeReq]
  BY DEF TypeInv, TypeOK
<1>3. new(m) \in SUBSET Node
  BY <1>2, <1>t
<1> DEFINE row == [requests[n] EXCEPT ![m.view] = new(m)]
<1>4. row \in [View -> SUBSET Node]
  BY <1>2, <1>3, <1>t
<1>5. requests' = [requests EXCEPT ![n] = row]
  BY <1>1, <1>t
<1>6. requests' \in [Node -> [View -> SUBSET Node]]
  <2> HIDE DEF row
  <2> QED BY <1>4, <1>5, <1>t
<1>7. ending' \in [Node -> SUBSET ViewChangeReq]
  <2>1. ending' = ending \/ ending' = [ending EXCEPT ![n] = @ \cup {m}]
    BY <1>1
  <2> QED BY <2>1, <1>2, <1>t
<1>8. TypeOK'
  <2>1. viewReqs' \subseteq ViewChangeReq
    BY <1>1 DEF TypeInv, TypeOK
  <2>2. UNCHANGED <<master, view, asked, timerVars, upperVars, pluginVars, roundVars, handed,
                    ledgerVars, signed, syncVars, proposals, responses, commits, syncReqs,
                    syncResps>>
    BY DEF ReceiveChangeViewReq
  <2>3. TypeOK
    BY DEF TypeInv
  <2> QED BY <1>6, <1>7, <2>1, <2>2, <2>3 DEF TypeOK, timerVars, upperVars, pluginVars,
         roundVars, ledgerVars, syncVars
<1>9. EndingEnough'
  <2> SUFFICES ASSUME NEW k \in Node, NEW r \in ending'[k]
               PROVE  ViewEnd(requests[k][r.view])'
    BY DEF EndingEnough
  <2>1. r.view \in View
    BY <1>7 DEF ViewChangeReq
  <2>2. CASE k = n /\ r.view = m.view
    <3>1. requests'[k][r.view] = new(m)
      BY <1>2, <1>5, <1>t, <2>2
    <3>2. ViewEnd(new(m))
      <4>1. CASE r \in ending[n]
        <5>1. ViewEnd(old(m))
          BY <4>1, <2>2 DEF TypeInv, EndingEnough
        <5> QED BY <5>1
      <4>2. CASE r \notin ending[n]
        BY <4>2, <2>2, <1>1, <1>t
      <4> QED BY <4>1, <4>2
    <3> HIDE DEF new
    <3> QED BY <3>1, <3>2 DEF ViewEnd
  <2>3. CASE ~(k = n /\ r.view = m.view)
    <3>1. requests'[k][r.view] = requests[k][r.view]
      <4>1. CASE k # n
        <5> HIDE DEF row
        <5> QED BY <4>1, <1>5, <1>t
      <4>2. CASE k = n /\ r.view # m.view
        <5>1. requests'[n] = row
          <6> HIDE DEF row
          <6> QED BY <1>5, <1>t
        <5> HIDE DEF new
        <5> QED BY <4>2, <5>1, <1>2, <1>t, <2>1
      <4> QED BY <4>1, <4>2, <2>3
    <3>2. r \in ending[k]
      <4>1. ending' = ending \/ ending' = [ending EXCEPT ![n] = @ \cup {m}]
        BY <1>1
      <4> QED BY <4>1, <2>3, <1>t
    <3>3. ViewEnd(requests[k][r.view])
      BY <3>2 DEF TypeInv, EndingEnough
    <3> QED BY <3>1, <3>3 DEF ViewEnd
  <2> QED BY <2>2, <2>3
<1> QED BY <1>8, <1>9 DEF TypeInv

LEMMA EndViewTypes ==
    ASSUME TypeInv, NEW n \in Node, EndView(n) PROVE TypeInv'
<1>1. PICK m \in ending[n] :
        /\ ending' = [ending EXCEPT ![n] = @ \ {m}]
        /\ viewReqs' = viewReqs \cup
              {[from |-> n, to |-> p, view |-> m.view, nodes |-> {}] : p \in Peer(n)}
        /\ StopChangeViewTimer(n)
        /\ view' = [view EXCEPT ![n] = m.view]
        /\ master' = [master EXCEPT ![n] = AccountWithMinId(requests[n][m.view])]
        /\ Notify(n, "MasterChange")
  BY DEF EndView
<1>2. m.view \in View /\ m.view \in 0 .. MaxView
  BY CoreAssumption DEF TypeInv, TypeOK, ViewChangeReq, View
<1>3. AccountWithMinId(requests[n][m.view]) \in Node
  <2>1. requests[n][m.view] \in SUBSET Node
    BY <1>2 DEF TypeInv, TypeOK
  <2>2. ViewEnd(requests[n][m.view])
    BY DEF TypeInv, EndingEnough
  <2>3. requests[n][m.view] # {}
    BY <2>2, ViewEndNonEmpty
  <2> QED BY <2>1, <2>3, MinIdExists
<1>4. /\ master' \in [Node -> Node]
      /\ view' \in [Node -> 0 .. MaxView]
      /\ ending' \in [Node -> SUBSET ViewChangeReq]
  BY <1>1, <1>2, <1>3 DEF TypeInv, TypeOK
<1>5. viewReqs' \subseteq ViewChangeReq
  <2>1. \A p \in Peer(n) : [from |-> n, to |-> p, view |-> m.view, nodes |-> {}]
                           \in ViewChangeReq
    BY <1>2 DEF ViewChangeReq, Peer
  <2> QED BY <1>1, <2>1 DEF TypeInv, TypeOK
<1>6. /\ timer' \in [Node -> {"off", "armed", "stopping", "fired"}]
      /\ events' \in [Node -> SUBSET Event]
  BY <1>1, SharedTypes DEF TypeInv, Event
<1>7. TypeOK'
  <2>1. UNCHANGED <<requests, asked, starts, producing, pluginVars, roundVars, handed,
                    ledgerVars, signed, syncVars, proposals, responses, commits, syncReqs,
                    syncResps>>
    BY DEF EndView
  <2>2. TypeOK
    BY DEF TypeInv
  <2> QED BY <1>4, <1>5, <1>6, <2>1, <2>2 DEF TypeOK, pluginVars, roundVars, ledgerVars,
         syncVars
<1>8. EndingEnough'
  <2> SUFFICES ASSUME NEW k \in Node, NEW r \in ending'[k]
               PROVE  ViewEnd(requests[k][r.view])'
    BY DEF EndingEnough
  <2>1. r \in ending[k] /\ requests' = requests
    BY <1>1 DEF TypeInv, TypeOK, EndView
  <2>2. ViewEnd(requests[k][r.view])
    BY <2>1 DEF TypeInv, EndingEnough
  <2> QED BY <2>1, <2>2 DEF ViewEnd
<1> QED BY <1>7, <1>8 DEF TypeInv

\* Only the view change touches what EndingEnough speaks of.
LEMMA EndingEnoughKept ==
    ASSUME EndingEnough, UNCHANGED <<requests, ending>> PROVE EndingEnough'
  BY DEF EndingEnough, ViewEnd

LEMMA TypeInvStep ==
    ASSUME TypeInv, [Next]_vars PROVE TypeInv'
<1>t. TypeOK /\ EndingEnough
  BY DEF TypeInv
<1>s. CASE UNCHANGED vars
  <2>1. TypeOK'
    BY <1>t, <1>s DEF TypeOK, vars, viewVars, timerVars, upperVars, pluginVars, roundVars,
       ledgerVars, syncVars, netVars
  <2>2. EndingEnough'
    BY <1>t, <1>s, EndingEnoughKept DEF vars, viewVars
  <2> QED BY <2>1, <2>2 DEF TypeInv
<1>n. CASE Next
  <2>1. PICK n \in Node : Step(n)
    BY <1>n DEF Next, Live
  <2>2. CASE \/ Initialization(n) \/ ToConsensus(n) \/ DeliverResult(n) \/ WaitTimeout(n)
             \/ WaiterStart(n) \/ CollectTimeout(n) \/ CollectSignal(n)
             \/ ReceiveProposal(n) \/ ReceiveResponse(n) \/ ReceiveCommit(n)
             \/ WriteBlock(n) \/ TakeSyncRequest(n) \/ SendSyncBlockMsg(n) \/ FinishSync(n)
             \/ ReceiveSyncBlockRequest(n) \/ ReceiveSyncBlockResponse(n)
             \/ StartTimer(n) \/ TimerStopped(n) \/ TimerFires(n) \/ RequestView(n)
    <3>1. TypeOK'
      BY <1>t, <2>2, InitializationTypes, ToConsensusTypes, DeliverResultTypes,
         WaitTimeoutTypes, WaiterStartTypes, CollectTimeoutTypes, CollectSignalTypes,
         ReceiveProposalTypes, ReceiveResponseTypes, ReceiveCommitTypes, WriteBlockTypes,
         TakeSyncRequestTypes, SendSyncBlockMsgTypes, FinishSyncTypes,
         ReceiveSyncBlockRequestTypes, ReceiveSyncBlockResponseTypes, StartTimerTypes,
         TimerStoppedTypes, TimerFiresTypes, RequestViewTypes
    <3>2. UNCHANGED <<requests, ending>>
      BY <2>2 DEF Initialization, ToConsensus, DeliverResult, WaitTimeout, WaiterStart,
         CollectTimeout, CollectSignal, ReceiveProposal, ReceiveResponse, ReceiveCommit,
         WriteBlock, TakeSyncRequest, SendSyncBlockMsg, FinishSync,
         ReceiveSyncBlockRequest, ReceiveSyncBlockResponse, StartTimer, TimerStopped,
         TimerFires, RequestView, viewVars
    <3> QED BY <1>t, <3>1, <3>2, EndingEnoughKept DEF TypeInv
  <2>3. CASE ReceiveChangeViewReq(n)
    BY <2>3, ReceiveChangeViewReqTypes
  <2>4. CASE EndView(n)
    BY <2>4, EndViewTypes
  <2> QED BY <2>1, <2>2, <2>3, <2>4 DEF Step
<1> QED BY <1>s, <1>n

\* Every behaviour of the protocol stays within the types, and a view that is
\* being ended has a frozen list with at least Quorum requests.
THEOREM TypeInvariant == Spec => []TypeInv
<1>1. Init => TypeInv
  <2>1. Init => EndingEnough
    BY DEF Init, Fresh, EndingEnough
  <2> QED BY <2>1, InitTypes DEF TypeInv
<1>2. TypeInv /\ [Next]_vars => TypeInv'
  BY TypeInvStep
<1> QED BY <1>1, <1>2, PTL DEF Spec

\* Type correctness, which EndView needs EndingEnough for: electing a master
\* from an empty list would leave the set of nodes.
THEOREM TypeCorrect == Spec => []TypeOK
<1>1. TypeInv => TypeOK
  BY DEF TypeInv
<1> QED BY <1>1, TypeInvariant, PTL

-----------------------------------------------------------------------------
(* What the content cache holds                                              *)

\* Heights are far from the end of uint64.
HeightsFit == \A b \in Block : Height[b] + MaxPayloadCacheNum < UintModulus

\* The bound of Add, on both sides of the wrap-around.
LEMMA EvictedMeaning ==
    ASSUME HeightsFit, NEW b \in Block
    PROVE  Evicted(b) = IF Height[b] < MaxPayloadCacheNum THEN Block
                        ELSE {c \in Block : Height[c] < Height[b] - MaxPayloadCacheNum}
<1>1. /\ MaxPayloadCacheNum \in Nat /\ UintModulus \in Nat \ {0}
      /\ \A c \in Block : Height[c] \in Nat /\ Height[c] + MaxPayloadCacheNum < UintModulus
  BY PluginAssumption, BlockAssumption DEF HeightsFit, AnyBlock
<1> DEFINE x == Height[b] - MaxPayloadCacheNum
<1>2. x \in Int /\ 0 - UintModulus <= x /\ x < UintModulus
  BY <1>1
<1>3. CASE Height[b] < MaxPayloadCacheNum
  <2>1. x < 0 /\ x >= 0 - MaxPayloadCacheNum
    BY <1>1, <1>3
  <2> HIDE DEF x
  <2>2. x % UintModulus = x + UintModulus
    BY <1>1, <1>2, <2>1
  <2>3. \A c \in Block : Height[c] < x % UintModulus
    BY <1>1, <1>2, <2>1, <2>2
  <2> QED BY <1>3, <2>3 DEF Evicted, x
<1>4. CASE ~(Height[b] < MaxPayloadCacheNum)
  <2>1. x \in Nat
    BY <1>1, <1>4
  <2> HIDE DEF x
  <2>2. x % UintModulus = x
    BY <1>1, <1>2, <2>1
  <2> QED BY <1>4, <2>2 DEF Evicted, x
<1> QED BY <1>3, <1>4

\* What is in a cache after Add: the block, and what was there and is not
\* evicted.
LEMMA AddHolds ==
    ASSUME NEW k, NEW b \in Block, NEW r, NEW c \in Block, Has(Add(k, b, r), c)
    PROVE  c = b \/ (Has(k, c) /\ c \notin Evicted(b))
<1> SUFFICES ASSUME c # b PROVE Has(k, c) /\ c \notin Evicted(b)
  OBVIOUS
<1>1. Add(k, b, r)[c] = IF c \in Evicted(b) THEN NoContent ELSE k[c]
  BY DEF Add
<1> QED BY <1>1 DEF Has, NoContent, Absent

\* What is in a cache after Remove was there before.
LEMMA RemoveHolds ==
    ASSUME NEW k, NEW b, NEW c \in Block, Has(Remove(k, b), c) PROVE Has(k, c)
<1>1. Remove(k, b)[c] = NoContent \/ Remove(k, b)[c] = k[c]
  BY DEF Remove
<1> QED BY <1>1 DEF Has, NoContent, Absent

\* A node's cache loses entries, or Add puts b into it.
Fewer(n) == \A c \in Block : Has(cache'[n], c) => Has(cache[n], c)
Added(n, b) ==
    \A c \in Block : Has(cache'[n], c) => c = b \/ (Has(cache[n], c) /\ c \notin Evicted(b))

\* What a step does to the caches: to that of one node, and nothing else.
CacheStep(n) ==
    /\ \A k \in Node : k # n => cache'[k] = cache[k]
    /\ Fewer(n) \/ \E b \in Block : Added(n, b)

LEMMA CacheUnchanged == ASSUME NEW n \in Node, UNCHANGED cache PROVE CacheStep(n)
  BY DEF CacheStep, Fewer

LEMMA CommitBlockCache ==
    ASSUME TypeOK, NEW n \in Node, NEW b, NEW S, CommitBlock(n, b, S) PROVE CacheStep(n)
<1>1. /\ cache'[n] = Remove(cache[n], b)
      /\ \A k \in Node : k # n => cache'[k] = cache[k]
  BY DEF CommitBlock, TypeOK
<1>2. Fewer(n)
  BY <1>1, RemoveHolds DEF Fewer
<1> QED BY <1>1, <1>2 DEF CacheStep

LEMMA ToConsensusCache ==
    ASSUME TypeOK, NEW n \in Node, ToConsensus(n) PROVE CacheStep(n)
<1>1. CASE UNCHANGED cache
  BY <1>1, CacheUnchanged
<1>2. CASE ~UNCHANGED cache
  <2>1. PICK b \in Block : RequestRepeated(n, b) \/ RequestAccepted(n, b)
    BY <1>2 DEF ToConsensus, RequestIgnored, RequestUnsigned
  <2>2. PICK added : added = Add(cache[n], b, rounds[n] + 1)
    OBVIOUS
  <2>3. added \in Cache
    <3>1. rounds[n] + 1 \in Nat /\ cache[n] \in Cache
      BY CoreAssumption DEF TypeOK
    <3> QED BY <2>2, <3>1, CacheTypes
  <2>4. PICK content : content = SetState(AddSignature(added[b], n), InConsensus)
    OBVIOUS
  <2>5. \/ cache' = [cache EXCEPT ![n] = added]
        \/ cache' = [cache EXCEPT ![n] = [added EXCEPT ![b] = content]]
    BY <2>1, <2>2, <2>4 DEF RequestRepeated, RequestAccepted
  <2>6. /\ \A k \in Node : k # n => cache'[k] = cache[k]
        /\ \A c \in Block : c # b => cache'[n][c] = added[c]
    BY <2>3, <2>5 DEF TypeOK, Cache
  <2>7. \A c \in Block : Has(added, c) => c = b \/ (Has(cache[n], c) /\ c \notin Evicted(b))
    BY <2>2, AddHolds
  <2>8. Added(n, b)
    BY <2>6, <2>7 DEF Added, Has
  <2> QED BY <2>6, <2>8 DEF CacheStep
<1> QED BY <1>1, <1>2

LEMMA ReceiveProposalCache ==
    ASSUME TypeOK, NEW n \in Node, ReceiveProposal(n) PROVE CacheStep(n)
<1>1. PICK m \in proposals :
          FallBehind(n, m) \/ ProposalNotFromMaster(n, m) \/ ProposalFromMaster(n, m)
  BY DEF ReceiveProposal
<1>2. CASE FallBehind(n, m) \/ ProposalNotFromMaster(n, m)
  BY <1>2, CacheUnchanged DEF FallBehind, ProposalNotFromMaster
<1>3. CASE ProposalFromMaster(n, m)
  <2>1. m.block \in Block
    BY DEF TypeOK, Proposal
  <2>2. /\ cache'[n] = Add(cache[n], m.block, 0)
        /\ \A k \in Node : k # n => cache'[k] = cache[k]
    BY <1>3 DEF ProposalFromMaster, TypeOK
  <2>3. Added(n, m.block)
    BY <2>1, <2>2, AddHolds DEF Added
  <2> QED BY <2>1, <2>2, <2>3 DEF CacheStep
<1> QED BY <1>1, <1>2, <1>3

\* A content that is written to was there, and it stays the only one changed.
LEMMA ContentCache ==
    ASSUME TypeOK, NEW n \in Node, NEW b \in Block, NEW t, Has(cache[n], b),
           cache' = [cache EXCEPT ![n][b] = t]
    PROVE  CacheStep(n)
<1>1. /\ \A k \in Node : k # n => cache'[k] = cache[k]
      /\ \A c \in Block : c # b => cache'[n][c] = cache[n][c]
  BY DEF TypeOK, Cache
<1>2. Fewer(n)
  BY <1>1 DEF Fewer, Has
<1> QED BY <1>1, <1>2 DEF CacheStep

LEMMA ConcludeCache ==
    ASSUME TypeOK, NEW n \in Node, NEW w \in waiters[n], Conclude(n, w) PROVE CacheStep(n)
<1>1. w.block \in Block
  BY DEF TypeOK, Waiter
<1>2. PICK t : t = SetState(cache[n][w.block], ToConsensusState)
  OBVIOUS
<1>3. CASE UNCHANGED cache
  BY <1>3, CacheUnchanged
<1>4. CASE ~UNCHANGED cache
  <2>1. MaybeCommit(n, w.block) /\ cache' = [cache EXCEPT ![n][w.block] = t]
    BY <1>2, <1>4 DEF Conclude
  <2> QED BY <1>1, <2>1, ContentCache DEF MaybeCommit
<1> QED BY <1>3, <1>4

LEMMA ReceiveResponseCache ==
    ASSUME TypeOK, NEW n \in Node, ReceiveResponse(n) PROVE CacheStep(n)
<1>1. PICK m \in responses :
          /\ Has(cache[n], m.block)
          /\ cache' = [cache EXCEPT ![n][m.block] = AddSignature(@, m.from)]
  BY DEF ReceiveResponse
<1>2. m.block \in Block
  BY DEF TypeOK, Response
<1>3. PICK t : t = AddSignature(cache[n][m.block], m.from)
  OBVIOUS
<1>4. cache' = [cache EXCEPT ![n][m.block] = t]
  BY <1>1, <1>3
<1> QED BY <1>1, <1>2, <1>4, ContentCache

LEMMA StepCache == ASSUME TypeOK, NEW n \in Node, Step(n) PROVE CacheStep(n)
<1>1. CASE DeliverResult(n) \/ WaitTimeout(n) \/ ReceiveCommit(n)
  <2>1. UNCHANGED cache \/ \E b, S : CommitBlock(n, b, S)
    BY <1>1 DEF DeliverResult, WaitTimeout, TryToCommit, ReceiveCommit, CommitFailed,
       CommitUnknown, CommitKnown
  <2> QED BY <2>1, CacheUnchanged, CommitBlockCache
<1>2. CASE CollectTimeout(n) \/ CollectSignal(n)
  <2>1. UNCHANGED cache \/ \E w \in waiters[n] : Conclude(n, w)
    BY <1>2 DEF CollectTimeout, CollectSignal
  <2> QED BY <2>1, CacheUnchanged, ConcludeCache
<1>3. CASE \/ Initialization(n) \/ WaiterStart(n) \/ WriteBlock(n) \/ TakeSyncRequest(n)
           \/ SendSyncBlockMsg(n) \/ FinishSync(n) \/ ReceiveSyncBlockRequest(n)
           \/ ReceiveSyncBlockResponse(n) \/ StartTimer(n) \/ TimerStopped(n) \/ TimerFires(n)
           \/ RequestView(n) \/ ReceiveChangeViewReq(n) \/ EndView(n)
  <2>1. UNCHANGED cache
    BY <1>3 DEF Initialization, WaiterStart, WriteBlock, TakeSyncRequest, SendSyncBlockMsg,
       FinishSync, ReceiveSyncBlockRequest, ReceiveSyncBlockResponse, StartTimer, TimerStopped,
       TimerFires, RequestView, ReceiveChangeViewReq, EndView, pluginVars
  <2> QED BY <2>1, CacheUnchanged
<1> QED BY <1>1, <1>2, <1>3, ToConsensusCache, ReceiveProposalCache, ReceiveResponseCache
        DEF Step

\* Only Add brings an entry in, and below the wrap-around it brings it in alone.
LEMMA OneContentStep ==
    ASSUME HeightsFit, TypeOK, OneContentEarly, [Next]_vars PROVE OneContentEarly'
<1>1. PICK n \in Node : CacheStep(n)
  <2>1. CASE UNCHANGED vars
    <3>1. 0 \in Node
      BY NAssumption DEF Node
    <3> QED BY <2>1, <3>1, CacheUnchanged DEF vars, pluginVars
  <2>2. CASE Next
    BY <2>2, StepCache DEF Next, Live
  <2> QED BY <2>1, <2>2
<1> SUFFICES ASSUME NEW k \in Node, NEW c \in Block, NEW d \in Block,
                    Has(cache'[k], c), Height[c] < MaxPayloadCacheNum,
                    Has(cache'[k], d), Height[d] < MaxPayloadCacheNum
             PROVE  c = d
  BY DEF OneContentEarly
<1>2. CASE Has(cache[k], c) /\ Has(cache[k], d)
  BY <1>2 DEF OneContentEarly
<1>3. CASE ~(Has(cache[k], c) /\ Has(cache[k], d))
  <2>1. k = n
    BY <1>1, <1>3 DEF CacheStep
  <2>2. PICK b \in Block : Added(n, b)
    BY <1>1, <1>3, <2>1 DEF CacheStep, Fewer
  <2>3. /\ c = b \/ (Has(cache[k], c) /\ c \notin Evicted(b))
        /\ d = b \/ (Has(cache[k], d) /\ d \notin Evicted(b))
    BY <2>1, <2>2 DEF Added
  <2>4. Height[b] < MaxPayloadCacheNum
    BY <1>3, <2>3
  <2> QED BY <2>3, <2>4, EvictedMeaning
<1> QED BY <1>2, <1>3

\* ConsensusPlugin.Add wraps around below MaxPayloadCacheNum and there keeps no
\* block but the one it adds, whatever the handlers do to the cache in between.
THEOREM OneContentHolds == ASSUME HeightsFit PROVE Spec => []OneContentEarly
<1>1. Init => OneContentEarly
  BY DEF Init, Fresh, OneContentEarly, Has, NoContent
<1>2. TypeOK /\ OneContentEarly /\ [Next]_vars => OneContentEarly'
  BY OneContentStep
<1> QED BY <1>1, <1>2, TypeCorrect, PTL DEF Spec
=============================================================================
