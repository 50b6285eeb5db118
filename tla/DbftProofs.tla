----------------------------- MODULE DbftProofs -----------------------------
(***************************************************************************)
(* What DBFT guarantees for any number of nodes, any tree of blocks and    *)
(* any bounds.  Its rounds are those of BFT, so the lemmas of module       *)
(* BftProofs cover them; here they are joined with the view changes and    *)
(* with block synchronisation, which use variables of their own.           *)
(***************************************************************************)
EXTENDS DbftCore, BftProofs, WellFoundedInduction

\* The groups of BaseInv next to RoundInv.
ViewTypes ==
    /\ timer \in [Node -> {"nil", "armed", "off"}]
    /\ stray \in [Node -> Nat]
    /\ view \in [Node -> 0 .. MaxView]
    /\ changing \in [Node -> BOOLEAN]
    /\ viewSets \in [Node -> [View -> ViewSet]]
    /\ handlers \in [Node -> SUBSET Handler]
    /\ fired \subseteq Node \X View
    /\ viewReqs \subseteq ViewReq

SyncTypes ==
    asking \in [Node -> SUBSET Ask] /\ syncReqs \subseteq SyncReq /\ syncResps \subseteq SyncResp
Views == CountedAsked /\ RequestsBacked
Syncs == ProposalsBuilt /\ AsksBuilt

LEMMA Groups ==
    /\ BaseInv <=> RoundInv /\ ViewTypes /\ SyncTypes /\ Views /\ Syncs
    /\ BaseInv' <=> RoundInv' /\ ViewTypes' /\ SyncTypes' /\ Views' /\ Syncs'
  BY DEF BaseInv, DbftTypeOK, RoundInv, ViewTypes, SyncTypes, Views, Syncs

\* GetAccountWithMinId names a member of a list that is not empty.
LEMMA MinIdMember == ASSUME NEW S \in SUBSET Node, S # {} PROVE AccountWithMinId(S) \in S
<1> DEFINE R == {ss \in Nat \X Nat : ss[1] < ss[2]}
<1>1. IsWellFoundedOn(R, Nat)
  BY NatLessThanWellFounded DEF OpToRel
<1>2. S \subseteq Nat
  BY NAssumption DEF Node
<1> HIDE DEF R
<1>3. PICK i \in S : \A j \in S : ~(<<j, i>> \in R)
  BY <1>1, <1>2, WFMin
<1>4. ASSUME NEW j \in S PROVE i <= j
  <2>1. <<j, i>> \notin R /\ i \in Nat /\ j \in Nat
    BY <1>2, <1>3
  <2> QED BY <2>1 DEF R
<1> QED BY <1>4 DEF AccountWithMinId

-----------------------------------------------------------------------------
(* What survives a step that leaves a group's variables alone *)

LEMMA ViewTypesKept == ASSUME ViewTypes, UNCHANGED <<timerVars, viewVars>> PROVE ViewTypes'
  BY DEF ViewTypes, timerVars, viewVars

LEMMA TimerTypes ==
    ASSUME ViewTypes, NEW n \in Node, StopTimer(n) \/ NewTimer(n)
    PROVE  timer' \in [Node -> {"nil", "armed", "off"}] /\ stray' \in [Node -> Nat]
<1>1. ASSUME StopTimer(n)
      PROVE  timer' \in [Node -> {"nil", "armed", "off"}] /\ stray' \in [Node -> Nat]
  BY <1>1 DEF ViewTypes, StopTimer
<1>2. ASSUME NewTimer(n)
      PROVE  timer' \in [Node -> {"nil", "armed", "off"}] /\ stray' \in [Node -> Nat]
  BY <1>2 DEF ViewTypes, NewTimer
<1> QED BY <1>1, <1>2

LEMMA TimerStep ==
    ASSUME ViewTypes, NEW n \in Node, StopTimer(n) \/ NewTimer(n), UNCHANGED viewVars
    PROVE  ViewTypes'
  BY TimerTypes DEF ViewTypes, viewVars

LEMMA ViewsKept == ASSUME Views, UNCHANGED viewVars PROVE Views'
  BY DEF Views, CountedAsked, RequestsBacked, Backed, Joined, viewVars

LEMMA SyncsKept ==
    ASSUME Syncs, UNCHANGED <<chain, tip, proposals, asking, syncReqs>> PROVE Syncs'
  BY DEF Syncs, ProposalsBuilt, AsksBuilt

\* What has to hold of new proposals and requests for blocks.
LEMMA SyncsStep ==
    ASSUME Syncs, UNCHANGED <<chain, tip>>,
           \A m \in proposals' : m \in proposals \/ Parent[m.block] \in chain[m.from],
           \A a \in syncReqs' \cup UNION {asking'[n] : n \in Node} :
               \/ \E c \in syncReqs \cup UNION {asking[n] : n \in Node} :
                     a.last = c.last /\ a.proposer = c.proposer
               \/ a.last <= Height[tip[a.proposer]]
    PROVE  Syncs'
<1>1. ProposalsBuilt'
  BY DEF Syncs, ProposalsBuilt
<1>2. AsksBuilt'
  BY DEF Syncs, AsksBuilt
<1> QED BY <1>1, <1>2 DEF Syncs

\* A step of a BFT round without a new block or proposal.
LEMMA RoundStep ==
    ASSUME BaseInv, RoundInv', UNCHANGED <<timerVars, viewVars, syncVars, chain, tip, proposals>>
    PROVE  BaseInv'
<1>1. ViewTypes' /\ SyncTypes' /\ Views' /\ Syncs'
  BY Groups, ViewTypesKept, ViewsKept, SyncsKept DEF SyncTypes, syncVars
<1> QED BY <1>1, Groups

\* A step that only appoints a master, notifies, or ends a process.
LEMMA OtherKeeps ==
    ASSUME RoundInv, master' \in [Node -> Account], events' \in [Node -> SUBSET Event],
           crashed' \subseteq Node, proposals' \subseteq Proposal,
           UNCHANGED <<signVars, blocked, replying, callVars, workers, committing, ledgerVars,
                       signed, responses, commits>>
    PROVE  RoundInv'
<1> USE DEF signVars, callVars, ledgerVars
<1>1. Grows
  BY DEF Grows
<1>2. BftTypeOK'
  BY DEF RoundInv, BftTypeOK
<1>3. SignaturesMade' /\ WorkersCurrent' /\ OutcomesCertified' /\ Ledger'
  BY <1>1, SignaturesKept, WorkersKept, OutcomesKept, LedgerKept DEF RoundInv, BftTypeOK
<1> QED BY <1>2, <1>3 DEF RoundInv

\* A block goes on the current one only, so the repository stays a chain whose
\* current block is its highest.
LEMMA WriteBlockSyncs ==
    ASSUME RoundInv, Syncs, SyncTypes, NEW n \in Node, NEW b \in Block, WriteBlock(n, b),
           UNCHANGED <<proposals, asking, syncReqs>>
    PROVE  Syncs'
<1>1. CASE UNCHANGED <<chain, tip, events>>
  BY <1>1, SyncsKept
<1>2. CASE /\ Parent[b] = tip[n]
           /\ chain' = [chain EXCEPT ![n] = @ \cup {b}]
           /\ tip' = [tip EXCEPT ![n] = b]
  <2>1. \A c \in AnyBlock : Height[c] \in Nat
    BY BlockAssumption
  <2>2. Height[b] = Height[tip[n]] + 1 /\ Height[tip[n]] \in Nat
    BY <1>2, <2>1, BlockAssumption DEF RoundInv, BftTypeOK
  <2>3. /\ chain'[n] = chain[n] \cup {b} /\ tip'[n] = b
        /\ \A k \in Node : k # n => chain'[k] = chain[k] /\ tip'[k] = tip[k]
    BY <1>2 DEF RoundInv, BftTypeOK
  <2>4. \A c \in chain[n] : Height[c] \in Nat /\ Height[c] <= Height[tip[n]]
    BY <2>1 DEF RoundInv, BftTypeOK, Syncs, ProposalsBuilt
  <2>5. \A k \in Node : \A c \in chain'[k] : Height[c] <= Height[tip'[k]]
    BY <2>2, <2>3, <2>4 DEF Syncs, ProposalsBuilt
  <2>6. \A m \in proposals : Parent[m.block] \in chain'[m.from]
    BY <2>3 DEF Syncs, ProposalsBuilt, RoundInv, BftTypeOK, Proposal
  <2>7. ASSUME NEW a \in syncReqs \cup UNION {asking[k] : k \in Node}
        PROVE  a.last <= Height[tip'[a.proposer]]
    <3>1. a.last \in Nat /\ a.proposer \in Node
      BY DEF SyncTypes, SyncReq, Ask
    <3>2. a.last <= Height[tip[a.proposer]]
      BY DEF Syncs, AsksBuilt
    <3>3. a.proposer = n => a.last <= Height[b]
      BY <2>2, <3>1, <3>2
    <3> QED BY <2>3, <3>1, <3>2, <3>3
  <2> QED BY <2>5, <2>6, <2>7 DEF Syncs, ProposalsBuilt, AsksBuilt
<1> QED BY <1>1, <1>2 DEF WriteBlock

-----------------------------------------------------------------------------
(* Rounds *)

LEMMA DbftNextRoundKeeps == ASSUME BaseInv, NEW n \in Node, DbftNextRound(n) PROVE BaseInv'
<1>1. RoundInv'
  BY Groups, NextRoundKeeps DEF DbftNextRound, NextRound
<1>2. UNCHANGED <<chain, tip, proposals>>
  BY DEF DbftNextRound, RoundAfter, StartRound, ledgerVars, netVars
<1>3. (NewTimer(n) \/ UNCHANGED timerVars) /\ UNCHANGED <<viewVars, syncVars>>
  BY DEF DbftNextRound
<1>4. ViewTypes' /\ Views'
  BY <1>3, Groups, TimerStep, ViewTypesKept, ViewsKept
<1>5. SyncTypes' /\ Syncs'
  BY <1>2, <1>3, Groups, SyncsKept DEF SyncTypes, syncVars
<1> QED BY <1>1, <1>4, <1>5, Groups

LEMMA DbftToConsensusKeeps ==
    ASSUME BaseInv, NEW n \in Node,
           DbftToConsensus(n) \/ DbftWaitResponse(n) \/ DbftReceiveResponse(n) \/ DbftSendReply(n)
    PROVE  BaseInv'
<1>1. /\ \/ DeliverResult(n) \/ WaitTimeout(n) \/ TakeTunnel(n) \/ CollectTimeout(n)
         \/ SetCommitted(n) \/ ReceiveResponse(n) \/ SendReply(n)
      /\ UNCHANGED <<timerVars, viewVars, syncVars>>
  BY DEF DbftToConsensus, DbftWaitResponse, DbftReceiveResponse, DbftSendReply
<1>2. RoundInv'
  BY <1>1, Groups, DeliverResultKeeps, WaitTimeoutKeeps, TakeTunnelKeeps, CollectTimeoutKeeps,
     SetCommittedKeeps, ReceiveResponseKeeps, SendReplyKeeps
<1>3. UNCHANGED <<chain, tip, proposals>>
  BY <1>1 DEF DeliverResult, WaitTimeout, TakeTunnel, CollectTimeout, SetCommitted,
     ReceiveResponse, SendReply, ledgerVars, netVars
<1> QED BY <1>1, <1>2, <1>3, RoundStep

LEMMA DbftCommitKeeps ==
    ASSUME BaseInv, NEW n \in Node, DbftSendCommit(n) \/ DbftReceiveCommit(n) PROVE BaseInv'
<1>1. (SendCommit(n) \/ ReceiveCommit(n)) /\ UNCHANGED <<timerVars, viewVars, syncVars>>
  BY DEF DbftSendCommit, DbftReceiveCommit
<1>2. RoundInv'
  BY <1>1, Groups, SendCommitKeeps, ReceiveCommitKeeps
<1>3. UNCHANGED proposals
  BY <1>1 DEF SendCommit, ReceiveCommit
<1>4. (\E b \in Block : WriteBlock(n, b)) \/ UNCHANGED <<chain, tip>>
  <2>1. ASSUME SendCommit(n) PROVE (\E b \in Block : WriteBlock(n, b)) \/ UNCHANGED <<chain, tip>>
    <3>1. PICK c \in committing[n] :
              CommitPanics(n, c) \/ CommitFailed(n, c) \/ CommitWritten(n, c)
      BY <2>1 DEF SendCommit
    <3>2. c.block \in Block
      BY Groups DEF RoundInv, BftTypeOK, Outcome
    <3> QED BY <3>1, <3>2 DEF CommitPanics, CommitFailed, CommitWritten
  <2>2. ASSUME ReceiveCommit(n)
        PROVE  (\E b \in Block : WriteBlock(n, b)) \/ UNCHANGED <<chain, tip>>
    <3>1. PICK m \in commits : UNCHANGED ledgerVars \/ StoreCommitted(n, m)
      BY <2>2 DEF ReceiveCommit, FailureTold
    <3>2. m.block \in Block
      BY Groups DEF RoundInv, BftTypeOK, Commit
    <3> QED BY <3>1, <3>2 DEF StoreCommitted, ledgerVars
  <2> QED BY <1>1, <2>1, <2>2
<1>5. Syncs'
  BY <1>1, <1>3, <1>4, Groups, WriteBlockSyncs, SyncsKept DEF syncVars
<1>6. ViewTypes' /\ Views' /\ SyncTypes'
  BY <1>1, Groups, ViewTypesKept, ViewsKept DEF SyncTypes, syncVars
<1> QED BY <1>2, <1>5, <1>6, Groups

\* A process that ends on a timer it does not have.
LEMMA TimerPanicsKeeps ==
    ASSUME BaseInv, NEW n \in Node, TimerPanics(n), proposals' \subseteq proposals,
           UNCHANGED <<master, signVars, blocked, replying, callVars, workers, committing, events,
                       ledgerVars, signed, responses, commits>>,
           UNCHANGED <<viewVars, syncVars>>
    PROVE  BaseInv'
<1>1. crashed' = crashed \cup {n} /\ UNCHANGED timerVars
  BY DEF TimerPanics
<1>2. RoundInv'
  BY <1>1, Groups, OtherKeeps DEF RoundInv, BftTypeOK
<1>3. Syncs'
  BY Groups DEF Syncs, ProposalsBuilt, AsksBuilt, ledgerVars, syncVars
<1>4. ViewTypes' /\ Views' /\ SyncTypes'
  BY <1>1, Groups, ViewTypesKept, ViewsKept DEF SyncTypes, syncVars
<1> QED BY <1>2, <1>3, <1>4, Groups

LEMMA DbftReceiveRequestKeeps ==
    ASSUME BaseInv, NEW n \in Node, DbftReceiveRequest(n) PROVE BaseInv'
<1>1. PICK w \in workers[n] :
          /\ w.pc = "request"
          /\ \/ TimerPanics(n) /\ UNCHANGED <<workers, signVars, signed, proposals>>
             \/ /\ StopTimer(n) /\ UNCHANGED crashed
                /\ RequestRefused(n, w) /\ UNCHANGED proposals
             \/ /\ StopTimer(n) /\ UNCHANGED crashed
                /\ RequestAccepted(n, w)
                /\ proposals' = proposals \cup DbftProposals(n, w.block)
  BY DEF DbftReceiveRequest
<1>2. /\ UNCHANGED <<master, blocked, replying, callVars, committing, events, ledgerVars,
                     responses, commits>>
      /\ UNCHANGED <<viewVars, syncVars>>
  BY DEF DbftReceiveRequest
<1>3. w.block \in Block
  BY Groups DEF RoundInv, BftTypeOK, Worker
<1>4. ASSUME StopTimer(n) PROVE ViewTypes' /\ Views' /\ SyncTypes'
  BY <1>2, <1>4, Groups, TimerStep, ViewsKept DEF SyncTypes, syncVars
<1>5. CASE TimerPanics(n) /\ UNCHANGED <<workers, signVars, signed, proposals>>
  BY <1>2, <1>5, TimerPanicsKeeps
<1>6. CASE StopTimer(n) /\ UNCHANGED crashed /\ RequestRefused(n, w) /\ UNCHANGED proposals
  <2>1. RoundInv'
    BY <1>2, <1>6, Groups, RequestRefusedKeeps DEF netVars
  <2>2. Syncs'
    BY <1>2, <1>6, Groups, SyncsKept DEF ledgerVars, syncVars
  <2> QED BY <1>4, <1>6, <2>1, <2>2, Groups
<1>7. CASE /\ StopTimer(n) /\ UNCHANGED crashed
           /\ RequestAccepted(n, w)
           /\ proposals' = proposals \cup DbftProposals(n, w.block)
  <2>1. /\ DbftProposals(n, w.block) \subseteq Proposal
        /\ \A m \in DbftProposals(n, w.block) : m.block = w.block /\ m.from = n
    BY <1>3 DEF DbftProposals, Proposal, Peer
  <2>2. proposals' \subseteq Proposal
    BY <1>7, <2>1, Groups DEF RoundInv, BftTypeOK
  <2>3. RoundInv'
    BY <1>1, <1>2, <1>7, <2>2, Groups, RequestAcceptedKeeps
  <2>4. Parent[w.block] \in chain[n]
    BY <1>7 DEF RequestAccepted, VerifyPayload
  <2>5. \A m \in proposals' : m \in proposals \/ Parent[m.block] \in chain[m.from]
    BY <1>7, <2>1, <2>4
  <2>6. Syncs'
    BY <1>2, <2>5, Groups, SyncsStep DEF ledgerVars, syncVars
  <2> QED BY <1>4, <1>7, <2>3, <2>6, Groups
<1> QED BY <1>1, <1>5, <1>6, <1>7

LEMMA DbftReceiveProposalKeeps ==
    ASSUME BaseInv, NEW n \in Node, DbftReceiveProposal(n) PROVE BaseInv'
<1>1. PICK m \in proposals :
          /\ m.to = n /\ m.from = master[n]
          /\ proposals' = proposals \ {m}
          /\ \/ TimerPanics(n) /\ UNCHANGED <<signed, validator, replying, asking>>
             \/ /\ StopTimer(n) /\ UNCHANGED crashed
                /\ ProposalIgnored(n, m) \/ AskMissing(n, m) \/ ProposalSigned(n, m)
          /\ UNCHANGED <<master, commit, digest, signMap, signatures, blocked, callVars, workers,
                         committing, events, ledgerVars, responses, commits>>
          /\ UNCHANGED <<viewVars, syncReqs, syncResps>>
  BY DEF DbftReceiveProposal
<1>2. m.block \in Block /\ m.from \in Node /\ proposals' \subseteq Proposal
  BY <1>1, Groups DEF RoundInv, BftTypeOK, Proposal
<1>3. CASE TimerPanics(n) /\ UNCHANGED <<signed, validator, replying, asking>>
  BY <1>1, <1>3, TimerPanicsKeeps DEF signVars, syncVars
<1>4. ASSUME StopTimer(n) PROVE ViewTypes' /\ Views'
  BY <1>1, <1>4, Groups, TimerStep, ViewsKept
<1>5. ASSUME UNCHANGED <<signed, validator, replying, crashed>> PROVE RoundInv'
  BY <1>1, <1>2, <1>5, Groups, OtherKeeps DEF RoundInv, BftTypeOK, signVars
<1>6. ASSUME UNCHANGED asking PROVE SyncTypes' /\ Syncs'
  <2>1. SyncTypes'
    BY <1>1, <1>6, Groups DEF SyncTypes
  <2>2. UNCHANGED <<chain, tip>>
    BY <1>1 DEF ledgerVars
  <2> QED BY <1>1, <1>6, <2>1, <2>2, Groups, SyncsStep
<1>7. CASE StopTimer(n) /\ UNCHANGED crashed /\ ProposalIgnored(n, m)
  BY <1>4, <1>5, <1>6, <1>7, Groups DEF ProposalIgnored
<1>8. CASE StopTimer(n) /\ UNCHANGED crashed /\ ProposalSigned(n, m)
  <2>1. SignProposal(n, m.block) /\ UNCHANGED asking
    BY <1>8 DEF ProposalSigned
  <2>2. RoundInv'
    BY <1>1, <1>2, <1>8, <2>1, Groups, SignProposalKeeps
  <2> QED BY <1>4, <1>6, <1>8, <2>1, <2>2, Groups
<1>9. CASE StopTimer(n) /\ UNCHANGED crashed /\ AskMissing(n, m)
  <2> DEFINE r == [first |-> Height[tip[n]] + 1, last |-> Height[m.block] - 1,
                   proposer |-> m.from]
  <2>1. /\ Height[m.block] > Height[tip[n]] + 1
        /\ asking' = [asking EXCEPT ![n] = @ \cup {r}]
        /\ UNCHANGED <<signed, validator, replying>>
    BY <1>9 DEF AskMissing
  <2>2. Height[tip[n]] \in Nat /\ Height[m.block] \in Nat
    BY <1>2, Groups, BlockAssumption DEF RoundInv, BftTypeOK, AnyBlock
  <2>3. Height[m.block] - 1 = Height[Parent[m.block]] /\ Height[Parent[m.block]] \in Nat
    BY <1>2, BlockAssumption DEF AnyBlock
  <2>4. r \in Ask /\ r.proposer = m.from /\ r.last = Height[Parent[m.block]]
    BY <1>1, <1>2, <2>1, <2>2, <2>3 DEF Ask
  <2> HIDE DEF r
  <2>5. Height[Parent[m.block]] <= Height[tip[m.from]]
    BY <1>2, Groups DEF Syncs, ProposalsBuilt
  <2>6. SyncTypes'
    BY <1>1, <2>1, <2>4, Groups DEF SyncTypes
  <2>7. \A k \in Node : \A a \in asking'[k] : a \in asking[k] \/ a = r
    BY <2>1, Groups DEF SyncTypes
  <2>8. \A a \in syncReqs' \cup UNION {asking'[k] : k \in Node} :
            a \in syncReqs \cup UNION {asking[k] : k \in Node} \/ a = r
    BY <1>1, <2>7
  <2>9. UNCHANGED <<chain, tip>> /\ \A p \in proposals' : p \in proposals
    BY <1>1 DEF ledgerVars
  <2>10. Syncs'
    BY <2>4, <2>5, <2>8, <2>9, Groups, SyncsStep
  <2> QED BY <1>4, <1>5, <1>9, <2>1, <2>6, <2>10, Groups
<1> QED BY <1>1, <1>3, <1>7, <1>8, <1>9

LEMMA SendSyncBlockReqKeeps ==
    ASSUME BaseInv, NEW n \in Node, SendSyncBlockReq(n) PROVE BaseInv'
<1>1. PICK a \in asking[n] :
          /\ asking' = [asking EXCEPT ![n] = @ \ {a}]
          /\ syncReqs' = syncReqs \cup {[from |-> n, to |-> master[n], first |-> a.first,
                                        last |-> a.last, proposer |-> a.proposer]}
          /\ UNCHANGED <<bftVars, timerVars, viewVars, syncResps>>
  BY DEF SendSyncBlockReq
<1> DEFINE r == [from |-> n, to |-> master[n], first |-> a.first, last |-> a.last,
                 proposer |-> a.proposer]
<1>2. a \in Ask /\ master[n] \in Account
  BY Groups DEF SyncTypes, RoundInv, BftTypeOK
<1>3. r \in SyncReq /\ r.last = a.last /\ r.proposer = a.proposer
  BY <1>2 DEF SyncReq, Ask
<1>4. syncReqs' = syncReqs \cup {r}
  BY <1>1
<1> HIDE DEF r
<1>5. SyncTypes'
  BY <1>1, <1>3, <1>4, Groups DEF SyncTypes
<1>6. \A k \in Node : asking'[k] \subseteq asking[k]
  BY <1>1, Groups DEF SyncTypes
<1>7. \A c \in syncReqs' \cup UNION {asking'[k] : k \in Node} :
          c \in syncReqs \cup UNION {asking[k] : k \in Node} \/ c = r
  BY <1>4, <1>6
<1>8. Syncs'
  <2>1. UNCHANGED <<chain, tip, proposals>>
    BY <1>1 DEF bftVars, ledgerVars, netVars
  <2>2. a \in syncReqs \cup UNION {asking[k] : k \in Node}
    OBVIOUS
  <2> QED BY <1>3, <1>7, <2>1, <2>2, Groups, SyncsStep
<1> QED BY <1>1, <1>5, <1>8, Groups, StutterKeeps, ViewTypesKept, ViewsKept

LEMMA SyncKeeps == ASSUME BaseInv, NEW n \in Node, Sync(n) PROVE BaseInv'
<1>1. CASE ReceiveSyncBlockReq(n)
  <2>1. PICK m \in syncReqs :
            /\ syncReqs' = syncReqs \ {m}
            /\ \/ /\ syncResps' = syncResps \cup
                        {[to |-> m.from, first |-> m.first, last |-> m.last]}
                  /\ UNCHANGED crashed
               \/ crashed' = crashed \cup {n} /\ UNCHANGED syncResps
            /\ UNCHANGED <<master, signVars, blocked, replying, callVars, workers, committing,
                           events, ledgerVars, signed, netVars, timerVars, viewVars, asking>>
    BY <1>1 DEF ReceiveSyncBlockReq
  <2>2. SyncTypes'
    BY <2>1, Groups DEF SyncTypes, SyncReq, SyncResp
  <2>3. Syncs'
    BY <2>1, Groups, SyncsStep DEF ledgerVars, netVars
  <2>4. RoundInv'
    BY <2>1, Groups, OtherKeeps DEF RoundInv, BftTypeOK, netVars
  <2> QED BY <2>1, <2>2, <2>3, <2>4, Groups, ViewTypesKept, ViewsKept
<1>2. CASE ReceiveSyncBlockResp(n)
  <2>1. PICK m \in syncResps :
            /\ syncResps' = syncResps \ {m}
            /\ crashed' = crashed \cup {n}
            /\ UNCHANGED <<master, signVars, blocked, replying, callVars, workers, committing,
                           events, ledgerVars, signed, netVars, timerVars, viewVars, asking,
                           syncReqs>>
    BY <1>2 DEF ReceiveSyncBlockResp
  <2>2. RoundInv'
    BY <2>1, Groups, OtherKeeps DEF RoundInv, BftTypeOK, netVars
  <2>3. SyncTypes' /\ Syncs'
    BY <2>1, Groups, SyncsKept DEF SyncTypes, ledgerVars, netVars
  <2> QED BY <2>1, <2>2, <2>3, Groups, ViewTypesKept, ViewsKept
<1> QED BY <1>1, <1>2, SendSyncBlockReqKeeps DEF Sync

-----------------------------------------------------------------------------
(* View changes *)

\* Timeouts are not forgotten and lists of nodes do not shrink.
LEMMA BackedKept ==
    ASSUME fired \subseteq fired',
           \A n \in Node : \A v \in View : viewSets[n][v].nodes \subseteq viewSets'[n][v].nodes,
           NEW S, NEW v \in View, Backed(S, v)
    PROVE  Backed(S, v)'
  BY DEF Backed, Joined

\* What has to hold of new lists, requests and handlers.
LEMMA ViewsStep ==
    ASSUME ViewTypes, Views, fired \subseteq fired',
           \A n \in Node : \A v \in View : viewSets[n][v].nodes \subseteq viewSets'[n][v].nodes,
           \A n \in Node : \A v \in View :
               \/ viewSets'[n][v].nodes = viewSets[n][v].nodes
               \/ Backed(viewSets[n][v].nodes, v)',
           \A m \in viewReqs' : m \in viewReqs \/ (m.nodes # {} /\ Backed(m.nodes, m.view)'),
           \A n \in Node : \A h \in handlers'[n] :
               \/ \E g \in handlers[n] : g.nodes = h.nodes /\ g.view = h.view
               \/ \E m \in viewReqs : m.nodes = h.nodes /\ m.view = h.view
    PROVE  Views'
<1>1. \A S, u : u \in View /\ Backed(S, u) => Backed(S, u)'
  BY BackedKept
<1>2. ASSUME NEW m \in viewReqs PROVE m.nodes # {} /\ Backed(m.nodes, m.view)'
  <2>1. m.view \in View
    BY DEF ViewTypes, ViewReq
  <2> QED BY <1>1, <2>1 DEF Views, CountedAsked, RequestsBacked
<1>3. ASSUME NEW n \in Node, NEW g \in handlers[n] PROVE g.nodes # {} /\ Backed(g.nodes, g.view)'
  <2>1. g.view \in View
    BY DEF ViewTypes, Handler
  <2> QED BY <1>1, <2>1 DEF Views, RequestsBacked
<1>4. ASSUME NEW n \in Node, NEW v \in View PROVE Backed(viewSets[n][v].nodes, v)'
  <2>1. Backed(viewSets[n][v].nodes, v)
    BY DEF Views, CountedAsked
  <2>2. CASE viewSets'[n][v].nodes = viewSets[n][v].nodes
    <3>1. PICK S : S = viewSets[n][v].nodes
      OBVIOUS
    <3>2. Backed(S, v)'
      BY <1>1, <2>1, <3>1
    <3> QED BY <2>2, <3>1, <3>2 DEF Backed, Joined
  <2> QED BY <2>2
<1>5. ASSUME NEW m \in viewReqs' PROVE m.nodes # {} /\ Backed(m.nodes, m.view)'
  BY <1>2
<1>6. ASSUME NEW n \in Node, NEW h \in handlers'[n]
      PROVE  h.nodes # {} /\ Backed(h.nodes, h.view)'
  <2>1. CASE \E g \in handlers[n] : g.nodes = h.nodes /\ g.view = h.view
    BY <1>3, <2>1
  <2>2. CASE \E m \in viewReqs : m.nodes = h.nodes /\ m.view = h.view
    BY <1>2, <2>2
  <2> QED BY <2>1, <2>2
<1> QED BY <1>4, <1>5, <1>6 DEF Views, CountedAsked, RequestsBacked

\* A step of a view change touches nothing of the rounds but the master and the
\* notifications, and may end the process.
LEMMA ChangeViewFrame ==
    ASSUME BaseInv, ViewTypes', Views',
           master' \in [Node -> Account], events' \in [Node -> SUBSET Event],
           crashed' \subseteq Node,
           UNCHANGED <<signVars, blocked, replying, callVars, workers, committing, ledgerVars, signed,
                       netVars, syncVars>>
    PROVE  BaseInv'
<1>1. RoundInv'
  BY Groups, OtherKeeps DEF RoundInv, BftTypeOK, netVars
<1>2. SyncTypes' /\ Syncs'
  BY Groups, SyncsKept DEF SyncTypes, ledgerVars, netVars, syncVars
<1> QED BY <1>1, <1>2, Groups

LEMMA WaitMasterTimeOutKeeps ==
    ASSUME BaseInv, NEW n \in Node, WaitMasterTimeOut(n) PROVE BaseInv'
<1>0. PICK v \in View : v = view[n] + 1
  BY DEF WaitMasterTimeOut
<1> DEFINE sent == {[view |-> v, nodes |-> {n}, to |-> p] : p \in Node}
<1>1. /\ \/ timer' = [timer EXCEPT ![n] = "off"] /\ UNCHANGED stray
         \/ stray[n] > 0 /\ stray' = [stray EXCEPT ![n] = @ - 1] /\ UNCHANGED timer
      /\ fired' = fired \cup {<<n, v>>}
      /\ viewReqs' = viewReqs \cup sent
      /\ UNCHANGED <<bftVars, view, changing, viewSets, handlers, syncVars>>
  BY <1>0 DEF WaitMasterTimeOut
<1>2. sent \subseteq ViewReq /\ \A m \in sent : m.view = v /\ m.nodes = {n}
  BY <1>1 DEF ViewReq
<1> HIDE DEF sent
<1>3. timer' \in [Node -> {"nil", "armed", "off"}] /\ stray' \in [Node -> Nat]
  BY <1>1, Groups DEF ViewTypes
<1>4. ViewTypes'
  BY <1>1, <1>2, <1>3, Groups DEF ViewTypes
<1>5. Backed({n}, v)'
  BY <1>1 DEF Backed, Joined
<1>6. \A m \in viewReqs' : m \in viewReqs \/ (m.nodes # {} /\ Backed(m.nodes, m.view)')
  BY <1>1, <1>2, <1>5
<1>7. Views'
  BY <1>1, <1>6, Groups, ViewsStep
<1> QED BY <1>1, <1>4, <1>7, Groups, ChangeViewFrame DEF RoundInv, BftTypeOK, bftVars

LEMMA AcceptKeeps == ASSUME BaseInv, NEW n \in Node, AcceptChangeViewReq(n) PROVE BaseInv'
<1>1. PICK m \in viewReqs :
          /\ viewReqs' = viewReqs \ {m}
          /\ handlers' = [handlers EXCEPT ![n] = @ \cup
                {[view |-> m.view, nodes |-> m.nodes, pc |-> "enter"]}]
          /\ UNCHANGED <<bftVars, timerVars, view, changing, viewSets, fired, syncVars>>
  BY DEF AcceptChangeViewReq
<1> DEFINE h0 == [view |-> m.view, nodes |-> m.nodes, pc |-> "enter"]
<1>2. m \in ViewReq
  BY Groups DEF ViewTypes
<1>3. h0 \in Handler /\ h0.nodes = m.nodes /\ h0.view = m.view
  BY <1>2 DEF ViewReq, Handler
<1>4. handlers' = [handlers EXCEPT ![n] = @ \cup {h0}]
  BY <1>1
<1> HIDE DEF h0
<1>5. ViewTypes'
  BY <1>1, <1>3, <1>4, Groups DEF ViewTypes, timerVars
<1>6. \A k \in Node : \A h \in handlers'[k] : h \in handlers[k] \/ h = h0
  BY <1>4, Groups DEF ViewTypes
<1>7. Views'
  BY <1>1, <1>3, <1>6, Groups, ViewsStep
<1> QED BY <1>1, <1>5, <1>7, Groups, ChangeViewFrame DEF RoundInv, BftTypeOK, bftVars

\* Where a handler goes does not change what it was asked.
LEMMA HandlersMove ==
    ASSUME ViewTypes, NEW n \in Node, NEW h \in handlers[n],
           Done(n, h) \/ \E pc \in {"count", "lock", "announce"} : Goto(n, h, pc)
    PROVE  /\ handlers' \in [Node -> SUBSET Handler]
           /\ \A k \in Node : \A g \in handlers'[k] :
                  \E u \in handlers[k] : u.nodes = g.nodes /\ u.view = g.view
<1>1. CASE Done(n, h)
  BY <1>1 DEF Done, ViewTypes
<1>2. ASSUME NEW pc \in {"count", "lock", "announce"}, Goto(n, h, pc)
      PROVE  /\ handlers' \in [Node -> SUBSET Handler]
             /\ \A k \in Node : \A g \in handlers'[k] :
                    \E u \in handlers[k] : u.nodes = g.nodes /\ u.view = g.view
  <2> DEFINE h1 == [h EXCEPT !.pc = pc]
  <2>1. h \in Handler
    BY DEF ViewTypes
  <2>2. h1 \in Handler /\ h1.nodes = h.nodes /\ h1.view = h.view
    BY <2>1 DEF Handler
  <2>3. handlers' = [handlers EXCEPT ![n] = (@ \ {h}) \cup {h1}]
    BY <1>2 DEF Goto
  <2> HIDE DEF h1
  <2> QED BY <2>2, <2>3 DEF ViewTypes
<1> QED BY <1>1, <1>2

\* A handler marks its view set: the nodes stay, and so does everything else.
LEMMA SetsMarked ==
    ASSUME ViewTypes, NEW n \in Node, NEW v \in View, NEW s \in ViewSet,
           s.nodes = viewSets[n][v].nodes, viewSets' = [viewSets EXCEPT ![n][v] = s]
    PROVE  /\ viewSets' \in [Node -> [View -> ViewSet]]
           /\ \A k \in Node : \A u \in View : viewSets'[k][u].nodes = viewSets[k][u].nodes
  BY DEF ViewTypes

LEMMA EnterKeeps == ASSUME BaseInv, NEW n \in Node, EnterChangeViewReq(n) PROVE BaseInv'
<1>1. PICK h \in handlers[n] :
          h.pc = "enter" /\ (EnterPanics(n, h) \/ EnterLate(n, h) \/ EnterCounts(n, h))
  BY DEF EnterChangeViewReq
<1>2. UNCHANGED <<master, signVars, blocked, replying, callVars, workers, committing, events,
                  ledgerVars, signed, netVars, view, fired, viewReqs, syncVars>>
  BY DEF EnterChangeViewReq
<1>3. h.view \in View
  BY Groups DEF ViewTypes, Handler
<1>4. Done(n, h) \/ Goto(n, h, "count")
  BY <1>1 DEF EnterPanics, EnterLate, EnterCounts
<1>5. /\ handlers' \in [Node -> SUBSET Handler]
      /\ \A k \in Node : \A g \in handlers'[k] :
             \E u \in handlers[k] : u.nodes = g.nodes /\ u.view = g.view
  BY <1>4, Groups, HandlersMove
<1>6. timer' \in [Node -> {"nil", "armed", "off"}] /\ stray' \in [Node -> Nat]
  BY <1>1, Groups, TimerTypes
  DEF EnterPanics, TimerPanics, EnterLate, EnterCounts, timerVars, ViewTypes
<1>7. changing' \in [Node -> BOOLEAN]
  BY <1>1, Groups DEF EnterPanics, EnterLate, EnterCounts, ViewTypes
<1>8. /\ viewSets' \in [Node -> [View -> ViewSet]]
      /\ \A k \in Node : \A v \in View : viewSets'[k][v].nodes = viewSets[k][v].nodes
  <2>1. CASE EnterLate(n, h)
    <3> DEFINE s == [viewSets[n][h.view] EXCEPT !.leaked = TRUE]
    <3>1. viewSets[n][h.view] \in ViewSet
      BY <1>3, Groups DEF ViewTypes
    <3>2. s \in ViewSet /\ s.nodes = viewSets[n][h.view].nodes
      BY <3>1 DEF ViewSet
    <3>3. viewSets' = [viewSets EXCEPT ![n][h.view] = s]
      BY <2>1 DEF EnterLate
    <3> HIDE DEF s
    <3> QED BY <1>3, <3>2, <3>3, Groups, SetsMarked
  <2>2. CASE EnterPanics(n, h) \/ EnterCounts(n, h)
    BY <2>2, Groups DEF EnterPanics, EnterCounts, ViewTypes
  <2> QED BY <1>1, <2>1, <2>2
<1>9. crashed' \subseteq Node
  BY <1>1, Groups DEF EnterPanics, TimerPanics, EnterLate, EnterCounts, RoundInv, BftTypeOK
<1>10. ViewTypes'
  BY <1>2, <1>5, <1>6, <1>7, <1>8, Groups DEF ViewTypes
<1>11. Views'
  BY <1>2, <1>5, <1>8, Groups, ViewsStep
<1> QED BY <1>2, <1>9, <1>10, <1>11, Groups, ChangeViewFrame DEF RoundInv, BftTypeOK

\* A request that is sent on names more than one node.
LEMMA SentBacked ==
    ASSUME ViewTypes, NEW n \in Node, NEW v \in View, NEW S \in SUBSET Node,
           SendChangeViewReq(n, v, S), Backed(S, v)'
    PROVE  /\ viewReqs' \subseteq ViewReq
           /\ \A m \in viewReqs' : m \in viewReqs \/ (m.nodes # {} /\ Backed(m.nodes, m.view)')
<1> DEFINE sent == {[view |-> v, nodes |-> S, to |-> p] : p \in Peer(n)}
<1>1. sent \subseteq ViewReq /\ \A m \in sent : m.nodes = S /\ m.view = v
  BY DEF ViewReq, Peer
<1>2. CASE Cardinality(S) > 1
  <2>1. S # {}
    BY <1>2, FS_EmptySet
  <2>2. viewReqs' = viewReqs \cup sent
    BY <1>2 DEF SendChangeViewReq
  <2> HIDE DEF sent
  <2> QED BY <1>1, <2>1, <2>2 DEF ViewTypes
<1>3. CASE ~(Cardinality(S) > 1)
  BY <1>3 DEF SendChangeViewReq, ViewTypes
<1> QED BY <1>2, <1>3

LEMMA CountKeeps == ASSUME BaseInv, NEW n \in Node, CountChangeViewReq(n) PROVE BaseInv'
<1>1. PICK h \in handlers[n] :
          /\ viewSets' = [viewSets EXCEPT ![n][h.view].nodes = Count(n, h)]
          /\ \/ /\ master' = [master EXCEPT ![n] = AccountWithMinId(Count(n, h))]
                /\ Goto(n, h, "lock")
                /\ UNCHANGED viewReqs
             \/ /\ SendChangeViewReq(n, h.view, Count(n, h))
                /\ Goto(n, h, "announce")
                /\ UNCHANGED master
  BY DEF CountChangeViewReq
<1>2. UNCHANGED <<signVars, blocked, replying, callVars, workers, committing, events, ledgerVars,
                  signed, crashed, netVars, timerVars, view, changing, fired, syncVars>>
  BY DEF CountChangeViewReq
<1>3. h.view \in View /\ h.nodes \in SUBSET Node
  BY Groups DEF ViewTypes, Handler
<1>4. PICK S : S = Count(n, h)
  OBVIOUS
<1>5. viewSets[n][h.view] \in ViewSet
  BY <1>3, Groups DEF ViewTypes
<1>6. S \in SUBSET Node /\ n \in S /\ S = viewSets[n][h.view].nodes \cup {n} \cup h.nodes
  BY <1>3, <1>4, <1>5 DEF Count, ViewSet
<1>7. viewSets' \in [Node -> [View -> ViewSet]]
  <2> DEFINE s == [viewSets[n][h.view] EXCEPT !.nodes = S]
  <2>1. s \in ViewSet
    BY <1>5, <1>6 DEF ViewSet
  <2>2. viewSets' = [viewSets EXCEPT ![n][h.view] = s]
    BY <1>1, <1>4
  <2> HIDE DEF s
  <2> QED BY <1>3, <2>1, <2>2, Groups DEF ViewTypes
<1>8. \A k \in Node : \A v \in View :
          viewSets'[k][v].nodes = IF k = n /\ v = h.view THEN S ELSE viewSets[k][v].nodes
  BY <1>1, <1>3, <1>4, <1>5, Groups DEF ViewTypes, ViewSet
<1>9. \A k \in Node : \A v \in View : viewSets[k][v].nodes \subseteq viewSets'[k][v].nodes
  BY <1>6, <1>8
<1>10. Backed(S, h.view)'
  <2>1. /\ Backed(h.nodes, h.view) /\ h.nodes # {}
        /\ Backed(viewSets[n][h.view].nodes, h.view)
    BY <1>3, Groups DEF Views, RequestsBacked, CountedAsked
  <2>2. \E q \in Node : <<q, h.view>> \in fired'
    BY <1>2, <2>1 DEF Backed
  <2>3. \A q \in S : q \in Node /\ (<<q, h.view>> \in fired' \/ q \in viewSets'[q][h.view].nodes)
    BY <1>2, <1>3, <1>6, <1>8, <1>9, <2>1 DEF Backed, Joined
  <2> QED BY <2>2, <2>3 DEF Backed, Joined
<1>11. /\ handlers' \in [Node -> SUBSET Handler]
       /\ \A k \in Node : \A g \in handlers'[k] :
              \E u \in handlers[k] : u.nodes = g.nodes /\ u.view = g.view
  BY <1>1, Groups, HandlersMove
<1>12. /\ viewReqs' \subseteq ViewReq
       /\ \A m \in viewReqs' : m \in viewReqs \/ (m.nodes # {} /\ Backed(m.nodes, m.view)')
  <2>1. CASE UNCHANGED viewReqs
    BY <2>1, Groups DEF ViewTypes
  <2>2. CASE SendChangeViewReq(n, h.view, S)
    BY <1>3, <1>6, <1>10, <2>2, Groups, SentBacked
  <2> QED BY <1>1, <1>4, <2>1, <2>2
<1>13. master' \in [Node -> Account]
  <2>1. AccountWithMinId(S) \in Node
    BY <1>6, MinIdMember
  <2> QED BY <1>1, <1>4, <2>1, Groups DEF RoundInv, BftTypeOK, Account
<1>14. ViewTypes'
  BY <1>2, <1>7, <1>11, <1>12, Groups DEF ViewTypes, timerVars
<1>15. \A k \in Node : \A v \in View :
           \/ viewSets'[k][v].nodes = viewSets[k][v].nodes
           \/ Backed(viewSets[k][v].nodes, v)'
  <2> SUFFICES ASSUME NEW k \in Node, NEW v \in View, k = n /\ v = h.view
               PROVE  Backed(viewSets[k][v].nodes, v)'
    BY <1>8
  <2>1. viewSets'[k][v].nodes = S
    BY <1>8
  <2> QED BY <1>10, <2>1 DEF Backed, Joined
<1>16. Views'
  BY <1>2, <1>9, <1>11, <1>12, <1>15, Groups, ViewsStep
<1> QED BY <1>2, <1>13, <1>14, <1>16, Groups, ChangeViewFrame DEF RoundInv, BftTypeOK

LEMMA EndKeeps == ASSUME BaseInv, NEW n \in Node, EndChangeView(n) PROVE BaseInv'
<1>1. PICK h \in handlers[n] :
          /\ viewSets' = [viewSets EXCEPT ![n][h.view].ended = TRUE]
          /\ view' = [view EXCEPT ![n] = h.view]
          /\ SendChangeViewReq(n, h.view, viewSets[n][h.view].nodes)
          /\ Goto(n, h, "announce")
  BY DEF EndChangeView
<1>2. UNCHANGED <<bftVars, timerVars, changing, fired, syncVars>>
  BY DEF EndChangeView
<1>3. h.view \in View
  BY Groups DEF ViewTypes, Handler
<1>4. viewSets[n][h.view] \in ViewSet
  BY <1>3, Groups DEF ViewTypes
<1>5. /\ viewSets' \in [Node -> [View -> ViewSet]]
      /\ \A k \in Node : \A v \in View : viewSets'[k][v].nodes = viewSets[k][v].nodes
  <2> DEFINE s == [viewSets[n][h.view] EXCEPT !.ended = TRUE]
  <2>1. s \in ViewSet /\ s.nodes = viewSets[n][h.view].nodes
    BY <1>4 DEF ViewSet
  <2>2. viewSets' = [viewSets EXCEPT ![n][h.view] = s]
    BY <1>1
  <2> HIDE DEF s
  <2> QED BY <1>3, <2>1, <2>2, Groups, SetsMarked
<1>6. view' \in [Node -> 0 .. MaxView]
  BY <1>1, <1>3, Groups, DbftAssumption DEF ViewTypes, View
<1>7. /\ handlers' \in [Node -> SUBSET Handler]
      /\ \A k \in Node : \A g \in handlers'[k] :
             \E u \in handlers[k] : u.nodes = g.nodes /\ u.view = g.view
  BY <1>1, Groups, HandlersMove
<1>8. PICK S : S = viewSets[n][h.view].nodes
  OBVIOUS
<1>9. S \in SUBSET Node
  BY <1>4, <1>8 DEF ViewSet
<1>10. Backed(S, h.view)'
  <2>1. Backed(S, h.view)
    BY <1>3, <1>8, Groups DEF Views, CountedAsked
  <2> QED BY <1>2, <1>3, <1>5, <2>1, BackedKept
<1>11. /\ viewReqs' \subseteq ViewReq
       /\ \A m \in viewReqs' : m \in viewReqs \/ (m.nodes # {} /\ Backed(m.nodes, m.view)')
  <2>1. SendChangeViewReq(n, h.view, S)
    BY <1>1, <1>8
  <2> QED BY <1>3, <1>9, <1>10, <2>1, Groups, SentBacked
<1>12. ViewTypes'
  BY <1>2, <1>5, <1>6, <1>7, <1>11, Groups DEF ViewTypes, timerVars
<1>13. Views'
  BY <1>2, <1>5, <1>7, <1>11, Groups, ViewsStep
<1> QED BY <1>2, <1>12, <1>13, Groups, ChangeViewFrame DEF RoundInv, BftTypeOK, bftVars

LEMMA AnnounceKeeps == ASSUME BaseInv, NEW n \in Node, AnnounceChangeView(n) PROVE BaseInv'
<1>1. PICK h \in handlers[n] :
          /\ Done(n, h)
          /\ \/ /\ Notify(n, "MasterChange")
                /\ viewSets' = [viewSets EXCEPT ![n][h.view].notified = TRUE]
                /\ StopTimer(n)
             \/ UNCHANGED <<events, viewSets, timerVars>>
  BY DEF AnnounceChangeView
<1>2. UNCHANGED <<master, signVars, blocked, replying, callVars, workers, committing, ledgerVars,
                  signed, crashed, netVars, view, changing, fired, viewReqs, syncVars>>
  BY DEF AnnounceChangeView
<1>3. h.view \in View
  BY Groups DEF ViewTypes, Handler
<1>4. /\ handlers' \in [Node -> SUBSET Handler]
      /\ \A k \in Node : \A g \in handlers'[k] :
             \E u \in handlers[k] : u.nodes = g.nodes /\ u.view = g.view
  BY <1>1, Groups, HandlersMove
<1>5. ASSUME timer' \in [Node -> {"nil", "armed", "off"}], stray' \in [Node -> Nat],
             events' \in [Node -> SUBSET Event],
             viewSets' \in [Node -> [View -> ViewSet]],
             \A k \in Node : \A v \in View : viewSets'[k][v].nodes = viewSets[k][v].nodes
      PROVE  BaseInv'
  <2>1. ViewTypes'
    BY <1>2, <1>4, <1>5, Groups DEF ViewTypes
  <2>2. Views'
    BY <1>2, <1>4, <1>5, Groups, ViewsStep
  <2> QED BY <1>2, <1>5, <2>1, <2>2, Groups, ChangeViewFrame DEF RoundInv, BftTypeOK
<1>6. CASE UNCHANGED <<events, viewSets, timerVars>>
  BY <1>5, <1>6, Groups DEF ViewTypes, timerVars, RoundInv, BftTypeOK
<1>7. CASE /\ Notify(n, "MasterChange")
           /\ viewSets' = [viewSets EXCEPT ![n][h.view].notified = TRUE]
           /\ StopTimer(n)
  <2> DEFINE s == [viewSets[n][h.view] EXCEPT !.notified = TRUE]
  <2>1. viewSets[n][h.view] \in ViewSet
    BY <1>3, Groups DEF ViewTypes
  <2>2. s \in ViewSet /\ s.nodes = viewSets[n][h.view].nodes
    BY <2>1 DEF ViewSet
  <2>3. viewSets' = [viewSets EXCEPT ![n][h.view] = s]
    BY <1>7
  <2> HIDE DEF s
  <2>4. /\ viewSets' \in [Node -> [View -> ViewSet]]
        /\ \A k \in Node : \A v \in View : viewSets'[k][v].nodes = viewSets[k][v].nodes
    BY <1>3, <2>2, <2>3, Groups, SetsMarked
  <2>5. timer' \in [Node -> {"nil", "armed", "off"}] /\ stray' \in [Node -> Nat]
    BY <1>7, Groups, TimerTypes
  <2>6. events' \in [Node -> SUBSET Event]
    BY <1>7, Groups DEF Notify, Event, RoundInv, BftTypeOK
  <2> QED BY <1>5, <2>4, <2>5, <2>6
<1> QED BY <1>1, <1>6, <1>7

-----------------------------------------------------------------------------
(* A view change that is over, or about to be, has counted a quorum *)

\* Lists of nodes only grow; what has to hold of a view change that is newly
\* over, or about to be, and of a view that is newly entered.
LEMMA CountedStep ==
    ASSUME ViewTypes, ViewTypes', ViewsCounted,
           \A n \in Node : \A v \in View : viewSets[n][v].nodes \subseteq viewSets'[n][v].nodes,
           \A n \in Node : \A v \in View :
               Ending(n, v)' => Ending(n, v) \/ Cardinality(viewSets'[n][v].nodes) >= Quorum,
           \A n \in Node : \A v \in View : viewSets[n][v].ended => viewSets'[n][v].ended,
           \A n \in Node : view'[n] = view[n] \/ viewSets'[n][view'[n]].ended
    PROVE  ViewsCounted'
<1>1. ASSUME NEW n \in Node, NEW v \in View, Ending(n, v)'
      PROVE  Cardinality(viewSets'[n][v].nodes) >= Quorum
  <2>1. SUFFICES ASSUME Ending(n, v) PROVE Cardinality(viewSets'[n][v].nodes) >= Quorum
    BY <1>1
  <2>2. viewSets[n][v].nodes \subseteq viewSets'[n][v].nodes /\ viewSets'[n][v].nodes \in SUBSET Node
    BY DEF ViewTypes, ViewSet
  <2>3. IsFiniteSet(viewSets'[n][v].nodes)
    BY <2>2, NodeFacts, FS_Subset
  <2>4. /\ Cardinality(viewSets[n][v].nodes) \in Nat /\ Cardinality(viewSets'[n][v].nodes) \in Nat
        /\ Cardinality(viewSets[n][v].nodes) <= Cardinality(viewSets'[n][v].nodes)
    BY <2>2, <2>3, FS_Subset, FS_CardinalityType
  <2>5. Cardinality(viewSets[n][v].nodes) >= Quorum
    BY <2>1 DEF ViewsCounted
  <2> QED BY <2>4, <2>5, NodeFacts
<1>2. ASSUME NEW n \in Node, view'[n] # 0 PROVE viewSets'[n][view'[n]].ended
  <2>1. SUFFICES ASSUME view'[n] = view[n] PROVE viewSets'[n][view[n]].ended
    BY <1>2
  <2>2. view[n] \in View /\ viewSets[n][view[n]].ended
    BY <1>2, <2>1, DbftAssumption DEF ViewTypes, ViewsCounted, View
  <2> QED BY <2>2
<1>3. ASSUME NEW n \in Node
      PROVE  /\ \A v \in View : Ending(n, v)' => Cardinality(viewSets[n][v].nodes)' >= Quorum
             /\ view'[n] # 0 => viewSets'[n][view'[n]].ended
  BY <1>1, <1>2
<1> QED BY <1>3 DEF ViewsCounted

LEMMA CountedKept ==
    ASSUME ViewsCounted, UNCHANGED <<view, viewSets, handlers>> PROVE ViewsCounted'
  BY DEF ViewsCounted, Ending

\* Handlers that move elsewhere end nothing.
LEMMA EndingKept ==
    ASSUME NEW n \in Node, NEW v \in View, Ending(n, v)',
           viewSets'[n][v].ended => viewSets[n][v].ended,
           \A h \in handlers'[n] : h.pc = "lock" => h \in handlers[n]
    PROVE  Ending(n, v)
  BY DEF Ending

LEMMA AcceptCounted ==
    ASSUME ViewTypes, ViewTypes', ViewsCounted, NEW n \in Node, AcceptChangeViewReq(n)
    PROVE  ViewsCounted'
<1>1. PICK m \in viewReqs :
          handlers' = [handlers EXCEPT ![n] = @ \cup
                {[view |-> m.view, nodes |-> m.nodes, pc |-> "enter"]}]
  BY DEF AcceptChangeViewReq
<1>2. UNCHANGED <<view, viewSets>>
  BY DEF AcceptChangeViewReq
<1>3. \A k \in Node : \A h \in handlers'[k] : h.pc = "lock" => h \in handlers[k]
  BY <1>1 DEF ViewTypes
<1>4. \A k \in Node : \A v \in View : Ending(k, v)' => Ending(k, v)
  BY <1>2, <1>3, EndingKept
<1> QED BY <1>2, <1>4, CountedStep

\* Done and Goto name the handlers afterwards.
LEMMA HandlersAfter ==
    ASSUME ViewTypes, NEW n \in Node, NEW h \in handlers[n], NEW pc,
           Done(n, h) \/ Goto(n, h, pc)
    PROVE  /\ \A k \in Node : k # n => handlers'[k] = handlers[k]
           /\ \A g \in handlers'[n] : g \in handlers[n] \/ (g.pc = pc /\ g.view = h.view)
<1>1. h \in Handler
  BY DEF ViewTypes
<1>2. CASE Done(n, h)
  BY <1>2 DEF Done, ViewTypes
<1>3. CASE Goto(n, h, pc)
  <2> DEFINE h1 == [h EXCEPT !.pc = pc]
  <2>1. h1.pc = pc /\ h1.view = h.view
    BY <1>1 DEF Handler
  <2>2. handlers' = [handlers EXCEPT ![n] = (@ \ {h}) \cup {h1}]
    BY <1>3 DEF Goto
  <2> HIDE DEF h1
  <2> QED BY <2>1, <2>2 DEF ViewTypes
<1> QED BY <1>2, <1>3

\* A mark other than "ended" on a view set, and a handler on its way to anywhere
\* but the lock.
LEMMA MarkCounted ==
    ASSUME ViewTypes, ViewTypes', ViewsCounted, NEW n \in Node, NEW h \in handlers[n],
           NEW pc \in {"count", "announce"}, Done(n, h) \/ Goto(n, h, pc), UNCHANGED view,
           \A k \in Node : \A v \in View : /\ viewSets'[k][v].nodes = viewSets[k][v].nodes
                                          /\ viewSets'[k][v].ended = viewSets[k][v].ended
    PROVE  ViewsCounted'
<1>1. \A k \in Node : \A g \in handlers'[k] : g.pc = "lock" => g \in handlers[k]
  BY HandlersAfter
<1>2. \A k \in Node : \A v \in View : Ending(k, v)' => Ending(k, v)
  BY <1>1, EndingKept
<1> QED BY <1>2, CountedStep

\* Setting "leaked" or "notified" of a view set is such a mark.
LEMMA OtherMark ==
    ASSUME ViewTypes, NEW n \in Node, NEW v \in View,
           \/ viewSets' = [viewSets EXCEPT ![n][v].leaked = TRUE]
           \/ viewSets' = [viewSets EXCEPT ![n][v].notified = TRUE]
           \/ UNCHANGED viewSets
    PROVE  \A k \in Node : \A u \in View : /\ viewSets'[k][u].nodes = viewSets[k][u].nodes
                                          /\ viewSets'[k][u].ended = viewSets[k][u].ended
<1>1. \A k \in Node : viewSets[k] \in [View -> ViewSet]
  BY DEF ViewTypes
<1>2. viewSets[n][v] \in ViewSet
  BY <1>1
<1> DEFINE s == [viewSets[n][v] EXCEPT !.leaked = TRUE]
           t == [viewSets[n][v] EXCEPT !.notified = TRUE]
<1>3. /\ s.nodes = viewSets[n][v].nodes /\ s.ended = viewSets[n][v].ended
      /\ t.nodes = viewSets[n][v].nodes /\ t.ended = viewSets[n][v].ended
  BY <1>2 DEF ViewSet
<1>4. \/ viewSets' = [viewSets EXCEPT ![n][v] = s]
      \/ viewSets' = [viewSets EXCEPT ![n][v] = t]
      \/ UNCHANGED viewSets
  OBVIOUS
<1> HIDE DEF s, t
<1> QED BY <1>1, <1>3, <1>4 DEF ViewTypes

LEMMA EnterCounted ==
    ASSUME ViewTypes, ViewTypes', ViewsCounted, NEW n \in Node, EnterChangeViewReq(n)
    PROVE  ViewsCounted'
<1>1. PICK h \in handlers[n] : EnterPanics(n, h) \/ EnterLate(n, h) \/ EnterCounts(n, h)
  BY DEF EnterChangeViewReq
<1>2. h.view \in View
  BY DEF ViewTypes, Handler
<1>3. /\ Done(n, h) \/ Goto(n, h, "count")
      /\ viewSets' = [viewSets EXCEPT ![n][h.view].leaked = TRUE] \/ UNCHANGED viewSets
      /\ UNCHANGED view
  BY <1>1 DEF EnterChangeViewReq, EnterPanics, EnterLate, EnterCounts
<1> QED BY <1>2, <1>3, OtherMark, MarkCounted

LEMMA AnnounceCounted ==
    ASSUME ViewTypes, ViewTypes', ViewsCounted, NEW n \in Node, AnnounceChangeView(n)
    PROVE  ViewsCounted'
<1>1. PICK h \in handlers[n] :
          /\ Done(n, h)
          /\ \/ viewSets' = [viewSets EXCEPT ![n][h.view].notified = TRUE]
             \/ UNCHANGED viewSets
  BY DEF AnnounceChangeView
<1>2. h.view \in View /\ UNCHANGED view
  BY DEF ViewTypes, Handler, AnnounceChangeView
<1> QED BY <1>1, <1>2, OtherMark, MarkCounted

LEMMA CountCounted ==
    ASSUME ViewTypes, ViewTypes', ViewsCounted, NEW n \in Node, CountChangeViewReq(n)
    PROVE  ViewsCounted'
<1>1. PICK h \in handlers[n] :
          /\ viewSets' = [viewSets EXCEPT ![n][h.view].nodes = Count(n, h)]
          /\ \/ Cardinality(Count(n, h)) >= Quorum /\ Goto(n, h, "lock")
             \/ Goto(n, h, "announce")
  BY DEF CountChangeViewReq
<1>2. h.view \in View /\ UNCHANGED view
  BY DEF ViewTypes, Handler, CountChangeViewReq
<1>3. PICK S : S = Count(n, h)
  OBVIOUS
<1>4. viewSets[n][h.view] \in ViewSet /\ viewSets[n][h.view].nodes \subseteq S
  BY <1>2, <1>3 DEF ViewTypes, Count
<1>5. \A k \in Node : \A v \in View :
          /\ viewSets'[k][v].nodes = IF k = n /\ v = h.view THEN S ELSE viewSets[k][v].nodes
          /\ viewSets'[k][v].ended = viewSets[k][v].ended
  BY <1>1, <1>2, <1>3, <1>4 DEF ViewTypes, ViewSet
<1>6. /\ \A k \in Node : k # n => handlers'[k] = handlers[k]
      /\ \A g \in handlers'[n] :
            g \in handlers[n] \/ (g.pc \in {"lock", "announce"} /\ g.view = h.view)
  BY <1>1, HandlersAfter
<1>7. (\A g \in handlers'[n] : g.pc = "lock" => g \in handlers[n]) \/ Cardinality(S) >= Quorum
  BY <1>1, <1>3, HandlersAfter
<1>8. ASSUME NEW k \in Node, NEW v \in View, Ending(k, v)'
      PROVE  Ending(k, v) \/ Cardinality(viewSets'[k][v].nodes) >= Quorum
  BY <1>5, <1>6, <1>7, <1>8 DEF Ending
<1> QED BY <1>2, <1>4, <1>5, <1>8, CountedStep

LEMMA EndCounted ==
    ASSUME ViewTypes, ViewTypes', ViewsCounted, NEW n \in Node, EndChangeView(n)
    PROVE  ViewsCounted'
<1>1. PICK h \in handlers[n] :
          /\ h.pc = "lock"
          /\ viewSets' = [viewSets EXCEPT ![n][h.view].ended = TRUE]
          /\ view' = [view EXCEPT ![n] = h.view]
          /\ Goto(n, h, "announce")
  BY DEF EndChangeView
<1>2. h.view \in View
  BY DEF ViewTypes, Handler
<1>3. viewSets[n][h.view] \in ViewSet
  BY <1>2 DEF ViewTypes
<1>4. \A k \in Node : \A v \in View :
          /\ viewSets'[k][v].nodes = viewSets[k][v].nodes
          /\ viewSets'[k][v].ended = IF k = n /\ v = h.view THEN TRUE ELSE viewSets[k][v].ended
  BY <1>1, <1>2, <1>3 DEF ViewTypes, ViewSet
<1>5. \A k \in Node : \A g \in handlers'[k] : g.pc = "lock" => g \in handlers[k]
  BY <1>1, HandlersAfter
<1>6. Ending(n, h.view)
  BY <1>1 DEF Ending
<1>7. ASSUME NEW k \in Node, NEW v \in View, Ending(k, v)' PROVE Ending(k, v)
  BY <1>4, <1>5, <1>6, <1>7 DEF Ending
<1>8. \A k \in Node : view'[k] = view[k] \/ viewSets'[k][view'[k]].ended
  BY <1>1, <1>2, <1>4 DEF ViewTypes
<1> QED BY <1>4, <1>7, <1>8, CountedStep

LEMMA CountedNext ==
    ASSUME BaseInv, BaseInv', ViewsCounted, [DbftNext]_dbftVars PROVE ViewsCounted'
<1>1. ViewTypes /\ ViewTypes'
  BY Groups
<1>2. CASE UNCHANGED dbftVars
  BY <1>2, CountedKept DEF dbftVars, viewVars
<1>3. ASSUME NEW n \in Node, Round(n) \/ Sync(n) \/ WaitMasterTimeOut(n) PROVE ViewsCounted'
  <2>1. UNCHANGED <<view, viewSets, handlers>>
    BY <1>3 DEF Round, Sync, WaitMasterTimeOut, DbftNextRound, DbftReceiveRequest,
       DbftToConsensus, DbftWaitResponse, DbftReceiveProposal, DbftReceiveResponse,
       DbftSendReply, DbftSendCommit, DbftReceiveCommit, SendSyncBlockReq, ReceiveSyncBlockReq,
       ReceiveSyncBlockResp, viewVars
  <2> QED BY <2>1, CountedKept
<1>4. ASSUME NEW n \in Node, ChangeView(n) PROVE ViewsCounted'
  BY <1>1, <1>4, AcceptCounted, EnterCounted, CountCounted, EndCounted, AnnounceCounted
  DEF ChangeView
<1> QED BY <1>2, <1>3, <1>4 DEF DbftNext

-----------------------------------------------------------------------------
(* The theorems *)

LEMMA BaseInit == DbftInit => BaseInv
<1> SUFFICES ASSUME DbftInit PROVE BaseInv
  OBVIOUS
<1>1. RoundInv
  BY InitRound DEF DbftInit
<1>2. ViewTypes /\ SyncTypes
  BY DbftAssumption DEF DbftInit, ViewTypes, SyncTypes, ViewSet
<1>3. Views
  BY DEF DbftInit, Views, CountedAsked, RequestsBacked, Backed, Joined
<1>4. Syncs
  <2>1. \A n \in Node : \E t \in chain[n] : \A b \in chain[n] : Height[b] <= Height[t]
    BY BftAssumption DEF DbftInit, BftInit
  <2>2. \A n \in Node : \A b \in chain[n] : Height[b] <= Height[Highest(chain[n])]
    BY <2>1 DEF Highest
  <2> QED BY <2>2 DEF DbftInit, BftInit, Syncs, ProposalsBuilt, AsksBuilt
<1> QED BY <1>1, <1>2, <1>3, <1>4, Groups

LEMMA BaseStep == ASSUME BaseInv, [DbftNext]_dbftVars PROVE BaseInv'
<1>1. CASE UNCHANGED dbftVars
  <2>1. RoundInv'
    BY <1>1, Groups, StutterKeeps DEF dbftVars
  <2>2. UNCHANGED <<timerVars, viewVars, syncVars, chain, tip, proposals>>
    BY <1>1 DEF dbftVars, bftVars, ledgerVars, netVars
  <2> QED BY <2>1, <2>2, RoundStep
<1>2. ASSUME NEW n \in Node, Round(n) PROVE BaseInv'
  BY <1>2, DbftNextRoundKeeps, DbftReceiveRequestKeeps, DbftToConsensusKeeps,
     DbftReceiveProposalKeeps, DbftCommitKeeps DEF Round
<1>3. ASSUME NEW n \in Node, Sync(n) \/ WaitMasterTimeOut(n) PROVE BaseInv'
  BY <1>3, SyncKeeps, WaitMasterTimeOutKeeps
<1>4. ASSUME NEW n \in Node, ChangeView(n) PROVE BaseInv'
  BY <1>4, AcceptKeeps, EnterKeeps, CountKeeps, EndKeeps, AnnounceKeeps DEF ChangeView
<1> QED BY <1>1, <1>2, <1>3, <1>4 DEF DbftNext

LEMMA DbftInitInv == DbftInit => DbftInv
<1> SUFFICES ASSUME DbftInit PROVE DbftInv
  OBVIOUS
<1>1. ViewsCounted
  BY DEF DbftInit, ViewsCounted, Ending
<1> QED BY <1>1, BaseInit DEF DbftInv

LEMMA DbftNextInv == ASSUME DbftInv, [DbftNext]_dbftVars PROVE DbftInv'
<1>1. BaseInv'
  BY BaseStep DEF DbftInv
<1> QED BY <1>1, CountedNext DEF DbftInv

\* The inductive invariant of the DBFT policy: the rounds keep theirs under view
\* changes and synchronisation, and these keep their own.
THEOREM DbftInvariant == DbftSpec => []DbftInv
<1>1. DbftInit => DbftInv
  BY DbftInitInv
<1>2. DbftInv /\ [DbftNext]_dbftVars => DbftInv'
  BY DbftNextInv
<1> QED BY <1>1, <1>2, PTL DEF DbftSpec

\* Every variable of the DBFT policy stays in its type; in particular the master
\* a view change elects is a peer.
THEOREM DbftTypes == DbftSpec => []DbftTypeOK
<1>1. DbftInv => DbftTypeOK
  BY DEF DbftInv, BaseInv
<1> QED BY <1>1, DbftInvariant, PTL

\* As with BFT, a stored block has a quorum of signatures unless one of its
\* signers has abandoned a round, also when views change under the rounds.
THEOREM DbftCertified == DbftSpec => []CertifiedUnlessAbandoned
<1>1. DbftInv => CertifiedUnlessAbandoned
  BY DEF DbftInv, BaseInv, RoundInv, Ledger
<1> QED BY <1>1, DbftInvariant, PTL

\* addChangeViewAccounts counts nobody for a view who has neither timed out nor
\* handled a request for it, and nobody at all before a timeout.
THEOREM DbftCounted == DbftSpec => []CountedAsked
<1>1. DbftInv => CountedAsked
  BY DEF DbftInv, BaseInv
<1> QED BY <1>1, DbftInvariant, PTL

\* receiveSyncBlockReq has the blocks it is asked for whenever the request went to
\* the node whose proposal caused it: its panic needs a master that changed
\* between the check and the request in receiveProposal.
THEOREM DbftSyncServable == DbftSpec => []SyncServable
<1>1. DbftInv => SyncServable
  BY DEF DbftInv, BaseInv, AsksBuilt, SyncServable
<1> QED BY <1>1, DbftInvariant, PTL

\* DBFT enters a view only with a quorum of nodes behind it, each of which has
\* timed out or handled a request for that view.
THEOREM DbftViewBacked == DbftSpec => []ViewBacked
<1>1. ASSUME DbftInv PROVE ViewBacked
  <2> SUFFICES ASSUME NEW n \in Node, view[n] # 0 PROVE Cardinality(Joined(view[n])) >= Quorum
    BY DEF ViewBacked
  <2>1. PICK v \in View : v = view[n]
    BY <1>1, DbftAssumption DEF DbftInv, BaseInv, DbftTypeOK, View
  <2>2. PICK S : S = viewSets[n][v].nodes
    OBVIOUS
  <2>3. Cardinality(S) >= Quorum
    BY <1>1, <2>1, <2>2 DEF DbftInv, ViewsCounted, Ending
  <2>4. S \subseteq Joined(v) /\ Joined(v) \in SUBSET Node
    BY <1>1, <2>2 DEF DbftInv, BaseInv, CountedAsked, Backed, Joined
  <2>5. IsFiniteSet(Joined(v))
    BY <2>4, NodeFacts, FS_Subset
  <2>6. /\ Cardinality(S) \in Nat /\ Cardinality(Joined(v)) \in Nat
        /\ Cardinality(S) <= Cardinality(Joined(v))
    BY <2>4, <2>5, FS_Subset, FS_CardinalityType
  <2> QED BY <2>1, <2>3, <2>6, NodeFacts
<1> QED BY <1>1, DbftInvariant, PTL

-----------------------------------------------------------------------------
(* Until a round is abandoned, DBFT implements module Voting *)

LEMMA DbftStepVotes == ASSUME BaseInv, [DbftNext]_dbftVars PROVE VotingStep
<1>0. RoundInv
  BY Groups
<1>1. CASE UNCHANGED dbftVars
  BY <1>1, QuietVotes DEF dbftVars, bftVars, ledgerVars
<1>2. ASSUME NEW n \in Node, DbftReceiveRequest(n) PROVE VotingStep
  <2>1. PICK w \in workers[n] :
            UNCHANGED signed \/ RequestRefused(n, w) \/ RequestAccepted(n, w)
    BY <1>2 DEF DbftReceiveRequest
  <2>2. UNCHANGED ledgerVars
    BY <1>2 DEF DbftReceiveRequest
  <2>3. CASE UNCHANGED signed
    BY <2>2, <2>3, QuietVotes DEF ledgerVars
  <2> QED BY <1>0, <2>1, <2>2, <2>3, RequestVotes DEF RoundInv, BftTypeOK, Worker
<1>3. ASSUME NEW n \in Node, DbftReceiveProposal(n) PROVE VotingStep
  <2>1. PICK m \in proposals : UNCHANGED signed \/ ProposalSigned(n, m)
    BY <1>3 DEF DbftReceiveProposal, ProposalIgnored, AskMissing
  <2>2. UNCHANGED ledgerVars
    BY <1>3 DEF DbftReceiveProposal
  <2>3. CASE UNCHANGED signed
    BY <2>2, <2>3, QuietVotes DEF ledgerVars
  <2>4. CASE ProposalSigned(n, m)
    BY <1>0, <2>2, <2>4, ProposalVotes DEF ProposalSigned, RoundInv, BftTypeOK, Proposal
  <2> QED BY <2>1, <2>3, <2>4
<1>4. ASSUME NEW n \in Node,
             \/ DbftNextRound(n) \/ DbftToConsensus(n) \/ DbftWaitResponse(n)
             \/ DbftSendReply(n) \/ DbftReceiveResponse(n) \/ DbftSendCommit(n)
             \/ DbftReceiveCommit(n)
      PROVE  VotingStep
  BY <1>0, <1>4, RestVotes, SendCommitVotes, ReceiveCommitVotes
  DEF DbftNextRound, NextRound, DbftToConsensus, DbftWaitResponse, DbftSendReply,
      DbftReceiveResponse, DbftSendCommit, DbftReceiveCommit
<1>5. ASSUME NEW n \in Node, Sync(n) \/ WaitMasterTimeOut(n) \/ ChangeView(n) PROVE VotingStep
  <2>1. UNCHANGED <<signed, chain, tip>>
    BY <1>5 DEF Sync, SendSyncBlockReq, ReceiveSyncBlockReq, ReceiveSyncBlockResp,
       WaitMasterTimeOut, ChangeView, AcceptChangeViewReq, EnterChangeViewReq, CountChangeViewReq, EndChangeView,
       AnnounceChangeView, bftVars, ledgerVars
  <2> QED BY <2>1, QuietVotes
<1> QED BY <1>1, <1>2, <1>3, <1>4, <1>5 DEF DbftNext, Round

\* Until a ToConsensus gives up on a running round, dbft-core.go signs and stores
\* as module Voting does, whatever the view changes do to the master.
THEOREM DbftRefinesVoting == DbftSpec => DbftVotesUnlessAbandoned
<1>1. DbftInv /\ [DbftNext]_dbftVars => VotingStep
  BY DbftStepVotes DEF DbftInv
<1> QED BY <1>1, DbftInvariant, PTL DEF DbftSpec, DbftVotesUnlessAbandoned

LEMMA DbftAbandonedKept ==
    ASSUME BaseInv, [DbftNext]_dbftVars, NEW n \in Node, abandoned[n] PROVE abandoned'[n]
<1>1. CASE UNCHANGED dbftVars
  BY <1>1 DEF dbftVars, bftVars, callVars
<1>2. ASSUME NEW k \in Node, WaitTimeout(k) PROVE abandoned'[n]
  BY <1>2, Groups DEF WaitTimeout, RoundInv, BftTypeOK
<1>3. ASSUME NEW k \in Node, DeliverResult(k) PROVE abandoned'[n]
  BY <1>3 DEF DeliverResult
<1>4. ASSUME NEW k \in Node,
             \/ DbftNextRound(k) \/ DbftReceiveRequest(k) \/ DbftWaitResponse(k)
             \/ DbftReceiveProposal(k) \/ DbftSendReply(k) \/ DbftReceiveResponse(k)
             \/ DbftSendCommit(k) \/ DbftReceiveCommit(k)
      PROVE  abandoned'[n]
  BY <1>4 DEF DbftNextRound, RoundAfter, StartRound, DbftReceiveRequest, DbftWaitResponse,
     TakeTunnel, CollectTimeout, SetCommitted, DbftReceiveProposal, DbftSendReply, SendReply,
     DbftReceiveResponse, ReceiveResponse, DbftSendCommit, SendCommit, DbftReceiveCommit, ReceiveCommit, callVars
<1>5. ASSUME NEW k \in Node, Sync(k) \/ WaitMasterTimeOut(k) \/ ChangeView(k)
      PROVE  abandoned'[n]
  BY <1>5 DEF Sync, SendSyncBlockReq, ReceiveSyncBlockReq, ReceiveSyncBlockResp,
     WaitMasterTimeOut, ChangeView, AcceptChangeViewReq, EnterChangeViewReq, CountChangeViewReq, EndChangeView,
     AnnounceChangeView, bftVars, callVars
<1> QED BY <1>1, <1>2, <1>3, <1>4, <1>5 DEF DbftNext, Round, DbftToConsensus

\* In a network that started at the genesis block the repositories of any two
\* DBFT nodes agree below their current blocks, until a ToConsensus gives up on a
\* running round; view changes do not endanger that.
THEOREM DbftFinality == ASSUME FromGenesis PROVE DbftSpec => []Final
<1>1. DbftInit => VotedInv
  BY VotedInit DEF DbftInit
<1>2. DbftInv /\ VotedInv /\ [DbftNext]_dbftVars => VotedInv'
  BY DbftStepVotes, DbftAbandonedKept, VotedKept DEF DbftInv
<1> QED BY <1>1, <1>2, VotedIsFinal, DbftInvariant, PTL DEF DbftSpec
=============================================================================
