------------------------------ MODULE FbftCore ------------------------------
(***************************************************************************)
(* The FBFT policy of galaxy (consensus/policy/fbft) running on N nodes    *)
(* that exchange messages over one-shot TCP connections.                   *)
(*                                                                         *)
(* Every connection is served by a goroutine of its own (handleClient), so *)
(* the handlers of one node run concurrently and in any order.  A message  *)
(* is a member of the set of its type until it is handled, at most once; a *)
(* message that is never handled is a lost one (sendMsgByUrl only logs).   *)
(* A handler that returns without changing any state is not an action: the *)
(* message it ignored is the same as a lost one.                           *)
(*                                                                         *)
(* A handler is atomic up to the point where it blocks on a channel or     *)
(* where the code reads a value it uses after other handlers may have run: *)
(*   - receiveResponse blocks on "signal" until a waitResponse takes it;   *)
(*   - waitResponse blocks on "result" until a ToConsensus takes it;       *)
(*   - receiveChangeViewReq compares view numbers first and stores the new *)
(*     view later (ending holds the handlers in between);                  *)
(*   - "go f()" starts f at an arbitrary later moment.                     *)
(***************************************************************************)
EXTENDS ConsensusPlugin, Sequences

CONSTANTS
    None,              \* no block
    Producer,          \* the node whose upper layer produces a block
    WithoutTxs,        \* the blocks that carry no transaction
    Invalid,           \* the blocks the validator rejects
    Unsigned,          \* the blocks offered without their producer's signature
    EnableEmptyBlock,  \* enableEmptyBlock
    OnLineFirst,       \* nodes first initialised with onLine, that is without a timer
    WalterLevel,       \* DefaultWalterLevel
    SyncLimit,         \* blockSyncReqCacheLimit
    Silent,            \* nodes that are down: they are sent to but take no step
    MaxRounds,         \* bound: calls of ToConsensus, per node
    MaxView,           \* bound: no node asks for a view above it
    MaxStarts          \* bound: goroutines about to start the view timer, per node

ASSUME CoreAssumption ==
    /\ None \notin AnyBlock
    /\ Producer \in [Block -> Node]
    /\ WithoutTxs \subseteq Block
    /\ Invalid \subseteq Block
    /\ Unsigned \subseteq Block
    /\ EnableEmptyBlock \in BOOLEAN
    /\ OnLineFirst \subseteq Node
    /\ WalterLevel \in Nat
    /\ SyncLimit \in Nat \ {0}
    /\ Silent \subseteq Node
    /\ MaxRounds \in [Node -> Nat]
    /\ MaxView \in Nat
    /\ MaxStarts \in Nat

VARIABLES
    master,      \* nodes.master, per node
    view,        \* viewChange.currentView
    requests,    \* viewChange.viewRequests: accounts per node and view
    ending,      \* requests whose handler has seen ViewEnd and not yet applied it
    asked,       \* history: <<node, view>> a timeout has asked for
    timer,       \* waitMasterTimeout: the goroutine that owns isRunning
    starts,      \* waitMasterTimeout goroutines that have not tried isRunning yet
    events,      \* notifications the upper layer has not acted on
    producing,   \* the upper layer is about to call ToConsensus
    cache,       \* consensusPlugin.content
    latest,      \* consensusPlugin.latestBlockHeight
    policy,      \* the block ToConsensus is waiting for, or None
    rounds,      \* number of ToConsensus calls so far; the current round
    waiters,     \* waitResponse goroutines
    signals,     \* number of receiveResponse handlers blocked on "signal"
    abandoned,   \* history: a ToConsensus gave up while a waitResponse was alive
    handed,      \* history: block and signatures given to blockSwitch
    chain,       \* the blocks the repository has stored
    tip,         \* the repository's current block
    signed,      \* history: <<node, block>> signatures ever made
    syncQ,       \* blockSyncChan
    syncing,     \* the request doSyncBlock works on (at most one)
    proposals, responses, commits, viewReqs, syncReqs, syncResps  \* the network

viewVars == <<view, requests, ending, asked>>
timerVars == <<timer, starts>>
upperVars == <<events, producing>>
pluginVars == <<cache, latest>>
roundVars == <<policy, rounds, waiters, signals, abandoned>>
ledgerVars == <<chain, tip>>
syncVars == <<syncQ, syncing>>
netVars == <<proposals, responses, commits, viewReqs, syncReqs, syncResps>>
vars == <<master, viewVars, timerVars, upperVars, pluginVars, roundVars, handed,
          ledgerVars, signed, syncVars, netVars>>

-----------------------------------------------------------------------------
(* Types *)

View == 1 .. MaxView
Event == {"Online", "BlockCommitted", "BlockWithoutTxs", "ConsensusFailed", "MasterChange"}
\* Both messages carry the request's timestamp, here the proposer's round.
Proposal == [block : Block, from : Node, to : Node, round : Nat]
Response == [block : Block, from : Node, to : Node, round : Nat]
Commit == [block : Block, from : Node, to : Node, round : Nat, result : BOOLEAN,
           signers : SUBSET Node]
ViewChangeReq == [from : Node, to : Node, view : View, nodes : SUBSET Node]
SyncBlockReq == [from : Node, to : Node, height : Nat]
SyncBlockResp == [to : Node, block : Block]
BlockSyncRequest == [end : Nat, target : Node]
SyncJob == [end : Nat, target : Node, height : Nat]
Waiter == [block : Block, round : Nat, id : Nat, pc : {"start", "collect", "send"},
           result : BOOLEAN, signers : SUBSET Node]
Certificate == [block : Block, signers : SUBSET Node]

TypeOK ==
    /\ master \in [Node -> Node]
    /\ view \in [Node -> 0 .. MaxView]
    /\ requests \in [Node -> [View -> SUBSET Node]]
    /\ ending \in [Node -> SUBSET ViewChangeReq]
    /\ asked \subseteq Node \X View
    /\ timer \in [Node -> {"off", "armed", "stopping", "fired"}]
    /\ starts \in [Node -> 0 .. MaxStarts]
    /\ events \in [Node -> SUBSET Event]
    /\ producing \in [Node -> BOOLEAN]
    /\ cache \in [Node -> Cache]
    /\ latest \in [Node -> Nat]
    /\ policy \in [Node -> Block \cup {None}]
    /\ rounds \in [Node -> Nat]
    /\ waiters \in [Node -> SUBSET Waiter]
    /\ signals \in [Node -> Nat]
    /\ abandoned \in [Node -> BOOLEAN]
    /\ handed \in [Node -> SUBSET Certificate]
    /\ chain \in [Node -> SUBSET AnyBlock]
    /\ tip \in [Node -> AnyBlock]
    /\ signed \subseteq Node \X Block
    /\ syncQ \in [Node -> Seq(BlockSyncRequest)]
    /\ syncing \in [Node -> SUBSET SyncJob]
    /\ proposals \subseteq Proposal
    /\ responses \subseteq Response
    /\ commits \subseteq Commit
    /\ viewReqs \subseteq ViewChangeReq
    /\ syncReqs \subseteq SyncBlockReq
    /\ syncResps \subseteq SyncBlockResp

-----------------------------------------------------------------------------
(* Shared pieces of the handlers *)

\* stopChangeViewTimer: a non-blocking send, received only by an armed timer.
StopChangeViewTimer(n) ==
    timer' = [timer EXCEPT ![n] = IF @ = "armed" THEN "stopping" ELSE @]

\* go waitMasterTimeout(d).  A goroutine beyond MaxStarts is one that finds
\* isRunning set and returns.
GoWaitMasterTimeout(n) ==
    starts' = [starts EXCEPT ![n] = IF @ < MaxStarts THEN @ + 1 ELSE @]

Notify(n, e) == events' = [events EXCEPT ![n] = @ \cup {e}]

\* BroadcastPeersFilter: to every peer but the sender.
Peer(n) == Node \ {n}

\* The block is dropped instead of being handed over once agreed on.
Discarded(b) == ~EnableEmptyBlock /\ b \in WithoutTxs

\* commitBlock: forget the content, then notify or hand over to blockSwitch.
CommitBlock(n, b, signers) ==
    /\ cache' = [cache EXCEPT ![n] = Remove(@, b)]
    /\ \/ /\ Discarded(b)
          /\ Notify(n, "BlockWithoutTxs")
          /\ UNCHANGED handed
       \/ /\ ~Discarded(b)
          /\ handed' = [handed EXCEPT ![n] = @ \cup {[block |-> b, signers |-> signers]}]
          /\ UNCHANGED events

\* tryToCommit and sendCommit: broadcast the outcome, then act on it.
TryToCommit(n, b, result, signers) ==
    /\ commits' = commits \cup
          {[block |-> b, from |-> n, to |-> p, round |-> rounds[n], result |-> result,
            signers |-> signers] : p \in Peer(n)}
    /\ \/ /\ result
          /\ CommitBlock(n, b, signers)
       \/ /\ ~result
          /\ Notify(n, "ConsensusFailed")
          /\ UNCHANGED <<cache, handed>>

\* Faulty variant: one signature too few.
MaybeCommitEarly(n, b) ==
    /\ Has(cache[n], b)
    /\ Cardinality(cache[n][b].signers) >= Quorum - 1

\* maybeCommit: enough signatures are in the cache.
MaybeCommit(n, b) ==
    /\ Has(cache[n], b)
    /\ Cardinality(cache[n][b].signers) >= Quorum

\* VerifyPayload: the parent's repository exists and the validator accepts b.
VerifyPayload(n, b) == Parent[b] \in chain[n] /\ b \notin Invalid

\* The repository stores b on top of its current block and announces it.
StoreBlock(n, b) ==
    /\ Parent[b] = tip[n]
    /\ chain' = [chain EXCEPT ![n] = @ \cup {b}]
    /\ tip' = [tip EXCEPT ![n] = b]
    /\ Notify(n, "BlockCommitted")

-----------------------------------------------------------------------------
(* Upper layer and policy: fbft.go *)

\* The upper layer acts on a notification: it asks the role policy for the
\* master of the next height, or keeps the one GetConsensusResult reports after
\* a failure or a view change, and calls Initialization with it.  With onLine
\* nobody watches the master.
Initialization(n) ==
    \E e \in events[n] :
        LET m == IF e \in {"ConsensusFailed", "MasterChange"} THEN master[n]
                 ELSE RoleMaster(Height[tip[n]])
            onLine == e = "Online" /\ n \in OnLineFirst
        IN  /\ events' = [events EXCEPT ![n] = @ \ {e}]
            /\ master' = [master EXCEPT ![n] = m]
            /\ producing' = [producing EXCEPT ![n] = (m = n)]
            /\ IF ~onLine /\ m # n THEN GoWaitMasterTimeout(n) ELSE UNCHANGED starts
            /\ UNCHANGED <<viewVars, timer, pluginVars, roundVars, handed, ledgerVars,
                           signed, syncVars, netVars>>

\* receiveRequest, called synchronously by ToConsensus.  "only master process
\* request": the others leave the caller waiting for its timeout.
RequestIgnored(n) ==
    /\ master[n] # n
    /\ UNCHANGED <<timer, cache, signed, waiters, proposals>>

\* receiveRequest of a block without SigData, noticed once the timer is stopped.
RequestUnsigned(n, b) ==
    /\ master[n] = n
    /\ StopChangeViewTimer(n)
    /\ b \in Unsigned
    /\ UNCHANGED <<cache, signed, waiters, proposals>>

\* receiveRequest of a block this node's signature is already cached for.
RequestRepeated(n, b) ==
    LET added == Add(cache[n], b, rounds[n] + 1)
    IN  /\ master[n] = n
        /\ StopChangeViewTimer(n)
        /\ b \notin Unsigned
        /\ n \in added[b].signers
        /\ cache' = [cache EXCEPT ![n] = added]
        /\ signed' = signed \cup {<<n, b>>}
        /\ UNCHANGED <<waiters, proposals>>

\* receiveRequest: cache, sign, broadcast and go waitResponse.
RequestAccepted(n, b) ==
    LET added == Add(cache[n], b, rounds[n] + 1)
        content == SetState(AddSignature(added[b], n), InConsensus)
    IN  /\ master[n] = n
        /\ StopChangeViewTimer(n)
        /\ b \notin Unsigned
        /\ n \notin added[b].signers
        /\ cache' = [cache EXCEPT ![n] = [added EXCEPT ![b] = content]]
        /\ signed' = signed \cup {<<n, b>>}
        /\ proposals' = proposals \cup
              {[block |-> b, from |-> n, to |-> p, round |-> rounds[n] + 1] : p \in Peer(n)}
        /\ waiters' = [waiters EXCEPT ![n] = @ \cup
              {[block |-> b, round |-> rounds[n] + 1, id |-> 0, pc |-> "start",
                result |-> FALSE, signers |-> {}]}]

\* ToConsensus up to its select: the upper layer offers a block it has built
\* on a block it has stored; a call during another one is refused.
ToConsensus(n) ==
    /\ producing[n]
    /\ producing' = [producing EXCEPT ![n] = FALSE]
    /\ \/ /\ policy[n] # None
          /\ UNCHANGED <<policy, rounds, timer, cache, signed, waiters, proposals>>
       \/ /\ policy[n] = None
          /\ rounds[n] < MaxRounds[n]
          /\ rounds' = [rounds EXCEPT ![n] = @ + 1]
          /\ \E b \in Block :
                /\ Producer[b] = n
                /\ Parent[b] \in chain[n]
                /\ b \notin chain[n]
                /\ policy' = [policy EXCEPT ![n] = b]
                /\ \/ RequestIgnored(n) \/ RequestUnsigned(n, b)
                   \/ RequestRepeated(n, b) \/ RequestAccepted(n, b)
    /\ UNCHANGED <<master, viewVars, starts, events, latest, signals, abandoned, handed,
                   ledgerVars, syncVars, responses, commits, viewReqs, syncReqs, syncResps>>

\* ToConsensus receives a result from whichever waitResponse is sending one.
DeliverResult(n) ==
    /\ policy[n] # None
    /\ \E w \in waiters[n] :
          /\ w.pc = "send"
          /\ waiters' = [waiters EXCEPT ![n] = @ \ {w}]
          /\ TryToCommit(n, policy[n], w.result, w.signers)
    /\ policy' = [policy EXCEPT ![n] = None]
    /\ UNCHANGED <<master, viewVars, timerVars, producing, latest, rounds, signals,
                   abandoned, ledgerVars, signed, syncVars, proposals, responses, viewReqs,
                   syncReqs, syncResps>>

\* Faulty variant: only a round whose request was accepted has a deadline.
WaitTimeoutAccepted(n) ==
    /\ policy[n] # None
    /\ waiters[n] # {}
    /\ TryToCommit(n, policy[n], FALSE, {})
    /\ policy' = [policy EXCEPT ![n] = None]
    /\ abandoned' = [abandoned EXCEPT ![n] = TRUE]
    /\ UNCHANGED <<master, viewVars, timerVars, producing, latest, rounds, waiters, signals,
                   ledgerVars, signed, syncVars, proposals, responses, viewReqs, syncReqs,
                   syncResps>>

\* ToConsensus gives up.  Its timer runs since before the request, and nothing
\* orders it and the timer of waitResponse: a waitResponse that is still at work
\* keeps its result for a later round.
WaitTimeout(n) ==
    /\ policy[n] # None
    /\ TryToCommit(n, policy[n], FALSE, {})
    /\ policy' = [policy EXCEPT ![n] = None]
    /\ abandoned' = [abandoned EXCEPT ![n] = @ \/ waiters[n] # {}]
    /\ UNCHANGED <<master, viewVars, timerVars, producing, latest, rounds, waiters, signals,
                   ledgerVars, signed, syncVars, proposals, responses, viewReqs, syncReqs,
                   syncResps>>

-----------------------------------------------------------------------------
(* waitResponse, one goroutine per accepted request *)

\* It looks its content up before the loop and returns if it is gone.
WaiterStart(n) ==
    /\ \E w \in waiters[n] :
          /\ w.pc = "start"
          /\ waiters' = [waiters EXCEPT ![n] = (@ \ {w}) \cup
                IF Has(cache[n], w.block)
                THEN {[w EXCEPT !.pc = "collect", !.id = cache[n][w.block].round]}
                ELSE {}]
    /\ UNCHANGED <<master, viewVars, timerVars, upperVars, pluginVars, policy, rounds,
                   signals, abandoned, handed, ledgerVars, signed, syncVars, netVars>>

\* Both branches of its select that end the loop: on success the content it
\* holds moves to ToConsensus and the height is closed for responses.
Conclude(n, w) ==
    LET b == w.block
        ok == MaybeCommit(n, b)
    IN  /\ waiters' = [waiters EXCEPT ![n] = (@ \ {w}) \cup
              {[w EXCEPT !.pc = "send", !.result = ok,
                         !.signers = IF ok THEN cache[n][b].signers ELSE {}]}]
        /\ cache' = IF ok /\ cache[n][b].round = w.id
                    THEN [cache EXCEPT ![n][b] = SetState(@, ToConsensusState)]
                    ELSE cache
        /\ latest' = IF ok /\ ~Discarded(b) THEN [latest EXCEPT ![n] = Height[b]]
                     ELSE latest

\* The collect timer fires.
CollectTimeout(n) ==
    /\ \E w \in waiters[n] : w.pc = "collect" /\ Conclude(n, w)
    /\ UNCHANGED <<master, viewVars, timerVars, upperVars, policy, rounds, signals,
                   abandoned, handed, ledgerVars, signed, syncVars, netVars>>

\* A blocked receiveResponse, of whatever block, hands its signal over.
CollectSignal(n) ==
    /\ signals[n] > 0
    /\ signals' = [signals EXCEPT ![n] = @ - 1]
    /\ \E w \in waiters[n] :
          /\ w.pc = "collect"
          /\ \/ MaybeCommit(n, w.block) /\ Conclude(n, w)
             \/ ~MaybeCommit(n, w.block) /\ UNCHANGED <<waiters, cache, latest>>
    /\ UNCHANGED <<master, viewVars, timerVars, upperVars, policy, rounds, abandoned, handed,
                   ledgerVars, signed, syncVars, netVars>>

-----------------------------------------------------------------------------
(* Proposal, response and commit handlers *)

\* pushOrReplace: when the queue is full the oldest request gives way.
PushOrReplace(q, r) == Append(IF Len(q) < SyncLimit THEN q ELSE Tail(q), r)

\* receiveProposal far above the own height: follow the sender, sync first.
FallBehind(n, m) ==
    /\ Height[tip[n]] < Height[m.block] - 1
    /\ master' = [master EXCEPT ![n] = m.from]
    /\ syncQ' = [syncQ EXCEPT ![n] =
          PushOrReplace(@, [end |-> Height[m.block], target |-> m.from])]
    /\ UNCHANGED <<starts, cache, signed, responses>>

\* receiveProposal from somebody else than the master: only the timer stops.
ProposalNotFromMaster(n, m) ==
    /\ Height[tip[n]] >= Height[m.block] - 1
    /\ master[n] # m.from
    /\ UNCHANGED <<master, starts, syncQ, cache, signed, responses>>

\* receiveProposal from the master: cache first, then verify (VerifyPayload
\* needs the parent in the repository), sign and answer.
ProposalFromMaster(n, m) ==
    LET verified == VerifyPayload(n, m.block)
    IN  /\ Height[tip[n]] >= Height[m.block] - 1
        /\ master[n] = m.from
        /\ GoWaitMasterTimeout(n)
        /\ cache' = [cache EXCEPT ![n] = Add(@, m.block, 0)]
        /\ \/ ~verified /\ UNCHANGED <<signed, responses>>
           \/ /\ verified
              /\ signed' = signed \cup {<<n, m.block>>}
              /\ responses' = responses \cup
                    {[block |-> m.block, from |-> n, to |-> m.from, round |-> m.round]}
        /\ UNCHANGED <<master, syncQ>>

ReceiveProposal(n) ==
    \E m \in proposals :
        /\ m.to = n
        /\ Height[m.block] > Height[tip[n]]
        /\ proposals' = proposals \ {m}
        /\ StopChangeViewTimer(n)
        /\ FallBehind(n, m) \/ ProposalNotFromMaster(n, m) \/ ProposalFromMaster(n, m)
        /\ UNCHANGED <<viewVars, upperVars, latest, roundVars, handed, ledgerVars, syncing,
                       commits, viewReqs, syncReqs, syncResps>>

\* receiveResponse up to "signal <-", where the handler blocks.
ReceiveResponse(n) ==
    \E m \in responses :
        /\ m.to = n
        /\ m.from # master[n]
        /\ Height[m.block] > latest[n]
        /\ Has(cache[n], m.block)
        /\ cache[n][m.block].state # ToConsensusState
        /\ master[n] = n
        /\ responses' = responses \ {m}
        /\ cache' = [cache EXCEPT ![n][m.block] = AddSignature(@, m.from)]
        /\ signals' = [signals EXCEPT ![n] = @ + 1]
        /\ UNCHANGED <<master, viewVars, timerVars, upperVars, latest, policy, rounds,
                       waiters, abandoned, handed, ledgerVars, signed, syncVars, proposals,
                       commits, viewReqs, syncReqs, syncResps>>

\* receiveCommit of a failure: whoever reports it becomes master.
CommitFailed(n, m) ==
    /\ ~m.result
    /\ master' = [master EXCEPT ![n] = m.from]
    /\ Notify(n, "ConsensusFailed")
    /\ UNCHANGED <<cache, handed>>

\* receiveCommit of a block that is not cached.
CommitUnknown(n, m) ==
    /\ m.result
    /\ ~Has(cache[n], m.block)
    /\ UNCHANGED <<master, events, cache, handed>>

\* receiveCommit of a cached block: the signatures of the message are taken over.
CommitKnown(n, m) ==
    /\ m.result
    /\ Has(cache[n], m.block)
    /\ CommitBlock(n, m.block, m.signers)
    /\ UNCHANGED master

ReceiveCommit(n) ==
    \E m \in commits :
        /\ m.to = n
        /\ commits' = commits \ {m}
        /\ StopChangeViewTimer(n)
        /\ CommitFailed(n, m) \/ CommitUnknown(n, m) \/ CommitKnown(n, m)
        /\ UNCHANGED <<viewVars, starts, producing, latest, roundVars, ledgerVars, signed,
                       syncVars, proposals, responses, viewReqs, syncReqs, syncResps>>

\* The block switch passes a block it was handed on to the repository, which
\* stores it if it extends the current block.
WriteBlock(n) ==
    /\ \E c \in handed[n] : StoreBlock(n, c.block)
    /\ UNCHANGED <<master, viewVars, timerVars, producing, pluginVars, roundVars, handed,
                   signed, syncVars, netVars>>

-----------------------------------------------------------------------------
(* Block synchronisation *)

\* blockSyncHandler takes the next request.
TakeSyncRequest(n) ==
    /\ syncing[n] = {}
    /\ syncQ[n] # <<>>
    /\ syncing' = [syncing EXCEPT ![n] =
          {[end |-> Head(syncQ[n]).end, target |-> Head(syncQ[n]).target, height |-> 0]}]
    /\ syncQ' = [syncQ EXCEPT ![n] = Tail(@)]
    /\ UNCHANGED <<master, viewVars, timerVars, upperVars, pluginVars, roundVars, handed,
                   ledgerVars, signed, netVars>>

\* doSyncBlock asks for the next block, and again only after a block was stored.
SendSyncBlockMsg(n) ==
    /\ \E j \in syncing[n] :
          LET next == Height[tip[n]] + 1
          IN  /\ next <= j.end
              /\ j.height # next
              /\ syncReqs' = syncReqs \cup {[from |-> n, to |-> j.target, height |-> next]}
              /\ syncing' = [syncing EXCEPT ![n] = {[j EXCEPT !.height = next]}]
    /\ UNCHANGED <<master, viewVars, timerVars, upperVars, pluginVars, roundVars, handed,
                   ledgerVars, signed, syncQ, proposals, responses, commits, viewReqs,
                   syncResps>>

\* doSyncBlock returns: the end is reached, or the ticker fired after a request.
FinishSync(n) ==
    /\ \E j \in syncing[n] : Height[tip[n]] >= j.end \/ j.height # 0
    /\ syncing' = [syncing EXCEPT ![n] = {}]
    /\ UNCHANGED <<master, viewVars, timerVars, upperVars, pluginVars, roundVars, handed,
                   ledgerVars, signed, syncQ, netVars>>

\* Faulty variant: blocks still being voted on are served too.
ReceiveSyncBlockRequestCached(n) ==
    \E m \in syncReqs : \E b \in {c \in Block : c \in chain[n] \/ Has(cache[n], c)} :
        /\ m.to = n
        /\ Height[b] = m.height
        /\ syncReqs' = syncReqs \ {m}
        /\ syncResps' = syncResps \cup {[to |-> m.from, block |-> b]}
        /\ UNCHANGED <<master, viewVars, timerVars, upperVars, pluginVars, roundVars, handed,
                       ledgerVars, signed, syncVars, proposals, responses, commits, viewReqs>>

\* receiveSyncBlockRequest: answer with the stored block of that height.
ReceiveSyncBlockRequest(n) ==
    \E m \in syncReqs : \E b \in chain[n] \cap Block :
        /\ m.to = n
        /\ Height[b] = m.height
        /\ syncReqs' = syncReqs \ {m}
        /\ syncResps' = syncResps \cup {[to |-> m.from, block |-> b]}
        /\ UNCHANGED <<master, viewVars, timerVars, upperVars, pluginVars, roundVars, handed,
                       ledgerVars, signed, syncVars, proposals, responses, commits, viewReqs>>

\* receiveSyncBlockResponse: verify against the current block and write.
ReceiveSyncBlockResponse(n) ==
    \E m \in syncResps :
        /\ m.to = n
        /\ Height[tip[n]] < Height[m.block]
        /\ m.block \notin Invalid
        /\ StoreBlock(n, m.block)
        /\ syncResps' = syncResps \ {m}
        /\ UNCHANGED <<master, viewVars, timerVars, producing, pluginVars, roundVars, handed,
                       signed, syncVars, proposals, responses, commits, viewReqs, syncReqs>>

-----------------------------------------------------------------------------
(* View change *)

\* waitMasterTimeout: compare-and-swap isRunning, then wait in the select.
StartTimer(n) ==
    /\ starts[n] > 0
    /\ starts' = [starts EXCEPT ![n] = @ - 1]
    /\ timer' = [timer EXCEPT ![n] = IF @ = "off" THEN "armed" ELSE @]
    /\ UNCHANGED <<master, viewVars, upperVars, pluginVars, roundVars, handed, ledgerVars,
                   signed, syncVars, netVars>>

\* The deferred reset of isRunning after a stop.
TimerStopped(n) ==
    /\ timer[n] = "stopping"
    /\ timer' = [timer EXCEPT ![n] = "off"]
    /\ UNCHANGED <<master, viewVars, starts, upperVars, pluginVars, roundVars, handed,
                   ledgerVars, signed, syncVars, netVars>>

\* The timer branch of the select is taken; from here a stop goes unnoticed.
TimerFires(n) ==
    /\ timer[n] = "armed"
    /\ view[n] < MaxView
    /\ timer' = [timer EXCEPT ![n] = "fired"]
    /\ UNCHANGED <<master, viewVars, starts, upperVars, pluginVars, roundVars, handed,
                   ledgerVars, signed, syncVars, netVars>>

\* It reads the current view, asks every peer and itself for the next one.
RequestView(n) ==
    /\ timer[n] = "fired"
    /\ view[n] < MaxView
    /\ timer' = [timer EXCEPT ![n] = "off"]
    /\ viewReqs' = viewReqs \cup
          {[from |-> n, to |-> p, view |-> view[n] + 1, nodes |-> {n}] : p \in Node}
    /\ asked' = asked \cup {<<n, view[n] + 1>>}
    /\ UNCHANGED <<master, view, requests, ending, starts, upperVars, pluginVars, roundVars,
                   handed, ledgerVars, signed, syncVars, proposals, responses, commits,
                   syncReqs, syncResps>>

\* ViewChange.AddViewRequest accepts a view that is at most WalterLevel away.
AddViewRequest(n, v) == Abs(view[n], v) <= WalterLevel

\* Faulty variant: one request too few.
ViewEndEarly(S) == Cardinality(S) >= Quorum - 1

\* ViewRequests.state is ViewEnd.
ViewEnd(S) == Cardinality(S) >= Quorum

\* Faulty variant: the receiver counts itself among those who ask for the view.
ReceiveChangeViewReqLocal(n) ==
    \E m \in viewReqs :
        LET new == requests[n][m.view] \cup m.nodes \cup {n}
        IN  /\ m.to = n
            /\ m.view > view[n]
            /\ AddViewRequest(n, m.view)
            /\ viewReqs' = viewReqs \ {m}
            /\ requests' = [requests EXCEPT ![n][m.view] = new]
            /\ ending' = IF ViewEnd(new) THEN [ending EXCEPT ![n] = @ \cup {m}] ELSE ending
            /\ UNCHANGED <<master, view, asked, timerVars, upperVars, pluginVars, roundVars,
                           handed, ledgerVars, signed, syncVars, proposals, responses,
                           commits, syncReqs, syncResps>>

\* receiveChangeViewReq up to its decision, with AddViewRequest and
\* ReceiveViewRequestByAccount.  The accounts are frozen once there are enough.
ReceiveChangeViewReq(n) ==
    \E m \in viewReqs :
        LET old == requests[n][m.view]
            new == IF ViewEnd(old) THEN old ELSE old \cup m.nodes
        IN  /\ m.to = n
            /\ m.view > view[n]
            /\ AddViewRequest(n, m.view)
            /\ viewReqs' = viewReqs \ {m}
            /\ requests' = [requests EXCEPT ![n][m.view] = new]
            /\ ending' = IF ViewEnd(new) THEN [ending EXCEPT ![n] = @ \cup {m}] ELSE ending
            /\ UNCHANGED <<master, view, asked, timerVars, upperVars, pluginVars, roundVars,
                           handed, ledgerVars, signed, syncVars, proposals, responses,
                           commits, syncReqs, syncResps>>

\* Faulty variant: the master rotates with the view instead of being elected.
EndViewRotating(n) ==
    \E m \in ending[n] :
        /\ ending' = [ending EXCEPT ![n] = @ \ {m}]
        /\ StopChangeViewTimer(n)
        /\ view' = [view EXCEPT ![n] = m.view]
        /\ master' = [master EXCEPT ![n] = m.view % N]
        /\ Notify(n, "MasterChange")
        /\ UNCHANGED <<requests, asked, starts, producing, pluginVars, roundVars, handed,
                       ledgerVars, signed, syncVars, netVars>>

\* The rest of receiveChangeViewReq: echo (with the still empty account list),
\* stop the timer, store view and master, notify.
EndView(n) ==
    \E m \in ending[n] :
        /\ ending' = [ending EXCEPT ![n] = @ \ {m}]
        /\ viewReqs' = viewReqs \cup
              {[from |-> n, to |-> p, view |-> m.view, nodes |-> {}] : p \in Peer(n)}
        /\ StopChangeViewTimer(n)
        /\ view' = [view EXCEPT ![n] = m.view]
        /\ master' = [master EXCEPT ![n] = AccountWithMinId(requests[n][m.view])]
        /\ Notify(n, "MasterChange")
        /\ UNCHANGED <<requests, asked, starts, producing, pluginVars, roundVars, handed,
                       ledgerVars, signed, syncVars, proposals, responses, commits, syncReqs,
                       syncResps>>

-----------------------------------------------------------------------------
(* Specification *)

\* Nothing but genesis is stored and nothing is under way.
Fresh ==
    /\ master = [n \in Node |-> RoleMaster(Height[Genesis])]
    /\ view = [n \in Node |-> 0]
    /\ requests = [n \in Node |-> [v \in View |-> {}]]
    /\ ending = [n \in Node |-> {}]
    /\ asked = {}
    /\ timer = [n \in Node |-> "off"]
    /\ starts = [n \in Node |-> 0]
    /\ cache = [n \in Node |-> [b \in Block |-> NoContent]]
    /\ latest = [n \in Node |-> 0]
    /\ policy = [n \in Node |-> None]
    /\ rounds = [n \in Node |-> 0]
    /\ waiters = [n \in Node |-> {}]
    /\ signals = [n \in Node |-> 0]
    /\ abandoned = [n \in Node |-> FALSE]
    /\ handed = [n \in Node |-> {}]
    /\ chain = [n \in Node |-> {Genesis}]
    /\ tip = [n \in Node |-> Genesis]
    /\ signed = {}
    /\ syncQ = [n \in Node |-> <<>>]
    /\ syncing = [n \in Node |-> {}]
    /\ proposals = {}
    /\ responses = {}
    /\ commits = {}
    /\ viewReqs = {}
    /\ syncReqs = {}
    /\ syncResps = {}

\* Every node has been initialised at genesis and has just come online.
Init ==
    /\ Fresh
    /\ events = [n \in Node |-> {"Online"}]
    /\ producing = [n \in Node |-> FALSE]

Step(n) ==
    \/ Initialization(n)
    \/ ToConsensus(n)
    \/ DeliverResult(n)
    \/ WaitTimeout(n)
    \/ WaiterStart(n)
    \/ CollectTimeout(n)
    \/ CollectSignal(n)
    \/ ReceiveProposal(n)
    \/ ReceiveResponse(n)
    \/ ReceiveCommit(n)
    \/ WriteBlock(n)
    \/ TakeSyncRequest(n)
    \/ SendSyncBlockMsg(n)
    \/ FinishSync(n)
    \/ ReceiveSyncBlockRequest(n)
    \/ ReceiveSyncBlockResponse(n)
    \/ StartTimer(n)
    \/ TimerStopped(n)
    \/ TimerFires(n)
    \/ RequestView(n)
    \/ ReceiveChangeViewReq(n)
    \/ EndView(n)

Live == Node \ Silent

Next == \E n \in Live : Step(n)

Spec == Init /\ [][Next]_vars

\* The goroutines of a round are scheduled, and its two timers eventually fire.
Fairness ==
    \A n \in Live :
        /\ WF_vars(WaiterStart(n))
        /\ WF_vars(CollectTimeout(n))
        /\ WF_vars(DeliverResult(n))
        /\ WF_vars(WaitTimeout(n))

FairSpec == Spec /\ Fairness

\* Between the nodes that are up, view-change requests are delivered, the upper
\* layer acts on notifications, and the view timer runs.
ViewFairness ==
    \A n \in Live :
        /\ WF_vars(Initialization(n))
        /\ WF_vars(StartTimer(n))
        /\ WF_vars(TimerFires(n))
        /\ WF_vars(RequestView(n))
        /\ WF_vars(ReceiveChangeViewReq(n))
        /\ WF_vars(EndView(n))

FairViewSpec == Spec /\ ViewFairness

-----------------------------------------------------------------------------
(* Properties *)

Vote == INSTANCE Voting WITH signed <- signed, chain <- chain, tip <- tip

\* S is a quorum of nodes that have all signed b.
HasQuorum(b, S) == Cardinality(S) >= Quorum /\ S \subseteq Vote!Signers(b)

\* S was collected for b or, once b's producer has abandoned a round, for another
\* block of the same producer.
Covers(b, S) ==
    \E c \in Block :
        /\ Producer[c] = Producer[b]
        /\ HasQuorum(c, S)
        /\ c = b \/ abandoned[Producer[b]]

\* A block that commitBlock hands to the block switch carries at least Quorum
\* signatures, each made by its signer for one block of the same producer, and
\* for that very block unless its producer has given up on a round with a
\* waitResponse alive: the collected result, the block ToConsensus puts it on,
\* the commit message and the replica's cached content all belong together.
CertifiedCommit == \A n \in Node : \A c \in handed[n] : Covers(c.block, c.signers)

\* The parts of the inductive invariant behind CertifiedCommit.  A signature in
\* a response, or collected in a cache, was made by its node for that block.
ResponsesSigned == \A m \in responses : <<m.from, m.block>> \in signed
CacheSigned == \A n \in Node : \A b \in Block : cache[n][b].signers \subseteq Vote!Signers(b)

\* A node offers and collects for its own blocks only, and a success that a
\* waitResponse reports is certified.  Until a round is abandoned there is at
\* most one waitResponse, for the block and the round ToConsensus waits for.
WaitersCurrent ==
    \A n \in Node :
        /\ policy[n] # None => Producer[policy[n]] = n
        /\ \A w \in waiters[n] :
              /\ Producer[w.block] = n
              /\ w.pc = "send" /\ w.result => HasQuorum(w.block, w.signers)
              /\ \/ abandoned[n]
                 \/ waiters[n] = {w} /\ w.block = policy[n] /\ w.round = rounds[n]

\* A quorum has signed b, unless b carries what its producer left over.
Accounted(b) == Vote!Certified(b) \/ abandoned[Producer[b]]

\* Commit messages and synchronised blocks carry such blocks.
CommitsCertified == \A m \in commits : m.result => Covers(m.block, m.signers)
SyncCertified == \A m \in syncResps : Accounted(m.block)

\* Whatever the repository stores, through the block switch or through block
\* synchronisation, a quorum has signed; the exceptions are blocks of a producer
\* that has abandoned a round.
ChainCertified == \A n \in Node : \A b \in chain[n] \ {Genesis} : Accounted(b)

\* What the handlers of a round rely on: until a round is abandoned a result
\* belongs to the round that waits for it, every certificate that travels
\* (result, commit message, handed or synchronised block) is one, and a round
\* that a producer abandons taints that producer's blocks only.
CoreInv ==
    /\ ResponsesSigned
    /\ CacheSigned
    /\ WaitersCurrent
    /\ CommitsCertified
    /\ CertifiedCommit
    /\ SyncCertified
    /\ ChainCertified

\* No round has been abandoned.
NoneAbandoned == \A n \in Node : ~abandoned[n]

\* As long as no round has been abandoned the handlers implement the voting
\* protocol: every signature is on a block whose parent the signer has stored,
\* and the repository grows by blocks that a quorum has signed.
VotingStep == NoneAbandoned' => [Vote!Next]_(Vote!votingVars)

ImplementsVoting == Vote!Init /\ [][VotingStep]_vars

Askers(v) == {p \in Node : <<p, v>> \in asked}

\* A node is in a view only if a quorum of nodes timed out and asked for it,
\* however requests are repeated, echoed and overtaken by other views.
ViewCertificate ==
    \A n \in Node : view[n] > 0 => Cardinality(Askers(view[n])) >= Quorum

\* The parts of the inductive invariant behind ViewCertificate: a request only
\* names nodes that asked for its view, so do the lists of requests, and a
\* handler that is about to end a view has enough of them.
RequestsAsked == \A m \in viewReqs : m.nodes \subseteq Askers(m.view)
ListsAsked == \A n \in Node : \A v \in View : requests[n][v] \subseteq Askers(v)
EndingEnough == \A n \in Node : \A m \in ending[n] : ViewEnd(requests[n][m.view])

\* What the view change relies on: nobody votes for a node that did not time
\* out, and the list a master is elected from never shrinks below a quorum.
ViewInv == RequestsAsked /\ ListsAsked /\ EndingEnough /\ ViewCertificate

\* A view change makes a node master that itself asked for the new view.
ElectedAsked ==
    [][\A n \in Node : view'[n] # view[n] => <<master'[n], view'[n]>> \in asked]_vars

\* On the first MaxPayloadCacheNum heights a node remembers at most one block: the
\* bound Add computes wraps around, so a rival or a next block drops whatever has
\* been collected for the one before.
OneContentEarly ==
    \A n \in Node : \A b, c \in Block :
        /\ Has(cache[n], b) /\ Height[b] < MaxPayloadCacheNum
        /\ Has(cache[n], c) /\ Height[c] < MaxPayloadCacheNum
        => b = c

\* A call of ToConsensus returns.
RoundTerminates == \A n \in Node : policy[n] # None ~> policy[n] = None

\* If the master is down, every other node ends up with a master that is not:
\* the timers lead to a view change that all of them complete.
SilentMasterReplaced == <>[](\A n \in Live : master[n] \in Live)

\* Two nodes never hand over different blocks of the same height.
Agreement ==
    \A m, n \in Node : \A b \in handed[m], c \in handed[n] :
        Height[b.block] = Height[c.block] => b.block = c.block
=============================================================================
