# Verification of galaxy

galaxy is the consensus component of the DSiSc/justitia blockchain node: a
library that, given a proposed block, collects the signatures of the other
participants and hands the agreed block to a *block switch*. This directory
holds TLA+ models of its core, the TLC runs that check them on small instances,
and TLAPS proofs of the properties that matter most. Line numbers below are of
the files under `src/`.

## 1. The system

| Part | State | Operations | Source |
|---|---|---|---|
| FBFT policy | `isProcessing`, timeouts | `Initialization`, `ToConsensus`, `Online`, `GetConsensusResult`, `Prepare` | `consensus/policy/fbft/fbft.go` |
| FBFT core, rounds | `nodes` (local, master, peers), tolerance, channels `signal` and `result` | `receiveRequest`, `waitResponse`, `receiveProposal`, `receiveResponse`, `tryToCommit`, `receiveCommit`, `commitBlock` | `fbft-core.go` 107-501 |
| FBFT core, view change | `viewChange`, `coreTimer` | `waitMasterTimeout`, `stopChangeViewTimer`, `receiveChangeViewReq` | `fbft-core.go` 503-608, `consensus/common/views.go` |
| FBFT core, block synchronisation | `blockSyncChan` | `pushOrReplace`, `blockSyncHandler`, `doSyncBlock`, the two handlers | `fbft-core.go` 293-369, 912-976 |
| FBFT core, coming online | `onlineWizard` | `sendOnlineRequest`, `receiveOnlineRequest`, `receiveOnlineResponse` | `fbft-core.go` 610-777, `consensus/common/plugin.go` 172-302 |
| Content cache | content per digest, latest height | `Add`, `Remove`, `SetState`, `AddSignature` | `consensus/common/plugin.go` 11-170 |
| Event manager and timer | the two goroutines and their channels | `SoftReset`, `Reset`, `Stop`, `Halt`, event loop | `consensus/policy/pbft/tools` |
| BFT policy | master, `commit`, digest, signatures, `validator`; one lock, channels `tunnel` and `result` | `Initialization`, `ToConsensus`, `receiveRequest`, `waitResponse`, `receiveProposal`, `receiveResponse`, `SendCommit`, `receiveCommit`, the accept loop | `consensus/policy/bft` |
| DBFT policy | as BFT; `masterTimeout`, `views` with a lock per view number | as BFT; `waitMasterTimeOut`, `receiveChangeViewReq`, `receiveSyncBlockReq`, `receiveSyncBlockResp` | `consensus/policy/dbft` |
| Solo policy | version, master, peers | `Initialization`, `ToConsensus`, `commitBlock`, `Online` | `consensus/policy/solo` |
| Roles | assignment of master and slaves | `RoleAssignments`, `AppointRole`, `ChangeRoleAssignment`, `GetRoles` | `role/policy` |
| Participates | members, list of peers | `GetParticipates` | `participates/policy` |
| Constructors, configuration | none | selection of a policy by name | `galaxy.go`, `consensus/consensus.go`, `role/role.go`, `participates/participates.go` |
| Messages, utilities | none | encoding, broadcast, thresholds, payload verification | `consensus/messages`, `consensus/utils` |

How the parts interact. The node around the library (not in this repository)
reacts to notifications of the event center: it asks the role policy for the
master of the next height, calls `Initialization` and, if it is the master,
builds a block and calls `ToConsensus`. That starts a *round*: the master signs,
broadcasts a proposal and starts `waitResponse`; the replicas verify, sign and
answer; `waitResponse` reports to `ToConsensus`, which broadcasts a commit
message and hands the block over. A replica that waits too long for the master
asks for the next *view*; a quorum of such requests elects the requester with
the least id. Nodes that fall behind fetch blocks one by one from a peer.

BFT has neither views nor synchronisation; DBFT adds both to a copy of BFT's
code. In these two the master writes the block itself before it sends the commit
message. The solo policy decides alone. Which participants there are is for the
participates policy to say; the DPOS one asks a contract.

What is hard. Each connection is served by a goroutine of its own, so handlers of
one node interleave freely with each other, with `ToConsensus`, `waitResponse`,
the view timer and the synchronisation goroutine; there is no lock across a
handler. Every message is sent once over its own connection: it may be lost or
overtaken. Two deadlines guard a round, a third one the master. Nothing but the
repository survives a restart. BFT and DBFT hold a read lock while a handler
waits on an unbuffered channel whose reader may want the write lock, and an
abandoned round of theirs leaves goroutines behind that know nothing of it; so
does one of FBFT, whose two deadlines nothing orders.

What makes the parts correct, in one line each:

* rounds: what is handed over carries a quorum of signatures for that very block,
  until its producer abandons a round that still runs; a round ends;
* chain: until then repositories agree below their current blocks;
* views: a view is entered only if a quorum asked for it, its master is one of
  them, and a master that is down is replaced;
* synchronisation: whatever is stored was agreed on by a quorum, with the same
  exception;
* coming online: only with a quorum of announcements of one height, with the
  master of a running node, and with its view number or none;
* timer: an event that was stopped or replaced is never delivered, and nobody
  deadlocks with it;
* BFT: as long as ToConsensus abandons no round that still runs, whatever is
  stored carries a quorum of signatures; in any case a node stores only what it
  has verified itself, and every round ends with a notification;
* DBFT: besides, a node is counted for a view only if it asked for it or joined
  it, a timeout leads to the view change, and the node whose proposal shows that
  blocks are missing has them;
* solo and roles: never two masters, no good block refused, no silent round.

## 2. Modules

```
Peers            N participants, tolerance, quorum, elections, role assignment
 |- Blocks       a tree of blocks: parent and height
 |   |- Voting              abstract: sign on a stored parent, store what is certified
 |   |   `- VotingProofs, MCVoting
 |   |- ConsensusPlugin     the content cache as pure operators
 |   |   `- FbftCore        the FBFT policy on N nodes, except coming online
 |   |       |- FbftTypes   type correctness, what the content cache holds
 |   |       |   `- FbftSafety   certificates, refinement of Voting, finality, views
 |   |       `- MCRound MCRetry MCAgreement
 |   `- BftCore             the BFT policy on N nodes
 |       |- BftProofs, MCBft
 |       `- DbftCore        the DBFT policy: BFT's rounds, views, synchronisation
 |           `- DbftProofs, MCDbft
 `- Online       coming online
     `- OnlineProofs, MCGenesis, MCRejoin
EventTimer       pbft/tools: event manager and timer
 `- EventTimerProofs, MCTimer
Solo             participates, roles and the solo policy around one node
 `- SoloProofs, MCSolo
```

### FbftCore

One action per handler, split only where the code blocks on a channel or reads a
value it uses after other handlers may have run:

| Code | Model |
|---|---|
| `Initialization`, called by the upper layer on a notification; with `onLine` it starts no timer | `events`, `OnLineFirst`, `Initialization` |
| `ToConsensus` with `receiveRequest`, up to its select | `ToConsensus` (`RequestIgnored`, `RequestUnsigned`, `RequestRepeated`, `RequestAccepted`) |
| its select | `DeliverResult`, `WaitTimeout` |
| `waitResponse` | `waiters`, `WaiterStart`, `CollectSignal`, `CollectTimeout` |
| handlers blocked on `signal` (line 419) | `signals`, `ReceiveResponse` |
| `receiveProposal`, `receiveCommit` | `ReceiveProposal`, `ReceiveCommit`, one disjunct per early return that changes state |
| `waitMasterTimeout`, `stopChangeViewTimer` | `starts`, `timer`: `StartTimer`, `TimerStopped`, `TimerFires`, `RequestView` |
| `receiveChangeViewReq` | `ReceiveChangeViewReq` up to the decision, `ending`, `EndView` |
| block synchronisation | `syncQ`, `syncing`, `TakeSyncRequest`, `SendSyncBlockMsg`, `FinishSync`, `ReceiveSyncBlockRequest`, `ReceiveSyncBlockResponse` |
| the consumer of the block switch, the repository (external) | `WriteBlock`, `chain`, `tip` |

A block is its `MixDigest`; of its header only parent and height remain. Messages
are members of sets until handled, at most once; never handled means lost. A
handler that only logs is no action. Signatures are a history variable `signed`:
they cannot be forged, and checks of a genuine signature always succeed. The
header hash in a commit message is computed from the same block and signatures
on both sides, so the comparison at line 484 never fails and is left out.

Nothing orders the two deadlines of a round: the one of `ToConsensus` runs since
before the request is broadcast (`fbft.go` 82), the one of `waitResponse` since
after it (`fbft-core.go` 166). When `ToConsensus` gives up first (`WaitTimeout`)
a `waitResponse` may be left that blocks on the result channel until the next
call takes its result. The history variable `abandoned` records that this has
happened at a node. From then on the signatures on a block of that producer may
be those of another block of the same producer, and no more than that
(`Covers`, `Accounted`). Run *Retry* has both orders of the deadlines.

### ConsensusPlugin

Pure operators on a cache. The eviction bound of `Add` is an unsigned
subtraction, `(Height - 10) % 2^64`; `UintModulus` stands for 2^64. Below height
10 it wraps around, and `Add` evicts every entry, the very block included; run
*Retry* is in that range, *Round* crosses its end. `OneContentEarly` states the
consequence: in that range a node remembers one block at most, so a rival block
drops the signatures collected for the one before.

### Voting

The abstract specification: nodes sign blocks whose parent they have stored and
store certified blocks on top of their current block. There is no vote lock in
the code, so agreement on a height is not promised (and does not hold, run
*Agreement*); what holds is that a fork is at most one block deep.
`ImplementsVoting` says that FbftCore, with `signed`, `chain` and `tip` for the
variables of the same names, implements this specification until a round is
abandoned; `VotesUnlessAbandoned` and `DbftVotesUnlessAbandoned` say the same of
BFT and DBFT. A result left over from an abandoned round may store a block that
is not certified. What survives it is `LedgerInv`: signatures are on stored
parents and repositories are chains, which is enough for `ParentAgreement`.

### BftCore

| Code | Model |
|---|---|
| `Initialization`, called by the upper layer on a notification | `events`, `NextRound`, `StartRound`, `Initialization` |
| `ToConsensus` up to its select, its two cases | `ToConsensus`; `DeliverResult`, `WaitTimeout` |
| `go instance.commit`, `SendCommit`, `commitBlock` | `committing`, `SendCommit` (`CommitFailed`, `CommitPanics`, `CommitWritten`) |
| `receiveRequest`, started concurrently, and the `waitResponse` it starts | `workers` with a program counter: `ReceiveRequest`, `TakeTunnel`, `CollectTimeout`, `SetCommitted`; `DeliverResult` takes it off the result channel |
| `receiveProposal`: the master is checked (218) and read again to be answered (262) | `ReceiveProposal`, `replying`, `SendReply` |
| `receiveResponse`, holding the read lock on the tunnel (332, 353) | `ReceiveResponse`, `blocked` |
| `signature.signatures` and `signMap`, compared by length (302) | `signatures` (a length) and `signMap` |
| `validator`, with a nil entry dereferenced at 478 | `validator`, `crashed` |
| before the first `Initialization`: no master, and no event center for a failed commit to notify (438) | `Nobody`, `FailureTold` |
| `handleConnection`, one connection after the other | `Serving`: nothing is served while a handler is blocked |

`abandoned` is a history variable: ToConsensus of that node has given up while a
goroutine of the round was left. From then on a result may belong to any block.
`signMap`, `commit` and the master are reset by `Initialization`, the digest is
not; the model keeps both facts. That `receiveResponse` and `waitResponse` wait
for each other for good (the writer is queued, 183, before the tunnel is read,
192) is a reachable state of the model; `RoundAnnounced` states that rounds are
announced in spite of it, because ToConsensus has a timer of its own.

### DbftCore

Every action of a round is BFT's with what DBFT adds: the master timer is stopped
(`StopTimer`), a proposal is sent twice, a proposal of a later height asks for
blocks. Before an `Initialization` without `onLine` there is no timer, and
stopping it ends the process in `receiveRequest` (140), `receiveProposal` (236)
and `receiveChangeViewReq` (634): `TimerPanics`. Replaced timers go on running
(`stray`).

`receiveProposal` checks the master (242) and reads it again to answer (324) or to
ask for blocks (276). `replying` and `asking` hold the handlers in between, and
`SendReply` and `SendSyncBlockReq` send to whoever is master by then. A node that
is asked for a block it does not have ends its process (541).

`receiveChangeViewReq` is split where another handler of the same node can come
between: after the comparison of view numbers in `handleClient` (836), after the
check under the read lock (656), before the write lock (663) and before the last
check (675). `leaked` is the read lock that an early return keeps (655). The
answer to a synchronisation request ends its receiver (`ReceiveSyncBlockResp`,
run *DbftSync*), so the loop of `receiveSyncBlockResp` has no behaviour to model.

### Solo

One action per call of the upper layer, which reacts to a notification with
`GetParticipates`, `RoleAssignments`, `Initialization` and, on the master,
`ToConsensus`. Of a block remain whether it has transactions, whether the
validator accepts it and whether its signatures are as they should be. `MaxUint64`
stands for the largest version, `Uint8Modulus` for the 256 at which the count of
participants wraps around (68): the modulus plus one participants pass for one.
`NodeNumber` and `GetDelegatesByCount` are two calls of the contract, and votes
may come between. `AppointRole` and `ChangeRoleAssignment` have no caller in the
library and may come at any time.

### Online

Block heights are constant while nodes come online. `Running` nodes have come
online at genesis before; the others are starting, with an empty wizard and view
number 0. `Panic` models `panic("master not in agreement ...")`: it ends the
process. The state of a `ResponseNodes` entry is a function of its number of
nodes. The queue of synchronisation requests is a set here: only what is asked
for matters.

### EventTimer

One action per case of the timer's and the manager's select. Channels are
unbuffered: a caller is blocked (`call`) until the loop takes its call. The event
thread calls the timer from inside `ProcessEvent`. `cancelled` is a history: the
events that were accepted before a stop or a new countdown. A soft start after
the expiry of a countdown is one of the latter, against the comment of
`SoftReset` (section 5).

## 3. Runs

Passing runs:

| Run | Instance | States | What it shows |
|---|---|---|---|
| Voting | N=4, five blocks in two branches | 125k | one-block forks only, finality |
| Round | N=3, heights 9 and 10; ordinary, empty, invalid, unsigned block; no views | 535k | certificates; synchronised chains are certified; refinement |
| Retry | N=2, two rounds per node, rival and unsigned blocks, height 9, fairness | 106k | round isolation until a round is abandoned, and what is left of it then; what the cache forgets; rounds end |
| View | N=4, master down, one view, fairness | 57k | view certificates; the view change completes |
| Timer | two threads, four calls, fairness | 34k | nothing stale is delivered, nothing twice; no deadlock |
| Genesis | N=3, fairness | 200k | everybody comes online, with a quorum |
| Rejoin | N=4 in view 1, two restart, heights 0 and 1 | 29k | the assertion never ends an online node; the master is taken over, with its view number or none |
| Bft | N=2, three rounds, rival and invalid blocks, fairness | 131k | voting until a round is abandoned; what an abandoned round can and cannot damage; rounds are announced |
| Dbft | N=2, five initial chains: a round and one view change, two views, or a node two blocks behind; fairness | 166k | quorums behind views, also when handlers overtake each other; the proposer has the blocks that are asked for; a timeout is followed and announced |
| Solo | three accounts, four heights, all four pairs of policies, fairness | 182k | one master; good blocks are decided; no silent round |

Runs that show a disagreement between the code and what it says of itself
(details under "findings" in `PROJECT.json`):

| Run | What happens |
|---|---|
| Agreement | two blocks of one height are handed over after lost commits and a view change |
| DbftSync | the answer to a request for blocks ends the process that asked |

*Round* uses `ToldSpec` of `MCRound`: it starts where every node has handled its
first notification and nothing else has happened. *Dbft* uses `FocusSpec` of
`MCDbft`: where the nodes start decides whether there is a round, a second view
or a node to be synchronised. It holds back timeouts, rounds and their results only, of which no fairness is
assumed, so a behaviour that obeys it is a fair behaviour of `DbftCore`. Both
are subsets of the behaviours of their modules, and the safety properties
checked there are proved for all of them.
`MCAgreement` only restricts which node takes the next step of `FbftCore` and
which messages are lost, so that the counterexample, some thirty steps long at
N=4, is found quickly; each of its behaviours is one of `FbftCore`.

Bounds, and why they are enough. N=4 is the smallest network that tolerates a
silent node (quorum 3); N=2 and 3 have tolerance 0, so every node signs and the
number of orders stays small while all handlers still interleave. What depends
on a quorum smaller than N is in *Voting*, *View*, *Rejoin* and *Agreement*, and
for every N in the proofs. `MaxRounds` = 2 is the smallest number at which a
result can reach the wrong round; in *Bft* the rounds of two masters overlap as
well. *Round* has `MaxView` = 0: no view changes; that these cannot break the chain
is for `RefinesVoting` to say. `MaxView` = 1 gives *View* one complete view
change; the orders of two views of FBFT are covered by `ViewInvariant` alone,
while *Dbft* has `MaxView` = 2. `MaxStarts` = 1: a second
waiting goroutine would find `isRunning` set. `SyncLimit` = 1 makes the queue
full at its first entry. `MaxCalls` = 4 of the timer lets a start expire, be
replaced, be stopped, and start again. `Impatient` limits which timers of DBFT
fire: the one of node 1 everywhere, that of node 0 where it is behind and at one
block where both fire. `FirstChains` starts *Dbft* with one node two blocks
behind, or at a height where an ordinary block, only a block without its
producer's signature, or none can follow. `OnLineFirst` lists the nodes
whose first `Initialization` has `onLine` (FBFT) or may have it (DBFT); in *View*
nobody has, since a node that watches no master cannot ask for its replacement,
and for FBFT the case is covered by the theorems, which hold for every choice.
Solo: `MaxUint64` = 3 and `MaxHeight` = 4 let the version wrap around, a
`Capacity` of 1 makes the switch full, with `Uint8Modulus` = 2 three participants
pass for one, and two calls of others are a vote and a
change of roles or two of one kind. Deadlock is not checked where the bounds, or
the one-shot protocol itself, end the behaviour.

Fairness. *Retry*: goroutines of a round are scheduled and its timers fire (Go's
scheduler and `time.Timer`). *View*: messages between nodes that are up arrive
(TCP between live processes), the upper layer reacts, the view timer runs.
*Genesis*: the upper layer calls `Online`, and messages between live nodes
arrive. *Timer*: `select` picks among ready cases at random, so a case that
stays ready is taken; `ProcessEvent` returns. Nothing is assumed about the
expiry of the event timer. *Bft*: the timer of ToConsensus fires and the commit
goroutine runs; no message has to arrive and no goroutine has to get its lock.
*Dbft*: view-change requests arrive and their handlers are scheduled; rounds,
timers and synchronisation need not move. *Solo*: the upper layer goes on and
the reader of the block switch takes what is there.

Definitions marked "Faulty variant" are plausible bugs of the definition that
follows; each property is violated when one of them replaces the original
("mutants" in `PROJECT.json`).

## 4. Proofs

For every N from 1 to 255 (the thresholds are computed in `uint8`), every tree of
blocks and all bounds; assumptions are the named ASSUMEs of the modules.

* **VotingProofs.** `VotingInv` (signatures are on stored parents, a repository
  is a chain of certified blocks) is inductive. Two quorums have a common member,
  for any N; that member stored both parents, and its repository has one block
  per height: `ParentAgreement`. `Finality` follows, since a block below the
  current one is the parent of a certified block.
* **FbftTypes.** Type correctness, one lemma per action; and `OneContentEarly`:
  every step removes entries from one node's cache or is one `Add`
  (`CacheStep`), and `EvictedMeaning` says what the wrapped bound evicts.
* **FbftSafety.** `CoreInv`, for either order of the deadlines. `CertifiedCommit`
  alone is not inductive: a block is certified because the result came from a
  waiter of the same round (`WaitersCurrent`: at most one waiter, for the current
  block and round, until a round is abandoned), whose signatures came from the
  cache (`CacheSigned`), which came from responses (`ResponsesSigned`); and
  commit messages and synchronised blocks travel (`CommitsCertified`,
  `SyncCertified`). An abandoned round is contained because a node offers and
  collects for its own blocks only: what is left over is a quorum's signatures of
  another block of the same producer. With it every step of `FbftCore` before the
  first abandoned round is a step of `Voting` or leaves its variables alone
  (`RefinesVoting`), so `Finality` holds until then (`FbftFinality`).
  `FbftParentAgreement` holds for good: it needs only that signatures are on
  stored parents and that repositories are chains. `ViewInv` says that requests
  and lists only name nodes that timed out, and that a handler between its
  decision and its stores still has a quorum.
* **EventTimerProofs.** `TimerInv`: the loop counts down or waits to deliver,
  never both, and what it holds is neither cancelled nor delivered; blocked calls
  carry events the loop has not seen. `NoStaleEvent` and `DeliveredOnce` follow.
* **OnlineProofs.** `OnlineInv`: whoever is counted, reported or forwarded for a
  height has announced it itself; counts are of distinct nodes. `RunningInv`: a
  node that is online asks for nothing and is sent nothing but responses of the
  genesis height, which it ignores, so the assertion on masters cannot end it
  (`RunningSurvive`, for all initial masters and views). `RejoinInv`, under
  `FewStarting`: what a starting node holds, or is sent, is vouched for by a
  running node or comes from starting nodes only; those are no quorum, so a node
  comes online with a running node's master (`RejoinAgreement`).
* **BftProofs.** `RoundInv` is inductive; `CertifiedUnlessAbandoned` alone is not:
  that a stored block is certified comes from a commit (`OutcomesCertified`), which
  comes from a waitResponse whose block is the one ToConsensus waits for
  (`WorkersCurrent`: one goroutine per round, until one is abandoned), which
  counted signatures made for the current digest (`SignaturesMade`). Each group
  depends on few variables, and a lemma per group (`SignaturesKept`,
  `WorkersKept`, `OutcomesKept`, `LedgerKept`) says what a step has to leave
  alone. `CrashOnlyAbandoned` is a separate induction on top of it. By the same
  invariant every step before the first abandoned round is one of `Voting`
  (`BftRefinesVoting`); with `FromGenesis` its invariant therefore holds until
  then (`VotedInv`), and finality with it (`BftFinality`).
* **DbftProofs.** DBFT's steps of a round are BFT's, so the lemmas of BftProofs
  carry over, the refinement and finality included. For the views `CountedAsked`
  is joined with `RequestsBacked`: what a handler is about to count was backed
  already. `ViewBacked` needs `ViewsCounted`: a handler that waits for the write
  lock has counted a quorum, lists only grow, and a node's view is one that was
  ended. `SyncServable` needs `ProposalsBuilt` and `AsksBuilt`: a node that
  proposed a block has its parent, its repository never sinks, and a handler
  between the check and the request keeps to that node's blocks.
* **SoloProofs.** Types and roles are inductive together: `RoleAssignments`
  replaces all roles, `AppointRole` and `ChangeRoleAssignment` move the master's
  role, so there are never two. `VersionNeverRefused`: the version goes through
  its largest value and zero without a block being refused for it.

Hypotheses of theorems, besides the ASSUMEs:

| Hypothesis | Meaning | Where it matters |
|---|---|---|
| `HeightsFit` | heights stay 10 below 2^64 | `OneContentEarly` |
| `FewStarting` | fewer nodes start than make a quorum; true when a network is running | `RejoinInv`, `RejoinAgreement`; not `RunningSurvive` |
| `FromGenesis` | repositories start with the genesis block alone | finality of BFT and DBFT; not the refinement of steps |

Each of them holds in an instance that TLC checks: `HeightsFit` in *Retry*,
`FewStarting` in *Rejoin*, `FromGenesis` in *Bft*.

Every invariant, refinement and action property of the passing runs is proved.
Some results are stated by theorems alone: `CountedAsked` and the two type
invariants of BFT and DBFT are conjuncts of `DbftInv` and `RoundInv`, which the
runs check; `RejoinInv` is only the induction behind `RejoinAgreement`; and
`DbftVotesUnlessAbandoned`, the finality of the three policies and
`VersionNeverRefused` carry results of other runs over.
Model-checked only are the liveness properties, since fairness and ENABLED are
out of the prover's reach: `RoundTerminates`,
`SilentMasterReplaced`, `CallsReturn`, `AllOnline`, `RoundAnnounced`,
`TimeoutFollowed`, `AnnouncedUnlessLeaked`, `GoodBlockDecided`,
`KeepsProducing`.

## 5. Abstractions and what is not modelled

* Handlers are atomic between the points named above. Not split: the state check
  and `AddSignature` of `receiveResponse`; the test for `ViewEnd` and the
  additions of `receiveChangeViewReq` (in the code a list may grow by a request
  that was checked before it was complete); the two selects of `pushOrReplace`;
  the check and the count of `receiveOnlineResponse`; the in-place write of
  `nodes.master` at line 753.
* Errors of encoding, signing and of opening the repository; `Prepare`, which
  replaces the local account before the network runs.
* Requests from a producer that is not the master (`RequestMessageType` over the
  network, marked TODO in the code; no sender in the repository).
* The comparison of a proposal's sender with the master in `handleClient` and the
  one in `receiveProposal` (BFT, DBFT) are one step; the later reads of the master
  are not.
* A restart in the middle of a round; `Online` restarts nodes between rounds.
* With N <= 3 the tolerance is 0 and a silent master is never replaced: view
  change needs the requests of all nodes, the master included.
* BFT and DBFT: `receiveRequest` from the verification to the broadcast is one
  step, and so are the two counts of `waitResponse`; the updates of one list
  `requestNodes` by several handlers are atomic (in the code one of them may
  overwrite the other's); several equal messages on their way count as one. Data
  races on the maps are not split further.
* DBFT: the body of `receiveSyncBlockResp` (566-584), which no message reaches;
  the copy of `waitMasterTimeOut` in `dbft.go` 55-79 and `getCommitOrder`, which
  nobody calls.
* Solo: errors of the voting contract and of the repository; `GetRoles`, which
  only reads.
* Encoding, sockets, constructors, configuration, scripts: I/O and plain data.

Behaviour of the code that the models have, that contradicts a comment or a log
message, and that is not one of the runs:

* FBFT: `ToConsensus` may take the result that the `waitResponse` of an abandoned
  round left on the channel, put its signatures on the next block, log "consensus
  for %x successfully with signature %x." (`fbft.go` 93) and hand the block over
  with signatures that are not of that block. The deadlines that would exclude it
  are not ordered (`fbft.go` 82, `fbft-core.go` 166); `fbft_test.go` 138-139 sets
  both to 1000 ms.
* `AddOnlineResponse` panics with "master not in agreement which exist is %d,
  while receive is %d." (`plugin.go` 247) when a starting node has learnt of view
  1 and then hears from another starting node, which has the first master and
  view 0. Nodes that are online are not affected (`RunningSurvive`).
* `SoftReset` "will not clear any pending events" (`timer.go` 103). Once the
  countdown has elapsed `timerChan` is nil, so a soft start passes the test at
  line 63 and sets `eventDestChan` to nil (76): the event that waits to be
  delivered is lost. `NoStaleEvent` states what the code does.
* DBFT: `receiveProposal` insists that a "proposal must from master %d"
  (`dbft-core.go` 243) and reads the master again to ask it for the blocks below
  (276). Another master by then need not have them, and `receiveSyncBlockReq`
  panics (541).
* `receiveChangeViewReq` compares the view number (506) and stores it later (528):
  a handler that was overtaken sets the view back, although "current viewNum %d
  no less than received %d, so ignore it" (507).
* Two nodes that end one view after different requests elect different masters,
  although both log "now reach to consensus for viewNum %d and new master is %d"
  (534). The echo carries no accounts, since line 525 precedes line 527.
* Handlers of one node run concurrently; `utils/events.go` 6 says "ProcessEvent
  will be called serially as events arrive".
* The response that `receiveOnlineResponse` forwards at genesis has no `ViewNum`
  (758-767): a restarted node may come online in view 0 with the master of view 1.
* A response of a *lower* height queues a synchronisation request (730-737), up to
  a block the node has; `doSyncBlock` returns at once.
* A DBFT node stores the view number of whichever handler ends last (666), so the
  number may go back (in *Dbft* from 2 to 1; `TimeoutFollowed` therefore asks
  that the view change ends, not that the node stays in the view); with more than two nodes the handlers of one view may elect
  different masters (662), as in FBFT.
* A node that comes online with a forwarded list keeps view number 0 although its
  master is that of a later view (`RejoinAgreement` allows it).
* `AppointRole` of the current master (85-86) leaves no master, and every further
  call is refused; `RoleAssignments` of the DPOS policy divides by zero without
  delegates (34).

## 6. Plan

Done: FBFT (rounds, views, synchronisation, coming online), the content cache,
the abstract voting protocol, the event timer, BFT, DBFT, solo with roles and
participates, and the proofs above.

What would come next, in this order:

1. Finer steps in `FbftCore` and `BftCore`: the windows listed in section 5,
   above all the unlocked list of requests of a view and the in-place write of
   the master at line 753 of `fbft-core.go`.
2. Runs of FBFT with two views and with synchronisation across a view change, and
   liveness of the view timer after a stop. They need a smaller `FbftCore` to stay within reach of TLC.
3. Proofs: finality of all three policies below the point where a node abandoned a
   round, and of BFT and DBFT from repositories that are chains already.
4. Restarts in the middle of a round, with the repository as the only survivor.
