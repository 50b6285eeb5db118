------------------------------ MODULE BftCore ------------------------------
(***************************************************************************)
(* The BFT policy of galaxy (consensus/policy/bft), and the rounds of the  *)
(* DBFT policy, which repeat its code, on N nodes.                         *)
(*                                                                         *)
(* A message is a member of the set of its type until it is handled, at    *)
(* most once; one that is never handled is lost.  BFT serves connections   *)
(* one after the other in the accept loop (Serial), DBFT each in its own   *)
(* goroutine.  An accept loop that has returned after a broken connection  *)
(* is a node to which every later message is lost.                         *)
(*                                                                         *)
(* One worker stands for the goroutines of a round: receiveRequest, which  *)
(* runs concurrently with the ToConsensus that started it, and then the    *)
(* waitResponse it starts.  Its pc is                                      *)
(*   "request"  receiveRequest has not verified the block yet,             *)
(*   "collect"  it has signed the block, and waitResponse is or will be at *)
(*              its select,                                                *)
(*   "lock"     it has its result and waits for the write lock,            *)
(*   "send"     it offers the result on the unbuffered result channel.     *)
(* receiveResponse holds the read lock while it waits on the unbuffered    *)
(* tunnel; "blocked" counts these handlers.  receiveProposal compares the  *)
(* sender with the master when it begins and answers to whoever is master  *)
(* when it ends; "replying" holds the blocks it has signed in between.     *)
(*                                                                         *)
(* The upper layer calls ToConsensus synchronously and takes the master of *)
(* every round from the role policy.                                       *)
(***************************************************************************)
EXTENDS Blocks

CONSTANTS
    None,        \* no block
    Invalid,     \* the blocks the validator rejects
    Unsigned,    \* the blocks that do not carry just the producer's signature
    Serial,      \* one connection at a time
    FirstChains, \* what the repositories may hold when the nodes start
    MaxRounds    \* bound: calls of ToConsensus per node

ASSUME BftAssumption ==
    /\ None \notin AnyBlock
    /\ Invalid \subseteq Block
    /\ Unsigned \subseteq Block
    /\ Serial \in BOOLEAN
    /\ \A f \in FirstChains :
          /\ f \in [Node -> SUBSET AnyBlock]
          /\ \A n \in Node : \E t \in f[n] : \A b \in f[n] : Height[b] <= Height[t]
    /\ MaxRounds \in [Node -> Nat]

VARIABLES
    master,      \* bftCore.master, per node
    commit,      \* bftCore.commit
    digest,      \* bftCore.digest
    signMap,     \* signature.signMap: the block whose signature an account has here
    signatures,  \* len(signature.signatures)
    validator,   \* the blocks with an entry in bftCore.validator
    blocked,     \* receiveResponse handlers waiting on the tunnel
    replying,    \* the blocks of receiveProposal handlers that have still to answer
    policy,      \* the block ToConsensus is waiting for, or None
    rounds,      \* number of ToConsensus calls so far
    workers,     \* the goroutines of the rounds
    committing,  \* "go instance.commit" that has not run yet
    events,      \* notifications the upper layer has not acted on
    chain,       \* the blocks the repository has stored
    tip,         \* the repository's current block
    signed,      \* history: <<node, block>> signatures ever made
    abandoned,   \* history: a ToConsensus has given up on a round that still ran
    crashed,     \* nodes whose process a nil dereference has ended
    proposals, responses, commits   \* the network

signVars == <<commit, digest, signMap, signatures, validator>>
callVars == <<policy, rounds, abandoned>>
ledgerVars == <<chain, tip>>
netVars == <<proposals, responses, commits>>
bftVars == <<master, signVars, blocked, replying, callVars, workers, committing, events,
             ledgerVars, signed, crashed, netVars>>

Vote == INSTANCE Voting WITH signed <- signed, chain <- chain, tip <- tip

-----------------------------------------------------------------------------
(* Types *)

BlockOrNone == Block \cup {None}
\* The account a policy has for its master before the first Initialization.
Nobody == N
Account == Node \cup {Nobody}
\* "of" is the digest the signatures of a result were verified against.
Worker == [block : Block, round : Nat, pc : {"request", "collect", "lock", "send"},
           ok : BOOLEAN, of : BlockOrNone]
Outcome == [block : Block, result : BOOLEAN, of : BlockOrNone]
Proposal == [block : Block, from : Node, to : Node, copy : {1, 2}]
Response == [block : Block, from : Node, to : Account]
Commit == [block : Block, from : Node, to : Node, result : BOOLEAN]
Event == {"Started", "BlockCommitted", "ConsensusFailed", "MasterChange"}

BftTypeOK ==
    /\ master \in [Node -> Account]
    /\ commit \in [Node -> BOOLEAN]
    /\ digest \in [Node -> BlockOrNone]
    /\ signMap \in [Node -> [Node -> BlockOrNone]]
    /\ signatures \in [Node -> Nat]
    /\ validator \in [Node -> SUBSET Block]
    /\ blocked \in [Node -> Nat]
    /\ replying \in [Node -> SUBSET Block]
    /\ policy \in [Node -> BlockOrNone]
    /\ rounds \in [Node -> Nat]
    /\ workers \in [Node -> SUBSET Worker]
    /\ committing \in [Node -> SUBSET Outcome]
    /\ events \in [Node -> SUBSET Event]
    /\ chain \in [Node -> SUBSET AnyBlock]
    /\ tip \in [Node -> AnyBlock]
    /\ signed \subseteq Node \X Block
    /\ abandoned \in [Node -> BOOLEAN]
    /\ crashed \subseteq Node
    /\ proposals \subseteq Proposal
    /\ responses \subseteq Response
    /\ commits \subseteq Commit

-----------------------------------------------------------------------------
(* Shared pieces of the handlers *)

Peer(n) == Node \ {n}

\* A connection is served; a serial server is not stuck in another handler.
Serving(n) == Serial => blocked[n] = 0 /\ replying[n] = {}

Notify(n, e) == events' = [events EXCEPT ![n] = @ \cup {e}]

\* verifyPayload: the parent's repository exists and the validator accepts b.
VerifyPayload(n, b) == Parent[b] \in chain[n] /\ b \notin Invalid

\* WriteBlockWithReceipts: the repository stores b on its current block only,
\* and announces it; otherwise it returns an error, which is logged.
WriteBlock(n, b) ==
    \/ /\ Parent[b] = tip[n]
       /\ chain' = [chain EXCEPT ![n] = @ \cup {b}]
       /\ tip' = [tip EXCEPT ![n] = b]
       /\ Notify(n, "BlockCommitted")
    \/ /\ Parent[b] # tip[n]
       /\ UNCHANGED <<chain, tip, events>>

\* signData.addSignature: the map entry is replaced, the slice always grows.
AddSignature(n, p, b) ==
    /\ signMap' = [signMap EXCEPT ![n][p] = b]
    /\ signatures' = [signatures EXCEPT ![n] = @ + 1]

\* maybeCommit returns no signatures if slice and map differ in length, and
\* otherwise those that verify against the current digest.
ReallySignature(n) ==
    IF signatures[n] = Cardinality({p \in Node : signMap[n][p] # None})
    THEN {p \in Node : signMap[n][p] # None /\ signMap[n][p] = digest[n]}
    ELSE {}

\* Faulty variant: one signature too few.
MaybeCommitEarly(n) == Cardinality(ReallySignature(n)) >= Quorum - 1

\* maybeCommit without an error.
MaybeCommit(n) == Cardinality(ReallySignature(n)) >= Quorum

-----------------------------------------------------------------------------
(* Upper layer and policy: bft.go *)

\* Initialization: everything of the previous round but its digest.
Initialization(n, m) ==
    /\ master' = [master EXCEPT ![n] = m]
    /\ commit' = [commit EXCEPT ![n] = FALSE]
    /\ signMap' = [signMap EXCEPT ![n] = [p \in Node |-> None]]
    /\ signatures' = [signatures EXCEPT ![n] = 0]
    /\ UNCHANGED <<digest, validator>>

\* ToConsensus up to its select: receiveRequest is started concurrently.
ToConsensus(n, b) ==
    /\ rounds[n] < MaxRounds[n]
    /\ policy' = [policy EXCEPT ![n] = b]
    /\ rounds' = [rounds EXCEPT ![n] = @ + 1]
    /\ workers' = [workers EXCEPT ![n] = @ \cup
          {[block |-> b, round |-> rounds[n] + 1, pc |-> "request", ok |-> FALSE, of |-> None]}]

\* The upper layer acts on a notification: it initializes the policy for the
\* next height and, if the node is the master and its producer succeeds, offers
\* a block on its current one.
StartRound(n, m) ==
    /\ policy[n] = None
    /\ Initialization(n, m)
    /\ \/ UNCHANGED <<policy, rounds, workers>>
       \/ m = n /\ \E b \in Block : Parent[b] = tip[n] /\ ToConsensus(n, b)
    /\ UNCHANGED <<blocked, replying, committing, ledgerVars, signed, abandoned, crashed,
                   netVars>>

\* As with FBFT: the role policy appoints the master of a new height, and the
\* one GetConsensusResult reports stays after a failure or a view change.
RoundAfter(n, e) ==
    /\ events' = [events EXCEPT ![n] = @ \ {e}]
    /\ StartRound(n, IF e \in {"ConsensusFailed", "MasterChange"} THEN master[n]
                     ELSE RoleMaster(Height[tip[n]]))

NextRound(n) == \E e \in events[n] : RoundAfter(n, e)

\* ToConsensus receives a result from whichever waitResponse offers one, puts
\* its signatures on the block and leaves the rest to "go instance.commit".
DeliverResult(n) ==
    /\ policy[n] # None
    /\ \E w \in workers[n] :
          /\ w.pc = "send"
          /\ workers' = [workers EXCEPT ![n] = @ \ {w}]
          /\ committing' = [committing EXCEPT ![n] = @ \cup
                {[block |-> policy[n], result |-> w.ok, of |-> w.of]}]
    /\ policy' = [policy EXCEPT ![n] = None]
    /\ UNCHANGED <<master, signVars, blocked, replying, rounds, abandoned, events, ledgerVars,
                   signed, crashed, netVars>>

\* Faulty variant: only a waitResponse ends a round.
WaitTimeoutIdle(n) ==
    /\ policy[n] # None
    /\ workers[n] = {}
    /\ policy' = [policy EXCEPT ![n] = None]
    /\ committing' = [committing EXCEPT ![n] = @ \cup
          {[block |-> policy[n], result |-> FALSE, of |-> None]}]
    /\ UNCHANGED <<master, signVars, blocked, replying, rounds, abandoned, workers, events,
                   ledgerVars, signed, crashed, netVars>>

\* ToConsensus gives up; what still runs of the round is left behind.
WaitTimeout(n) ==
    /\ policy[n] # None
    /\ policy' = [policy EXCEPT ![n] = None]
    /\ committing' = [committing EXCEPT ![n] = @ \cup
          {[block |-> policy[n], result |-> FALSE, of |-> None]}]
    /\ abandoned' = [abandoned EXCEPT ![n] = @ \/ workers[n] # {}]
    /\ UNCHANGED <<master, signVars, blocked, replying, rounds, workers, events, ledgerVars,
                   signed, crashed, netVars>>

-----------------------------------------------------------------------------
(* receiveRequest and waitResponse *)

Advance(n, w, v) == workers' = [workers EXCEPT ![n] = (@ \ {w}) \cup {v}]

\* receiveRequest returns: not the master any more, or the block does not carry
\* its producer's signature or is not valid.
RequestRefused(n, w) ==
    /\ master[n] # n \/ w.block \in Unsigned \/ ~VerifyPayload(n, w.block)
    /\ workers' = [workers EXCEPT ![n] = @ \ {w}]
    /\ UNCHANGED <<signVars, signed>>

\* Faulty variant: the payload is not recorded.
RequestUnrecorded(n, w) ==
    /\ master[n] = n /\ w.block \notin Unsigned /\ VerifyPayload(n, w.block)
    /\ Advance(n, w, [w EXCEPT !.pc = "collect"])
    /\ signed' = signed \cup {<<n, w.block>>}
    /\ digest' = [digest EXCEPT ![n] = w.block]
    /\ AddSignature(n, n, w.block)
    /\ UNCHANGED <<commit, validator>>

\* receiveRequest signs the block and records it before it broadcasts it.
RequestAccepted(n, w) ==
    /\ master[n] = n /\ w.block \notin Unsigned /\ VerifyPayload(n, w.block)
    /\ Advance(n, w, [w EXCEPT !.pc = "collect"])
    /\ signed' = signed \cup {<<n, w.block>>}
    /\ validator' = [validator EXCEPT ![n] = @ \cup {w.block}]
    /\ digest' = [digest EXCEPT ![n] = w.block]
    /\ AddSignature(n, n, w.block)
    /\ UNCHANGED commit

\* broadcast, without the copy to itself, which the master ignores.
Proposals(n, b) == {[block |-> b, from |-> n, to |-> p, copy |-> 1] : p \in Peer(n)}

ReceiveRequest(n) ==
    /\ \E w \in workers[n] :
          /\ w.pc = "request"
          /\ \/ RequestRefused(n, w) /\ UNCHANGED proposals
             \/ RequestAccepted(n, w) /\ proposals' = proposals \cup Proposals(n, w.block)
    /\ UNCHANGED <<master, blocked, replying, callVars, committing, events, ledgerVars, crashed,
                   responses, commits>>

\* waitResponse takes a signal off the tunnel, which frees the handler, and
\* concludes once every peer's signature is there.
TakeTunnel(n) ==
    /\ blocked[n] > 0
    /\ blocked' = [blocked EXCEPT ![n] = @ - 1]
    /\ \E w \in workers[n] :
          /\ w.pc = "collect"
          /\ IF ReallySignature(n) = Node
             THEN Advance(n, w, [w EXCEPT !.pc = "lock", !.ok = TRUE, !.of = digest[n]])
             ELSE UNCHANGED workers
    /\ UNCHANGED <<master, signVars, replying, callVars, committing, events, ledgerVars, signed,
                   crashed, netVars>>

\* Its timer fires: whatever is there decides.
CollectTimeout(n) ==
    /\ \E w \in workers[n] :
          /\ w.pc = "collect"
          /\ Advance(n, w, [w EXCEPT !.pc = "lock", !.ok = MaybeCommit(n), !.of = digest[n]])
    /\ UNCHANGED <<master, signVars, blocked, replying, callVars, committing, events, ledgerVars,
                   signed, crashed, netVars>>

\* waitResponse gets the write lock when no handler holds the read lock.
SetCommitted(n) ==
    /\ blocked[n] = 0
    /\ \E w \in workers[n] : w.pc = "lock" /\ Advance(n, w, [w EXCEPT !.pc = "send"])
    /\ commit' = [commit EXCEPT ![n] = TRUE]
    /\ UNCHANGED <<master, digest, signMap, signatures, validator, blocked, replying, callVars,
                   committing, events, ledgerVars, signed, crashed, netVars>>

-----------------------------------------------------------------------------
(* Handlers of the other messages *)

\* receiveProposal up to its answer: what the master offers is verified, signed
\* and recorded.
SignProposal(n, b) ==
    /\ VerifyPayload(n, b)
    /\ signed' = signed \cup {<<n, b>>}
    /\ validator' = [validator EXCEPT ![n] = @ \cup {b}]
    /\ replying' = [replying EXCEPT ![n] = @ \cup {b}]

ReceiveProposal(n) ==
    \E m \in proposals :
        /\ m.to = n
        /\ Serving(n)
        /\ master[n] # n /\ m.from = master[n]
        /\ SignProposal(n, m.block)
        /\ proposals' = proposals \ {m}
        /\ UNCHANGED <<master, commit, digest, signMap, signatures, blocked, callVars, workers,
                       committing, events, ledgerVars, crashed, responses, commits>>

\* The end of receiveProposal: the answer goes to the master of this moment.
SendReply(n) ==
    \E b \in replying[n] :
        /\ replying' = [replying EXCEPT ![n] = @ \ {b}]
        /\ responses' = responses \cup {[block |-> b, from |-> n, to |-> master[n]]}
        /\ UNCHANGED <<master, signVars, blocked, callVars, workers, committing, events,
                       ledgerVars, signed, crashed, proposals, commits>>

\* receiveResponse: the first signature of another node is added, and the handler
\* waits on the tunnel with the read lock in its hands.
ReceiveResponse(n) ==
    \E m \in responses :
        /\ m.to = n
        /\ Serving(n)
        /\ ~commit[n]
        /\ master[n] = n /\ m.from # n
        /\ m.block = digest[n]
        /\ signMap[n][m.from] = None
        /\ AddSignature(n, m.from, m.block)
        /\ blocked' = [blocked EXCEPT ![n] = @ + 1]
        /\ responses' = responses \ {m}
        /\ UNCHANGED <<master, commit, digest, validator, replying, callVars, workers, committing,
                       events, ledgerVars, signed, crashed, proposals, commits>>

\* SendCommit of a failed round: tell the peers, then the upper layer.
CommitFailed(n, c) ==
    /\ ~c.result
    /\ Notify(n, "ConsensusFailed")
    /\ UNCHANGED <<chain, tip, crashed>>

\* commitBlock dereferences the validator's entry, which a block that
\* receiveRequest has not seen yet does not have.
CommitPanics(n, c) ==
    /\ c.result
    /\ Parent[c.block] \in chain[n] /\ c.block \notin validator[n]
    /\ crashed' = crashed \cup {n}
    /\ UNCHANGED <<chain, tip, events>>

\* SendCommit of a successful round: write the block, then tell the peers
\* whether or not the write went well.
CommitWritten(n, c) ==
    /\ c.result
    /\ c.block \in validator[n] \/ Parent[c.block] \notin chain[n]
    /\ WriteBlock(n, c.block)
    /\ UNCHANGED crashed

SendCommit(n) ==
    \E c \in committing[n] :
        /\ committing' = [committing EXCEPT ![n] = @ \ {c}]
        /\ \/ CommitPanics(n, c) /\ UNCHANGED commits
           \/ /\ CommitFailed(n, c) \/ CommitWritten(n, c)
              /\ commits' = commits \cup
                    {[block |-> c.block, from |-> n, to |-> p, result |-> c.result] : p \in Peer(n)}
        /\ UNCHANGED <<master, signVars, blocked, replying, callVars, workers, signed, proposals,
                       responses>>

\* Faulty variant: a block is stored on the word of the sender.
StoreUnseen(n, m) ==
    /\ m.result
    /\ Parent[m.block] \in chain[n]
    /\ WriteBlock(n, m.block)

\* receiveCommit: only a block this node has verified is stored.
StoreCommitted(n, m) ==
    /\ m.result
    /\ m.block \in validator[n] /\ Parent[m.block] \in chain[n]
    /\ WriteBlock(n, m.block)

\* The round of the sender failed: the upper layer hears of it, once an
\* Initialization has set the event centre.  Until then it is a nil dereference.
FailureTold(n, m) ==
    /\ ~m.result
    /\ UNCHANGED ledgerVars
    /\ \/ master[n] # Nobody /\ Notify(n, "ConsensusFailed") /\ UNCHANGED crashed
       \/ master[n] = Nobody /\ crashed' = crashed \cup {n} /\ UNCHANGED events

ReceiveCommit(n) ==
    \E m \in commits :
        /\ m.to = n
        /\ Serving(n)
        /\ commits' = commits \ {m}
        /\ FailureTold(n, m) \/ (StoreCommitted(n, m) /\ UNCHANGED crashed)
        /\ UNCHANGED <<master, signVars, blocked, replying, callVars, workers, committing, signed,
                       proposals, responses>>

-----------------------------------------------------------------------------
(* Specification *)

\* The current block of a repository.
Highest(S) == CHOOSE t \in S : \A b \in S : Height[b] <= Height[t]

\* Of an earlier life of the nodes only the repositories are left; every node
\* has signed what they hold.
BftInit ==
    /\ chain \in FirstChains
    /\ tip = [n \in Node |-> Highest(chain[n])]
    /\ signed = {v \in Node \X Block : \E n \in Node : v[2] \in chain[n]}
    /\ master = [n \in Node |-> Nobody]
    /\ commit = [n \in Node |-> FALSE]
    /\ digest = [n \in Node |-> None]
    /\ signMap = [n \in Node |-> [p \in Node |-> None]]
    /\ signatures = [n \in Node |-> 0]
    /\ validator = [n \in Node |-> {}]
    /\ blocked = [n \in Node |-> 0]
    /\ replying = [n \in Node |-> {}]
    /\ policy = [n \in Node |-> None]
    /\ rounds = [n \in Node |-> 0]
    /\ workers = [n \in Node |-> {}]
    /\ committing = [n \in Node |-> {}]
    /\ events = [n \in Node |-> {"Started"}]
    /\ abandoned = [n \in Node |-> FALSE]
    /\ crashed = {}
    /\ proposals = {}
    /\ responses = {}
    /\ commits = {}

\* The steps a node takes without the others.
Local(n) ==
    \/ NextRound(n) \/ DeliverResult(n) \/ WaitTimeout(n) \/ SendCommit(n)
    \/ ReceiveRequest(n) \/ TakeTunnel(n) \/ CollectTimeout(n) \/ SetCommitted(n)
    \/ SendReply(n)

Handle(n) == ReceiveProposal(n) \/ ReceiveResponse(n) \/ ReceiveCommit(n)

BftNext == \E n \in Node \ crashed : Local(n) \/ Handle(n)

\* The timer of ToConsensus fires and "go instance.commit" is scheduled; no
\* message has to arrive and no goroutine has to get its lock.
BftFairness ==
    \A n \in Node : WF_bftVars(n \notin crashed /\ WaitTimeout(n))
                 /\ WF_bftVars(n \notin crashed /\ SendCommit(n))

BftSpec == BftInit /\ [][BftNext]_bftVars /\ BftFairness

-----------------------------------------------------------------------------
(* Properties *)

\* Although receiveResponse and waitResponse may wait for each other for good,
\* a round that ToConsensus started ends with a notification, unless the
\* process ends or the repository has moved on under the block.
RoundAnnounced ==
    \A n \in Node : \A b \in Block :
        policy[n] = b ~> (events[n] # {} \/ n \in crashed \/ tip[n] # Parent[b])

\* A node stores no block that it has not verified and signed itself, however
\* late the commit comes and whatever was committed before.
StoredVerified ==
    \A n \in Node : \A b \in chain[n] \ {Genesis} : <<n, b>> \in signed

\* A stored block has a quorum of signatures, unless a node that signed it gave
\* up on an earlier round that was still running: then the result left over
\* from that round may have been put on this block.
CertifiedUnlessAbandoned ==
    \A n \in Node : \A b \in chain[n] \ {Genesis} :
        Vote!Certified(b) \/ \E m \in Vote!Signers(b) : abandoned[m]

\* commitBlock meets a block without a validator entry only after such a round;
\* the other processes that end are those told of a failure before their first
\* Initialization.
CrashOnlyAbandoned == \A n \in crashed : abandoned[n] \/ master[n] = Nobody

\* As long as no ToConsensus has given up on a running round, the policy is the
\* voting protocol: blocks are signed on top of a stored parent, and stored on
\* the current block with a quorum of signatures.
VotingStep ==
    (\A n \in Node : ~abandoned'[n]) => [Vote!Next]_<<signed, chain, tip>>

VotesUnlessAbandoned == [][VotingStep]_bftVars

\* The parts of the inductive invariant behind the last four.  Whatever is
\* collected, under way or verified was signed by its node for that block.
SignaturesMade ==
    /\ \A n, p \in Node : signMap[n][p] # None => <<p, signMap[n][p]>> \in signed
    /\ \A m \in responses : <<m.from, m.block>> \in signed
    /\ \A n \in Node : \A b \in validator[n] \cup replying[n] : <<n, b>> \in signed

\* A success was counted on a quorum's signatures of one block; as long as no
\* round was abandoned, one round runs at a time and it is its block.
WorkersCurrent ==
    \A n \in Node : \A w \in workers[n] :
        /\ w.ok => Vote!Certified(w.of) /\ w.pc \in {"lock", "send"}
        /\ \/ abandoned[n]
           \/ /\ workers[n] = {w}
              /\ w.block = policy[n]
              /\ w.pc # "request" => w.block \in validator[n] /\ digest[n] = w.block
              /\ w.ok => w.of = w.block

\* So is a success on its way to the repositories, and its sender signed it.
OutcomesCertified ==
    /\ \A n \in Node : policy[n] # None => Parent[policy[n]] \in chain[n]
    /\ \A n \in Node : \A c \in committing[n] :
          /\ Parent[c.block] \in chain[n]
          /\ c.result => \/ abandoned[n]
                         \/ Vote!Certified(c.block) /\ c.block \in validator[n]
    /\ \A m \in commits : m.result =>
          \/ Vote!Certified(m.block)
          \/ abandoned[m.from] /\ <<m.from, m.block>> \in signed

Ledger ==
    /\ \A n \in Node : tip[n] \in chain[n]
    /\ StoredVerified
    /\ CertifiedUnlessAbandoned

\* What the rounds rely on: signatures, results and stored blocks belong
\* together until a round is abandoned, and the damage is bounded after that.
RoundInv == BftTypeOK /\ SignaturesMade /\ WorkersCurrent /\ OutcomesCertified /\ Ledger
=============================================================================
