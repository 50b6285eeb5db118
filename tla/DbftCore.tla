------------------------------ MODULE DbftCore ------------------------------
(***************************************************************************)
(* The DBFT policy of galaxy (consensus/policy/dbft): the rounds of BFT,   *)
(* whose code it repeats, with a timer on the master, view changes and     *)
(* block synchronisation.  Every connection has a goroutine of its own, so *)
(* Serial is FALSE here.                                                   *)
(*                                                                         *)
(* receiveChangeViewReq runs concurrently with itself.  A handler is       *)
(*   "enter"     past the comparison of view numbers in handleClient,      *)
(*   "count"     past the check that the view change is not over yet,      *)
(*   "lock"      waiting for the write lock to end the view change,        *)
(*   "announce"  done with counting, before the last check.                *)
(* Updates of one requestNodes slice are taken to be atomic.               *)
(***************************************************************************)
EXTENDS BftCore

CONSTANTS
    OnLineFirst, \* nodes whose first Initialization may be with onLine: no timer
    MaxView,     \* bound: view numbers that are asked for
    Impatient    \* bound: <<node, its current block>> with which a timer fires,
                 \* once for a view

ASSUME DbftAssumption ==
    /\ ~Serial
    /\ OnLineFirst \subseteq Node
    /\ MaxView \in Nat
    /\ Impatient \subseteq Node \X AnyBlock

View == 1 .. MaxView

VARIABLES
    timer,       \* masterTimeout: "nil", "armed" or "off"
    stray,       \* number of armed timers that masterTimeout no longer refers to
    view,        \* views.viewNum
    changing,    \* views.status = ViewChanging
    viewSets,    \* views.viewSets
    handlers,    \* running receiveChangeViewReq
    fired,       \* history: <<node, view>> a timeout asked for
    asking,      \* receiveProposal handlers that have still to ask for blocks
    viewReqs, syncReqs, syncResps   \* more of the network

timerVars == <<timer, stray>>
viewVars == <<view, changing, viewSets, handlers, fired, viewReqs>>
syncVars == <<asking, syncReqs, syncResps>>
dbftVars == <<bftVars, timerVars, viewVars, syncVars>>

-----------------------------------------------------------------------------
(* Types *)

\* viewNumStatus: status is ViewEnd, notify, and whether a handler that
\* returned early has left its read lock behind.
ViewSet == [nodes : SUBSET Node, ended : BOOLEAN, notified : BOOLEAN, leaked : BOOLEAN]
Handler == [view : View, nodes : SUBSET Node, pc : {"enter", "count", "lock", "announce"}]
ViewReq == [view : View, nodes : SUBSET Node, to : Node]
\* "proposer" is a history: the master that was checked before the master was
\* asked.
Ask == [first : Nat, last : Nat, proposer : Node]
SyncReq == [from : Node, to : Account, first : Nat, last : Nat, proposer : Node]
SyncResp == [to : Node, first : Nat, last : Nat]

DbftTypeOK ==
    /\ BftTypeOK
    /\ timer \in [Node -> {"nil", "armed", "off"}]
    /\ stray \in [Node -> Nat]
    /\ view \in [Node -> 0 .. MaxView]
    /\ changing \in [Node -> BOOLEAN]
    /\ viewSets \in [Node -> [View -> ViewSet]]
    /\ handlers \in [Node -> SUBSET Handler]
    /\ fired \subseteq Node \X View
    /\ viewReqs \subseteq ViewReq
    /\ asking \in [Node -> SUBSET Ask]
    /\ syncReqs \subseteq SyncReq
    /\ syncResps \subseteq SyncResp

-----------------------------------------------------------------------------
(* Rounds: dbft.go, and the handlers BFT has as well *)

StopTimer(n) ==
    /\ timer[n] # "nil"
    /\ timer' = [timer EXCEPT ![n] = "off"]
    /\ UNCHANGED stray

\* Stopping a timer that no Initialization has made yet is a nil dereference.
TimerPanics(n) ==
    /\ timer[n] = "nil"
    /\ crashed' = crashed \cup {n}
    /\ UNCHANGED timerVars

\* Initialization: a new timer, whether or not the old one has been stopped.
NewTimer(n) ==
    /\ timer' = [timer EXCEPT ![n] = "armed"]
    /\ stray' = [stray EXCEPT ![n] = IF timer[n] = "armed" THEN @ + 1 ELSE @]

DbftNextRound(n) ==
    /\ \E e \in events[n] :
          /\ RoundAfter(n, e)
          /\ NewTimer(n) \/ (e = "Started" /\ n \in OnLineFirst /\ UNCHANGED timerVars)
    /\ UNCHANGED <<viewVars, syncVars>>

\* The proposal goes to everyone, the sender included, and then to the others
\* once more.
DbftProposals(n, b) ==
    {[block |-> b, from |-> n, to |-> p, copy |-> 1] : p \in Node} \cup
    {[block |-> b, from |-> n, to |-> p, copy |-> 2] : p \in Peer(n)}

DbftReceiveRequest(n) ==
    /\ \E w \in workers[n] :
          /\ w.pc = "request"
          /\ \/ TimerPanics(n) /\ UNCHANGED <<workers, signVars, signed, proposals>>
             \/ /\ StopTimer(n) /\ UNCHANGED crashed
                /\ RequestRefused(n, w) /\ UNCHANGED proposals
             \/ /\ StopTimer(n) /\ UNCHANGED crashed
                /\ RequestAccepted(n, w)
                /\ proposals' = proposals \cup DbftProposals(n, w.block)
    /\ UNCHANGED <<master, blocked, replying, callVars, committing, events, ledgerVars, responses,
                   commits, viewVars, syncVars>>

DbftToConsensus(n) == (DeliverResult(n) \/ WaitTimeout(n)) /\ UNCHANGED <<timerVars, viewVars, syncVars>>

DbftWaitResponse(n) ==
    /\ TakeTunnel(n) \/ CollectTimeout(n) \/ SetCommitted(n)
    /\ UNCHANGED <<timerVars, viewVars, syncVars>>

DbftReceiveResponse(n) == ReceiveResponse(n) /\ UNCHANGED <<timerVars, viewVars, syncVars>>
DbftSendReply(n) == SendReply(n) /\ UNCHANGED <<timerVars, viewVars, syncVars>>
DbftSendCommit(n) == SendCommit(n) /\ UNCHANGED <<timerVars, viewVars, syncVars>>
DbftReceiveCommit(n) == ReceiveCommit(n) /\ UNCHANGED <<timerVars, viewVars, syncVars>>

-----------------------------------------------------------------------------
(* Proposals and block synchronisation *)

\* The master's own copy, a block this node is past already or one that is not
\* valid: nothing but the timer.
ProposalIgnored(n, m) ==
    /\ \/ master[n] = n
       \/ Height[m.block] <= Height[tip[n]]
       \/ Height[m.block] = Height[tip[n]] + 1 /\ ~VerifyPayload(n, m.block)
    /\ UNCHANGED <<signed, validator, replying, asking>>

\* Faulty variant: the proposed block is asked for as well.
AskProposed(n, m) ==
    /\ master[n] # n
    /\ Height[m.block] > Height[tip[n]] + 1
    /\ asking' = [asking EXCEPT ![n] = @ \cup
          {[first |-> Height[tip[n]] + 1, last |-> Height[m.block], proposer |-> m.from]}]
    /\ UNCHANGED <<signed, validator, replying>>

\* Blocks are missing: they are to be asked for.
AskMissing(n, m) ==
    /\ master[n] # n
    /\ Height[m.block] > Height[tip[n]] + 1
    /\ asking' = [asking EXCEPT ![n] = @ \cup
          {[first |-> Height[tip[n]] + 1, last |-> Height[m.block] - 1, proposer |-> m.from]}]
    /\ UNCHANGED <<signed, validator, replying>>

ProposalSigned(n, m) ==
    /\ master[n] # n
    /\ Height[m.block] = Height[tip[n]] + 1
    /\ SignProposal(n, m.block)
    /\ UNCHANGED asking

\* receiveProposal up to its answer, for a proposal of the master.
DbftReceiveProposal(n) ==
    \E m \in proposals :
        /\ m.to = n /\ m.from = master[n]
        /\ proposals' = proposals \ {m}
        /\ \/ TimerPanics(n) /\ UNCHANGED <<signed, validator, replying, asking>>
           \/ /\ StopTimer(n) /\ UNCHANGED crashed
              /\ ProposalIgnored(n, m) \/ AskMissing(n, m) \/ ProposalSigned(n, m)
        /\ UNCHANGED <<master, commit, digest, signMap, signatures, blocked, callVars, workers,
                       committing, events, ledgerVars, responses, commits, viewVars, syncReqs,
                       syncResps>>

\* Whoever is master by then is asked.
SendSyncBlockReq(n) ==
    \E a \in asking[n] :
        /\ asking' = [asking EXCEPT ![n] = @ \ {a}]
        /\ syncReqs' = syncReqs \cup {[from |-> n, to |-> master[n], first |-> a.first,
                                      last |-> a.last, proposer |-> a.proposer]}
        /\ UNCHANGED <<bftVars, timerVars, viewVars, syncResps>>

\* receiveSyncBlockReq: it panics on a height that it does not have.
ReceiveSyncBlockReq(n) ==
    \E m \in syncReqs :
        /\ m.to = n
        /\ syncReqs' = syncReqs \ {m}
        /\ \/ /\ m.last <= Height[tip[n]]
              /\ syncResps' = syncResps \cup {[to |-> m.from, first |-> m.first, last |-> m.last]}
              /\ UNCHANGED crashed
           \/ /\ m.last > Height[tip[n]]
              /\ crashed' = crashed \cup {n}
              /\ UNCHANGED syncResps
        /\ UNCHANGED <<master, signVars, blocked, replying, callVars, workers, committing, events,
                       ledgerVars, signed, netVars, timerVars, viewVars, asking>>

\* The answer is sent as a SyncBlockResp and decoded into a
\* SyncBlockRespMessage, which leaves its pointer nil; ProcessEvent
\* dereferences it to log the number of blocks.
ReceiveSyncBlockResp(n) ==
    \E m \in syncResps :
        /\ m.to = n
        /\ syncResps' = syncResps \ {m}
        /\ crashed' = crashed \cup {n}
        /\ UNCHANGED <<master, signVars, blocked, replying, callVars, workers, committing, events,
                       ledgerVars, signed, netVars, timerVars, viewVars, asking, syncReqs>>

-----------------------------------------------------------------------------
(* View changes *)

\* waitMasterTimeOut, of the current timer or of one that has been replaced.
WaitMasterTimeOut(n) ==
    /\ <<n, tip[n]>> \in Impatient
    /\ view[n] + 1 \in View /\ <<n, view[n] + 1>> \notin fired
    /\ \/ /\ timer[n] = "armed"
          /\ timer' = [timer EXCEPT ![n] = "off"]
          /\ UNCHANGED stray
       \/ /\ stray[n] > 0
          /\ stray' = [stray EXCEPT ![n] = @ - 1]
          /\ UNCHANGED timer
    /\ fired' = fired \cup {<<n, view[n] + 1>>}
    /\ viewReqs' = viewReqs \cup {[view |-> view[n] + 1, nodes |-> {n}, to |-> p] : p \in Node}
    /\ UNCHANGED <<bftVars, view, changing, viewSets, handlers, syncVars>>

\* handleClient: only a request for a later view is handled.
AcceptChangeViewReq(n) ==
    \E m \in viewReqs :
        /\ m.to = n
        /\ view[n] < m.view
        /\ viewReqs' = viewReqs \ {m}
        /\ handlers' = [handlers EXCEPT ![n] = @ \cup
              {[view |-> m.view, nodes |-> m.nodes, pc |-> "enter"]}]
        /\ UNCHANGED <<bftVars, timerVars, view, changing, viewSets, fired, syncVars>>

Done(n, h) == handlers' = [handlers EXCEPT ![n] = @ \ {h}]
Goto(n, h, pc) == handlers' = [handlers EXCEPT ![n] = (@ \ {h}) \cup {[h EXCEPT !.pc = pc]}]

\* A read lock is not to be had while a writer waits for a leaked one.
RLock(n, v) ==
    viewSets[n][v].leaked => ~\E h \in handlers[n] : h.view = v /\ h.pc = "lock"

EnterPanics(n, h) ==
    /\ TimerPanics(n)
    /\ Done(n, h)
    /\ UNCHANGED <<changing, viewSets>>

\* The view change is over: the handler returns with the read lock.
EnterLate(n, h) ==
    /\ StopTimer(n)
    /\ changing[n] \/ view[n] < h.view
    /\ changing' = [changing EXCEPT ![n] = TRUE]
    /\ RLock(n, h.view)
    /\ viewSets[n][h.view].ended
    /\ viewSets' = [viewSets EXCEPT ![n][h.view].leaked = TRUE]
    /\ Done(n, h)
    /\ UNCHANGED crashed

EnterCounts(n, h) ==
    /\ StopTimer(n)
    /\ changing[n] \/ view[n] < h.view
    /\ changing' = [changing EXCEPT ![n] = TRUE]
    /\ RLock(n, h.view)
    /\ ~viewSets[n][h.view].ended
    /\ Goto(n, h, "count")
    /\ UNCHANGED <<viewSets, crashed>>

EnterChangeViewReq(n) ==
    /\ \E h \in handlers[n] :
          h.pc = "enter" /\ (EnterPanics(n, h) \/ EnterLate(n, h) \/ EnterCounts(n, h))
    /\ UNCHANGED <<master, signVars, blocked, replying, callVars, workers, committing, events,
                   ledgerVars, signed, netVars, view, fired, viewReqs, syncVars>>

\* sendChangeViewReq: what has been counted goes to the others.
SendChangeViewReq(n, v, S) ==
    viewReqs' = IF Cardinality(S) > 1
                THEN viewReqs \cup {[view |-> v, nodes |-> S, to |-> p] : p \in Peer(n)}
                ELSE viewReqs

\* Faulty variant: the request is taken for the one of every peer.
CountAll(n, h) == Node

\* Faulty variant: the receiver does not join.
CountOthers(n, h) == viewSets[n][h.view].nodes \cup h.nodes

\* The receiver joins the nodes of the request.
Count(n, h) == viewSets[n][h.view].nodes \cup {n} \cup h.nodes

CountChangeViewReq(n) ==
    /\ \E h \in handlers[n] :
          /\ h.pc = "count"
          /\ viewSets' = [viewSets EXCEPT ![n][h.view].nodes = Count(n, h)]
          /\ \/ /\ Cardinality(Count(n, h)) >= Quorum
                /\ master' = [master EXCEPT ![n] = AccountWithMinId(Count(n, h))]
                /\ Goto(n, h, "lock")
                /\ UNCHANGED viewReqs
             \/ /\ Cardinality(Count(n, h)) < Quorum
                /\ SendChangeViewReq(n, h.view, Count(n, h))
                /\ Goto(n, h, "announce")
                /\ UNCHANGED master
    /\ UNCHANGED <<signVars, blocked, replying, callVars, workers, committing, events, ledgerVars,
                   signed, crashed, netVars, timerVars, view, changing, fired, syncVars>>

\* Faulty variant: the handler returns without the last check.
EndAndReturn(n) ==
    /\ \E h \in handlers[n] :
          /\ h.pc = "lock"
          /\ ~viewSets[n][h.view].leaked
          /\ viewSets' = [viewSets EXCEPT ![n][h.view].ended = TRUE]
          /\ view' = [view EXCEPT ![n] = h.view]
          /\ SendChangeViewReq(n, h.view, viewSets[n][h.view].nodes)
          /\ Done(n, h)
    /\ UNCHANGED <<bftVars, timerVars, changing, fired, syncVars>>

\* With the write lock: the view change is over.
EndChangeView(n) ==
    /\ \E h \in handlers[n] :
          /\ h.pc = "lock"
          /\ ~viewSets[n][h.view].leaked
          /\ viewSets' = [viewSets EXCEPT ![n][h.view].ended = TRUE]
          /\ view' = [view EXCEPT ![n] = h.view]
          /\ SendChangeViewReq(n, h.view, viewSets[n][h.view].nodes)
          /\ Goto(n, h, "announce")
    /\ UNCHANGED <<bftVars, timerVars, changing, fired, syncVars>>

\* The upper layer is told once.
AnnounceChangeView(n) ==
    /\ \E h \in handlers[n] :
          LET s == viewSets[n][h.view]
          IN  /\ h.pc = "announce"
              /\ RLock(n, h.view)
              /\ Done(n, h)
              /\ \/ /\ s.ended /\ ~s.notified
                    /\ Notify(n, "MasterChange")
                    /\ viewSets' = [viewSets EXCEPT ![n][h.view].notified = TRUE]
                    /\ StopTimer(n)
                 \/ /\ ~s.ended \/ s.notified
                    /\ UNCHANGED <<events, viewSets, timerVars>>
    /\ UNCHANGED <<master, signVars, blocked, replying, callVars, workers, committing, ledgerVars,
                   signed, crashed, netVars, view, changing, fired, viewReqs, syncVars>>

-----------------------------------------------------------------------------
(* Specification *)

DbftInit ==
    /\ BftInit
    /\ timer = [n \in Node |-> "nil"]
    /\ stray = [n \in Node |-> 0]
    /\ view = [n \in Node |-> 0]
    /\ changing = [n \in Node |-> FALSE]
    /\ viewSets = [n \in Node |-> [v \in View |->
          [nodes |-> {}, ended |-> FALSE, notified |-> FALSE, leaked |-> FALSE]]]
    /\ handlers = [n \in Node |-> {}]
    /\ fired = {}
    /\ asking = [n \in Node |-> {}]
    /\ viewReqs = {}
    /\ syncReqs = {}
    /\ syncResps = {}

Round(n) ==
    \/ DbftNextRound(n) \/ DbftReceiveRequest(n) \/ DbftToConsensus(n) \/ DbftWaitResponse(n)
    \/ DbftReceiveProposal(n) \/ DbftSendReply(n) \/ DbftReceiveResponse(n) \/ DbftSendCommit(n)
    \/ DbftReceiveCommit(n)

Sync(n) == SendSyncBlockReq(n) \/ ReceiveSyncBlockReq(n) \/ ReceiveSyncBlockResp(n)

ChangeView(n) ==
    \/ AcceptChangeViewReq(n) \/ EnterChangeViewReq(n) \/ CountChangeViewReq(n)
    \/ EndChangeView(n) \/ AnnounceChangeView(n)

DbftNext == \E n \in Node \ crashed : Round(n) \/ Sync(n) \/ WaitMasterTimeOut(n) \/ ChangeView(n)

\* View-change requests reach their addressees and goroutines are scheduled.
DbftFairness ==
    \A n \in Node :
        /\ WF_dbftVars(n \notin crashed /\ AcceptChangeViewReq(n))
        /\ WF_dbftVars(n \notin crashed /\ EnterChangeViewReq(n))
        /\ WF_dbftVars(n \notin crashed /\ CountChangeViewReq(n))
        /\ WF_dbftVars(n \notin crashed /\ EndChangeView(n))
        /\ WF_dbftVars(n \notin crashed /\ AnnounceChangeView(n))

DbftSpec == DbftInit /\ [][DbftNext]_dbftVars /\ DbftFairness

-----------------------------------------------------------------------------
(* Properties *)

Joined(v) == {q \in Node : <<q, v>> \in fired \/ q \in viewSets[q][v].nodes}
Backed(S, v) == S \subseteq Joined(v) /\ (S # {} => \E q \in Node : <<q, v>> \in fired)

\* A node is counted for a view, here or in a request under way, only if its
\* own timer has asked for that view or it has handled a request for it; and
\* some timer has.
CountedAsked ==
    /\ \A n \in Node : \A v \in View : Backed(viewSets[n][v].nodes, v)
    /\ \A m \in viewReqs : Backed(m.nodes, m.view)

\* A node is in a view only if a quorum has joined it: each of them has timed out
\* on the view before, or has handled a request that goes back to such a timeout.
ViewBacked == \A n \in Node : view[n] # 0 => Cardinality(Joined(view[n])) >= Quorum

\* The node whose proposal showed that blocks are missing has them: as long as
\* it is the one that is asked, receiveSyncBlockReq does not panic.
SyncServable == \A m \in syncReqs : m.to = m.proposer => m.last <= Height[tip[m.to]]

\* A timeout anywhere is followed by the end of the view change at every node
\* that is still running, or by a later view there, whatever rounds go on
\* meanwhile, unless too many have crashed.
TimeoutFollowed ==
    \A n \in Node : \A v \in View :
        (\E p \in Node : <<p, v>> \in fired) ~>
            (view[n] >= v \/ viewSets[n][v].ended \/ n \in crashed
             \/ Cardinality(crashed) > Tolerance)

\* The upper layer hears of a view change that is over, unless a handler that
\* came late has left its read lock behind.
AnnouncedUnlessLeaked ==
    \A n \in Node : \A v \in View :
        viewSets[n][v].ended ~>
            (viewSets[n][v].notified \/ viewSets[n][v].leaked \/ n \in crashed)

\* The rounds of DBFT are the voting protocol as those of BFT are, with masters
\* that change under them.
DbftVotesUnlessAbandoned == [][VotingStep]_dbftVars

\* Violated: an answer to a request for blocks leaves the process alive.
SyncSurvived == [][\A m \in syncResps \ syncResps' : m.to \notin crashed']_dbftVars

\* The inductive invariant behind these: requests for a view are those of
\* somebody, in a handler as on the way; what is proposed extends the chain of
\* its sender, who therefore has what is asked for below it; and a repository
\* holds nothing above its current block.
RequestsBacked ==
    /\ \A m \in viewReqs : m.nodes # {}
    /\ \A n \in Node : \A h \in handlers[n] : h.nodes # {} /\ Backed(h.nodes, h.view)

ProposalsBuilt ==
    /\ \A m \in proposals : Parent[m.block] \in chain[m.from]
    /\ \A n \in Node : \A b \in chain[n] : Height[b] <= Height[tip[n]]

AsksBuilt ==
    \A a \in syncReqs \cup UNION {asking[n] : n \in Node} : a.last <= Height[tip[a.proposer]]

\* A view change is over, or a handler waits for the lock to end it.
Ending(n, v) ==
    viewSets[n][v].ended \/ \E h \in handlers[n] : h.view = v /\ h.pc = "lock"

\* It has counted a quorum then, and a node is in a view whose change is over.
ViewsCounted ==
    \A n \in Node :
        /\ \A v \in View : Ending(n, v) => Cardinality(viewSets[n][v].nodes) >= Quorum
        /\ view[n] # 0 => viewSets[n][view[n]].ended

BaseInv ==
    DbftTypeOK /\ RoundInv /\ CountedAsked /\ RequestsBacked /\ ProposalsBuilt /\ AsksBuilt

DbftInv == BaseInv /\ ViewsCounted
=============================================================================
