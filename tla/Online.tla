------------------------------- MODULE Online -------------------------------
(***************************************************************************)
(* How the nodes of an FBFT network come online: sendOnlineRequest,        *)
(* receiveOnlineRequest and receiveOnlineResponse of fbft-core.go, and the *)
(* OnlineWizard of plugin.go that counts, per block height, the nodes that *)
(* reported this height.                                                   *)
(*                                                                         *)
(* Blocks are not produced meanwhile, so the height of a node is constant. *)
(* The nodes in Running have come online at genesis before; the others are *)
(* starting, with the view number 0 of a fresh process.  At genesis nodes  *)
(* forward the list they have counted so far, above it they only report    *)
(* themselves.  A message is handled at most once; one that is never       *)
(* handled is lost.                                                        *)
(***************************************************************************)
EXTENDS Peers

CONSTANTS
    CurrentHeight,   \* GetCurrentBlockHeight of each node
    Running,         \* nodes that are online already
    FirstMaster,     \* nodes.master as the upper layer or a view change left it
    FirstView,       \* viewChange.currentView, 0 for a starting node
    Down             \* nodes that are down

Default == 0         \* DefaultBlockHeight and DefaultViewNum

ASSUME OnlineAssumption ==
    /\ CurrentHeight \in [Node -> Nat]
    /\ Running \subseteq Node
    /\ FirstMaster \in [Node -> Node]
    /\ FirstView \in [Node -> Nat]
    /\ \A n \in Node \ Running : FirstView[n] = Default
    /\ Down \subseteq Node \ Running
    /\ Running # {} => Cardinality(Node \ Down) >= Quorum

VARIABLES
    master,      \* nodes.master
    view,        \* viewChange.currentView
    wizard,      \* onlineWizard
    started,     \* nodes whose upper layer has called Online
    crashed,     \* nodes whose process a panic has ended
    notified,    \* history: the heights EventOnline was announced for
    announced,   \* history: <<node, height>> the node has sent for itself
    sync,        \* blockSyncChan
    reqs, resps  \* the network

netVars == <<reqs, resps>>
nodeVars == <<master, view, wizard, notified>>
vars == <<nodeVars, started, crashed, announced, sync, netVars>>

AnyHeight == {CurrentHeight[n] : n \in Node} \cup {Default}
AnyView == {FirstView[n] : n \in Node} \cup {Default}
ResponseNodes == [nodes : SUBSET Node, master : Node, view : AnyView]
Wizard == [blockHeight : AnyHeight, response : [AnyHeight -> ResponseNodes]]
OnlineRequest == [from : Node, to : Node, height : AnyHeight]
OnlineResponse == [from : Node, to : Node, height : AnyHeight, nodes : SUBSET Node,
                   master : Node, view : AnyView]
SyncRequest == [end : AnyHeight, target : Node]

OnlineTypeOK ==
    /\ master \in [Node -> Node]
    /\ view \in [Node -> AnyView]
    /\ wizard \in [Node -> Wizard]
    /\ started \subseteq Node
    /\ crashed \subseteq Node
    /\ notified \in [Node -> SUBSET AnyHeight]
    /\ announced \subseteq Node \X AnyHeight
    /\ sync \in [Node -> SUBSET SyncRequest]
    /\ reqs \subseteq OnlineRequest
    /\ resps \subseteq OnlineResponse

-----------------------------------------------------------------------------
(* OnlineWizard.  A height without an entry has no nodes: every call adds    *)
(* at least one.                                                             *)

NoNodes == [nodes |-> {}, master |-> 0, view |-> Default]

\* Faulty variant: one node too few.
IsOnlineEarly(w, h) == Cardinality(w.response[h].nodes) >= Quorum - 1

\* ResponseNodes.state is Online.
IsOnline(w, h) == Cardinality(w.response[h].nodes) >= Quorum

\* Faulty variant: the masters are not compared.
ViewNotAbove(w, h, m, v) ==
    LET r == w.response[h]
    IN  r.nodes # {} /\ h <= w.blockHeight /\ r.view >= v

\* Faulty variant: masters that disagree are never noticed.
MasterNeverDisagrees(w, h, m, v) == FALSE

\* AddOnlineResponse gives up ("master not in agreement"): the entry has
\* another master, and the caller's view is not above the entry's.
MasterDisagrees(w, h, m, v) ==
    LET r == w.response[h]
    IN  r.nodes # {} /\ h <= w.blockHeight /\ r.master # m /\ r.view >= v

\* AddOnlineResponse otherwise: the entry's master is then the caller's.
AddOnlineResponse(w, h, nodes, m, v) ==
    [blockHeight |-> IF h > w.blockHeight THEN h ELSE w.blockHeight,
     response |-> [w.response EXCEPT ![h] =
         [nodes |-> @.nodes \cup nodes, master |-> m, view |-> IF @.view < v THEN v ELSE @.view]]]

-----------------------------------------------------------------------------
(* Handlers *)

Peer(n) == Node \ {n}

\* A panic in any goroutine ends the process.
Panic(n) ==
    /\ crashed' = crashed \cup {n}
    /\ UNCHANGED <<nodeVars, announced, resps>>

\* sendOnlineRequest: at genesis a node counts itself first.
SendOnlineRequest(n) ==
    LET h == CurrentHeight[n]
        added == AddOnlineResponse(wizard[n], h, {n}, master[n], view[n])
        reported == IF wizard[n].blockHeight > h THEN wizard[n].blockHeight ELSE h
    IN  /\ n \notin started \cup Running
        /\ started' = started \cup {n}
        /\ \/ /\ h = Default /\ MasterDisagrees(wizard[n], h, master[n], view[n])
              /\ Panic(n)
              /\ UNCHANGED reqs
           \/ /\ h = Default => ~MasterDisagrees(wizard[n], h, master[n], view[n])
              /\ wizard' = IF h = Default THEN [wizard EXCEPT ![n] = added] ELSE wizard
              /\ notified' = IF h = Default /\ IsOnline(added, reported)
                             THEN [notified EXCEPT ![n] = @ \cup {reported}] ELSE notified
              /\ announced' = announced \cup {<<n, h>>}
              /\ reqs' = reqs \cup {[from |-> n, to |-> p, height |-> h] : p \in Peer(n)}
              /\ UNCHANGED <<master, view, crashed, resps>>
        /\ UNCHANGED sync

Report(n, to, nodes) ==
    [from |-> n, to |-> to, height |-> CurrentHeight[n], nodes |-> nodes,
     master |-> master[n], view |-> view[n]]

\* "not online first time, so just return result".
Answer(n, m) ==
    /\ CurrentHeight[n] # Default \/ IsOnline(wizard[n], Default)
    /\ announced' = announced \cup {<<n, CurrentHeight[n]>>}
    /\ resps' = resps \cup {Report(n, m.from, {n})}
    /\ UNCHANGED <<nodeVars, crashed>>

\* "init online, so broadcast it": count oneself and the sender, if it is at
\* genesis too, and report everybody counted so far.
AnswerAtGenesis(n, m) ==
    LET accounts == IF m.height = Default THEN {n, m.from} ELSE {n}
        added == AddOnlineResponse(wizard[n], Default, accounts, master[n], view[n])
    IN  /\ CurrentHeight[n] = Default /\ ~IsOnline(wizard[n], Default)
        /\ ~MasterDisagrees(wizard[n], Default, master[n], view[n])
        /\ wizard' = [wizard EXCEPT ![n] = added]
        /\ notified' = IF IsOnline(added, Default)
                       THEN [notified EXCEPT ![n] = @ \cup {Default}] ELSE notified
        /\ announced' = announced \cup {<<n, Default>>}
        /\ resps' = resps \cup {Report(n, p, added.response[Default].nodes) : p \in Peer(n)}
        /\ UNCHANGED <<master, view, crashed>>

AnswerPanics(n) ==
    /\ CurrentHeight[n] = Default /\ ~IsOnline(wizard[n], Default)
    /\ MasterDisagrees(wizard[n], Default, master[n], view[n])
    /\ Panic(n)

\* receiveOnlineRequest: ask for the blocks the sender is ahead, then answer.
ReceiveOnlineRequest(n) ==
    \E m \in reqs :
        /\ m.to = n
        /\ reqs' = reqs \ {m}
        /\ sync' = IF CurrentHeight[n] < m.height
                   THEN [sync EXCEPT ![n] = @ \cup {[end |-> m.height, target |-> m.from]}]
                   ELSE sync
        /\ Answer(n, m) \/ AnswerAtGenesis(n, m) \/ AnswerPanics(n)
        /\ UNCHANGED started

\* receiveOnlineResponse of a lower height: a synchronisation request up to
\* that height, which the node has already passed, and nothing else.
ResponseBelow(n, m) ==
    /\ m.height < CurrentHeight[n]
    /\ sync' = [sync EXCEPT ![n] = @ \cup {[end |-> m.height, target |-> m.from]}]
    /\ resps' = resps \ {m}
    /\ UNCHANGED <<nodeVars, crashed, announced>>

\* Faulty variant: a node that is online does not ignore the response.
ResponsePanicsOnline(n, m) ==
    /\ m.height >= CurrentHeight[n]
    /\ MasterDisagrees(wizard[n], m.height, m.master, m.view)
    /\ crashed' = crashed \cup {n}
    /\ resps' = resps \ {m}
    /\ UNCHANGED <<nodeVars, announced, sync>>

ResponsePanics(n, m) ==
    /\ m.height >= CurrentHeight[n]
    /\ ~IsOnline(wizard[n], m.height)
    /\ MasterDisagrees(wizard[n], m.height, m.master, m.view)
    /\ crashed' = crashed \cup {n}
    /\ resps' = resps \ {m}
    /\ UNCHANGED <<nodeVars, announced, sync>>

\* Faulty variant: a node that is told the others' list adds itself to it.
ResponseCountedSelf(n, m) ==
    LET added == AddOnlineResponse(wizard[n], m.height, m.nodes \cup {n}, m.master, m.view)
    IN  /\ m.height >= CurrentHeight[n]
        /\ ~IsOnline(wizard[n], m.height)
        /\ ~MasterDisagrees(wizard[n], m.height, m.master, m.view)
        /\ wizard' = [wizard EXCEPT ![n] = added]
        /\ \/ /\ IsOnline(added, m.height)
              /\ view' = [view EXCEPT ![n] = m.view]
              /\ master' = [master EXCEPT ![n] = m.master]
              /\ notified' = [notified EXCEPT ![n] = @ \cup {m.height}]
           \/ ~IsOnline(added, m.height) /\ UNCHANGED <<view, master, notified>>
        /\ resps' = resps \ {m}
        /\ UNCHANGED <<crashed, announced, sync>>

\* receiveOnlineResponse: count the reported nodes, come online with the
\* master and the view of this response if there are enough, and at genesis
\* forward the list (the forwarded response carries no view number).
ResponseCounted(n, m) ==
    LET added == AddOnlineResponse(wizard[n], m.height, m.nodes, m.master, m.view)
        forwarded(p) == [from |-> n, to |-> p, height |-> m.height, master |-> m.master,
                         nodes |-> added.response[m.height].nodes, view |-> Default]
    IN  /\ m.height >= CurrentHeight[n]
        /\ ~IsOnline(wizard[n], m.height)
        /\ ~MasterDisagrees(wizard[n], m.height, m.master, m.view)
        /\ wizard' = [wizard EXCEPT ![n] = added]
        /\ \/ /\ IsOnline(added, m.height)
              /\ view' = [view EXCEPT ![n] = m.view]
              /\ master' = [master EXCEPT ![n] = m.master]
              /\ notified' = [notified EXCEPT ![n] = @ \cup {m.height}]
           \/ ~IsOnline(added, m.height) /\ UNCHANGED <<view, master, notified>>
        /\ resps' = (resps \ {m}) \cup
              IF m.height = Default THEN {forwarded(p) : p \in Peer(n)} ELSE {}
        /\ UNCHANGED <<crashed, announced, sync>>

ReceiveOnlineResponse(n) ==
    \E m \in resps :
        /\ m.to = n
        /\ ResponseBelow(n, m) \/ ResponsePanics(n, m) \/ ResponseCounted(n, m)
        /\ UNCHANGED <<started, reqs>>

-----------------------------------------------------------------------------
(* Specification *)

NewOnlineWizard == [blockHeight |-> Default, response |-> [h \in AnyHeight |-> NoNodes]]

\* What a running node has counted when it came online at genesis.
RunningWizard(n) ==
    [NewOnlineWizard EXCEPT !.response[Default] =
        [nodes |-> Node \ Down, master |-> FirstMaster[n], view |-> Default]]

Init ==
    /\ master = FirstMaster
    /\ view = FirstView
    /\ wizard = [n \in Node |-> IF n \in Running THEN RunningWizard(n) ELSE NewOnlineWizard]
    /\ started = {}
    /\ crashed = {}
    /\ notified = [n \in Node |-> IF n \in Running THEN {Default} ELSE {}]
    /\ announced = IF Running = {} THEN {} ELSE (Node \ Down) \X {Default}
    /\ sync = [n \in Node |-> {}]
    /\ reqs = {}
    /\ resps = {}

Alive(n) == n \notin crashed \cup Down

Step(n) ==
    /\ Alive(n)
    /\ SendOnlineRequest(n) \/ ReceiveOnlineRequest(n) \/ ReceiveOnlineResponse(n)

Next == \E n \in Node : Step(n)

\* The upper layer calls Online, and messages between nodes that are up arrive.
Fairness ==
    \A n \in Node :
        /\ WF_vars(Alive(n) /\ SendOnlineRequest(n))
        /\ WF_vars(Alive(n) /\ ReceiveOnlineRequest(n))
        /\ WF_vars(Alive(n) /\ ReceiveOnlineResponse(n))

Spec == Init /\ [][Next]_vars /\ Fairness

-----------------------------------------------------------------------------
(* Properties *)

Announcers(h) == {p \in Node : <<p, h>> \in announced}

\* EventOnline means that a quorum of nodes has reported one and the same
\* height, however their lists are merged and forwarded.
OnlineCertificate ==
    \A n \in Node : \A h \in notified[n] : Cardinality(Announcers(h)) >= Quorum

\* The inductive invariant behind it: whoever is counted or reported for a
\* height has announced that height itself.
OnlineInv ==
    /\ OnlineTypeOK
    /\ \A m \in reqs : m.from \in Announcers(m.height)
    /\ \A m \in resps : m.nodes \subseteq Announcers(m.height)
    /\ \A n \in Node : \A h \in AnyHeight : wizard[n].response[h].nodes \subseteq Announcers(h)
    /\ OnlineCertificate

\* AddOnlineResponse asserts that the masters it is told are in agreement.  That
\* may end a starting node, never one that is online.
RunningSurvive == crashed \cap Running = {}

\* A starting node comes online as long as the others are up.
AllOnline == \A n \in Node \ Down : <>(notified[n] # {})

\* "now online come to agree": a node that comes online takes over the master
\* of a running node, and with it that node's view number, unless the list it
\* came online with was a forwarded one, which carries no view number.
RejoinAgreement ==
    \A n \in Node : notified[n] # {} =>
        \E p \in Running : view[n] \in {Default, FirstView[p]} /\ master[n] = FirstMaster[p]

\* The inductive invariant behind the last one and RunningSurvive.  A running node
\* stays as it is, because it is only ever sent responses of the genesis height,
\* which it ignores.
RunningKept ==
    \A n \in Running : /\ IsOnline(wizard[n], Default)
                       /\ n \notin crashed
                       /\ master[n] = FirstMaster[n] /\ view[n] = FirstView[n]

RunningSilent ==
    /\ \A m \in reqs : m.from \notin Running
    /\ \A m \in resps : m.to \in Running => m.height = Default

RunningInv == RunningKept /\ RunningSilent

\* For what the starting nodes take over it matters that they are not a quorum
\* among themselves.
FewStarting == Cardinality(Node \ Running) < Quorum

\* The master of a running node, with its view number or with none.
Backed(m, v) == \E p \in Running : m = FirstMaster[p] /\ v \in {Default, FirstView[p]}

\* A list of nodes comes with such a master, or names starting nodes only.
Vouched(nodes, m, v) == Backed(m, v) \/ (v = Default /\ nodes \cap Running = {})

ResponsesVouched == \A m \in resps : m.nodes # {} /\ Vouched(m.nodes, m.master, m.view)

WizardVouched(w) ==
    \A h \in AnyHeight :
        /\ w.response[h].nodes = {} => w.response[h].view = Default
        /\ w.response[h].nodes # {} => h <= w.blockHeight
        /\ \/ Backed(w.response[h].master, Default)
           \/ w.response[h].view = Default /\ w.response[h].nodes \cap Running = {}

EntriesVouched == \A n \in Node \ Running : WizardVouched(wizard[n])

StartersBacked ==
    \A n \in Node \ Running :
        IF notified[n] = {} THEN view[n] = Default ELSE Backed(master[n], view[n])

OnlineNotified ==
    \A n \in Node \ Running : \A h \in AnyHeight \ {Default} :
        IsOnline(wizard[n], h) => notified[n] # {}

\* A starting node has nothing but its own defaults or what a running node vouches
\* for, in its lists, in the responses on the way and in its state.
RejoinInv ==
    /\ OnlineTypeOK /\ RunningInv
    /\ ResponsesVouched /\ EntriesVouched /\ StartersBacked /\ OnlineNotified
=============================================================================
