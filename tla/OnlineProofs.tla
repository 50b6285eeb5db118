---------------------------- MODULE OnlineProofs ----------------------------
(***************************************************************************)
(* What EventOnline stands for, who may panic on the way to it, and whose  *)
(* master and view a starting node takes over, for any number of nodes,    *)
(* heights, views and masters.                                             *)
(***************************************************************************)
EXTENDS Online, FiniteSetTheorems, TLAPS

\* The parts of OnlineInv.
RequestsAnnounced == \A m \in reqs : m.from \in Announcers(m.height)
ResponsesAnnounced == \A m \in resps : m.nodes \subseteq Announcers(m.height)
CountedAnnounced ==
    \A n \in Node : \A h \in AnyHeight : wizard[n].response[h].nodes \subseteq Announcers(h)

OnlineParts ==
    /\ OnlineTypeOK
    /\ RequestsAnnounced
    /\ ResponsesAnnounced
    /\ CountedAnnounced
    /\ OnlineCertificate

\* The constants have the types the handlers need.
LEMMA ConstantTypes ==
    /\ \A n \in Node : CurrentHeight[n] \in AnyHeight /\ FirstView[n] \in AnyView
    /\ AnyHeight \subseteq Nat /\ Default \in AnyHeight
    /\ AnyView \subseteq Nat /\ Default \in AnyView
    /\ Quorum \in Nat
    /\ NoNodes \in ResponseNodes
<1>1. 0 \in Node
  BY NAssumption DEF Node
<1>2. Quorum \in Nat
  BY NAssumption DEF Quorum, Tolerance
<1> QED
  BY <1>1, <1>2, OnlineAssumption DEF AnyHeight, AnyView, Default, NoNodes, ResponseNodes

\* A set of nodes is finite, and a larger one has no fewer members.
LEMMA NodeSets ==
    ASSUME NEW T \in SUBSET Node, NEW S \in SUBSET T, Cardinality(S) >= Quorum
    PROVE  Cardinality(T) >= Quorum
<1>1. IsFiniteSet(Node)
  BY NAssumption, FS_Interval DEF Node
<1>2. IsFiniteSet(T) /\ IsFiniteSet(S)
  BY <1>1, FS_Subset
<1>3. Cardinality(S) \in Nat /\ Cardinality(T) \in Nat /\ Cardinality(S) <= Cardinality(T)
  BY <1>2, FS_Subset, FS_CardinalityType
<1> QED BY <1>3, ConstantTypes

\* What a node has announced stays announced.
LEMMA AnnouncersGrow ==
    ASSUME announced \subseteq announced', NEW h
    PROVE  /\ Announcers(h) \subseteq Announcers(h)'
           /\ Cardinality(Announcers(h)) >= Quorum => Cardinality(Announcers(h)') >= Quorum
<1>1. Announcers(h) \subseteq Announcers(h)' /\ Announcers(h)' \subseteq Node
  BY DEF Announcers
<1> QED BY <1>1, NodeSets

\* AddOnlineResponse keeps its type.
LEMMA AddTyped ==
    ASSUME NEW w \in Wizard, NEW h \in AnyHeight, NEW S \in SUBSET Node,
           NEW m \in Node, NEW v \in AnyView
    PROVE  AddOnlineResponse(w, h, S, m, v) \in Wizard
  BY DEF AddOnlineResponse, Wizard, ResponseNodes

\* The parts that an action does not touch survive a growing history.
LEMMA RequestsKept ==
    ASSUME RequestsAnnounced, announced \subseteq announced', reqs' \subseteq reqs
    PROVE  RequestsAnnounced'
  BY AnnouncersGrow DEF RequestsAnnounced

LEMMA ResponsesKept ==
    ASSUME ResponsesAnnounced, announced \subseteq announced', resps' \subseteq resps
    PROVE  ResponsesAnnounced'
  BY AnnouncersGrow DEF ResponsesAnnounced

LEMMA CertificateKept ==
    ASSUME OnlineCertificate, announced \subseteq announced', notified' = notified
    PROVE  OnlineCertificate'
  BY AnnouncersGrow DEF OnlineCertificate

LEMMA CountedKept ==
    ASSUME CountedAnnounced, announced \subseteq announced', wizard' = wizard
    PROVE  CountedAnnounced'
  BY AnnouncersGrow DEF CountedAnnounced

\* Counting nodes that have announced a height leaves everybody counted
\* announced, and a node that is then online has a quorum behind it.
LEMMA Counting ==
    ASSUME OnlineParts, announced \subseteq announced',
           NEW n \in Node, NEW h \in AnyHeight, NEW S \in SUBSET Announcers(h)',
           NEW m \in Node, NEW v \in AnyView, NEW added,
           added = AddOnlineResponse(wizard[n], h, S, m, v),
           wizard' = [wizard EXCEPT ![n] = added]
    PROVE  /\ wizard' \in [Node -> Wizard] /\ added \in Wizard
           /\ CountedAnnounced'
           /\ \A k \in AnyHeight : added.response[k].nodes \subseteq Announcers(k)'
           /\ \A k \in AnyHeight : IsOnline(added, k) => Cardinality(Announcers(k)') >= Quorum
<1>1. wizard \in [Node -> Wizard] /\ S \in SUBSET Node
  BY DEF OnlineParts, OnlineTypeOK, Announcers
<1>0. wizard[n] \in Wizard
  BY <1>1
<1>2. /\ added \in Wizard
      /\ \A k \in AnyHeight : added.response[k].nodes =
            IF k = h THEN wizard[n].response[h].nodes \cup S ELSE wizard[n].response[k].nodes
  <2> DEFINE result == AddOnlineResponse(wizard[n], h, S, m, v)
  <2>1. result \in Wizard
    BY <1>0, <1>1, AddTyped
  <2>2. \A k \in AnyHeight : result.response[k].nodes =
            IF k = h THEN wizard[n].response[h].nodes \cup S ELSE wizard[n].response[k].nodes
    BY <1>0 DEF AddOnlineResponse, Wizard
  <2> QED BY <2>1, <2>2
<1>3. \A k \in AnyHeight : \A p \in Node : wizard[p].response[k].nodes \subseteq Announcers(k)'
  BY AnnouncersGrow DEF OnlineParts, CountedAnnounced
<1>4. \A k \in AnyHeight : added.response[k].nodes \subseteq Announcers(k)'
  BY <1>2, <1>3
<1>5. CountedAnnounced'
  BY <1>1, <1>3, <1>4 DEF CountedAnnounced
<1>6. \A k \in AnyHeight : IsOnline(added, k) => Cardinality(Announcers(k)') >= Quorum
  <2> SUFFICES ASSUME NEW k \in AnyHeight, IsOnline(added, k)
               PROVE  Cardinality(Announcers(k)') >= Quorum
    OBVIOUS
  <2>1. Announcers(k)' \in SUBSET Node
    BY DEF Announcers
  <2> QED BY <1>4, <2>1, NodeSets DEF IsOnline
<1> QED BY <1>1, <1>2, <1>4, <1>5, <1>6

-----------------------------------------------------------------------------
(* Initially *)

LEMMA InitOnline == ASSUME Init PROVE OnlineParts
<1>1. OnlineTypeOK
  <2>1. \A n \in Node : RunningWizard(n) \in Wizard /\ NewOnlineWizard \in Wizard
    BY ConstantTypes, OnlineAssumption
       DEF RunningWizard, NewOnlineWizard, Wizard, ResponseNodes
  <2>2. view \in [Node -> AnyView] /\ master \in [Node -> Node]
    BY ConstantTypes, OnlineAssumption DEF Init
  <2> QED BY <2>1, <2>2, ConstantTypes, OnlineAssumption DEF Init, OnlineTypeOK
<1>2. Running # {} => Announcers(Default) = Node \ Down
  BY DEF Init, Announcers
<1>3. CountedAnnounced
  <2> SUFFICES ASSUME NEW n \in Node, NEW h \in AnyHeight
               PROVE  wizard[n].response[h].nodes \subseteq Announcers(h)
    BY DEF CountedAnnounced
  <2>1. CASE n \in Running
    <3>1. wizard[n].response[h].nodes = IF h = Default THEN Node \ Down ELSE {}
      BY <2>1, ConstantTypes DEF Init, RunningWizard, NewOnlineWizard, NoNodes
    <3> QED BY <1>2, <2>1, <3>1
  <2>2. CASE n \notin Running
    BY <2>2 DEF Init, NewOnlineWizard, NoNodes
  <2> QED BY <2>1, <2>2
<1>4. OnlineCertificate
  BY <1>2, OnlineAssumption DEF OnlineCertificate, Init
<1>5. RequestsAnnounced /\ ResponsesAnnounced
  BY DEF Init, RequestsAnnounced, ResponsesAnnounced
<1> QED BY <1>1, <1>3, <1>4, <1>5 DEF OnlineParts

-----------------------------------------------------------------------------
(* The handlers *)

\* A panic changes nothing the invariant speaks of.
LEMMA PanicKeeps ==
    ASSUME OnlineParts, NEW n \in Node, UNCHANGED <<nodeVars, announced>>,
           crashed' = crashed \cup {n} \/ crashed' = crashed,
           started' \subseteq Node, sync' \in [Node -> SUBSET SyncRequest],
           reqs' \subseteq reqs, resps' \subseteq resps
    PROVE  OnlineParts'
<1>1. announced \subseteq announced' /\ wizard' = wizard /\ notified' = notified
  BY DEF nodeVars
<1>2. OnlineTypeOK'
  BY DEF OnlineParts, OnlineTypeOK, nodeVars
<1> QED
  BY <1>1, <1>2, RequestsKept, ResponsesKept, CountedKept, CertificateKept DEF OnlineParts

\* A synchronisation request has its type.
LEMMA SyncTyped ==
    ASSUME OnlineTypeOK, NEW n \in Node, NEW h \in AnyHeight, NEW p \in Node
    PROVE  [sync EXCEPT ![n] = @ \cup {[end |-> h, target |-> p]}] \in [Node -> SUBSET SyncRequest]
  BY DEF OnlineTypeOK, SyncRequest

LEMMA SendOnlineRequestKeeps ==
    ASSUME OnlineParts, NEW n \in Node, SendOnlineRequest(n) PROVE OnlineParts'
<1> DEFINE h == CurrentHeight[n]
           added == AddOnlineResponse(wizard[n], h, {n}, master[n], view[n])
           reported == IF wizard[n].blockHeight > h THEN wizard[n].blockHeight ELSE h
<1>1. OnlineTypeOK
  BY DEF OnlineParts
<1>2. started' \subseteq Node /\ sync' = sync
  BY <1>1 DEF SendOnlineRequest, OnlineTypeOK
<1>3. CASE Panic(n) /\ UNCHANGED reqs
  <2>1. sync' \in [Node -> SUBSET SyncRequest]
    BY <1>1, <1>2 DEF OnlineTypeOK
  <2> QED BY <1>2, <1>3, <2>1, PanicKeeps DEF Panic
<1>4. CASE /\ wizard' = IF h = Default THEN [wizard EXCEPT ![n] = added] ELSE wizard
           /\ notified' = IF h = Default /\ IsOnline(added, reported)
                          THEN [notified EXCEPT ![n] = @ \cup {reported}] ELSE notified
           /\ announced' = announced \cup {<<n, h>>}
           /\ reqs' = reqs \cup {[from |-> n, to |-> p, height |-> h] : p \in Peer(n)}
           /\ UNCHANGED <<master, view, crashed, resps>>
  <2>1. /\ h \in AnyHeight /\ wizard[n] \in Wizard
        /\ master[n] \in Node /\ view[n] \in AnyView
    BY <1>1, ConstantTypes DEF OnlineTypeOK
  <2>2. announced \subseteq announced' /\ {n} \in SUBSET Announcers(h)'
    BY <1>4 DEF Announcers
  <2>3. reported \in AnyHeight
    BY <2>1 DEF Wizard
  <2> HIDE DEF h, added, reported
  <2>4. /\ wizard' \in [Node -> Wizard] /\ notified' \in [Node -> SUBSET AnyHeight]
        /\ CountedAnnounced' /\ OnlineCertificate'
    <3>1. CASE h = Default
      <4>1. wizard' = [wizard EXCEPT ![n] = added]
        BY <1>4, <3>1
      <4>2. added = AddOnlineResponse(wizard[n], h, {n}, master[n], view[n])
        BY DEF added
      <4>3. /\ wizard' \in [Node -> Wizard] /\ CountedAnnounced'
            /\ \A k \in AnyHeight : IsOnline(added, k) => Cardinality(Announcers(k)') >= Quorum
        BY <2>1, <2>2, <4>1, <4>2, Counting
      <4>4. OnlineCertificate'
        <5> SUFFICES ASSUME NEW q \in Node, NEW k \in notified'[q]
                     PROVE  Cardinality(Announcers(k)') >= Quorum
          BY DEF OnlineCertificate
        <5>1. k \in notified[q] \/ (k = reported /\ IsOnline(added, reported))
          BY <1>1, <1>4 DEF OnlineTypeOK
        <5>2. CASE k \in notified[q]
          BY <2>2, <5>2, AnnouncersGrow DEF OnlineParts, OnlineCertificate
        <5> QED BY <2>3, <4>3, <5>1, <5>2
      <4>5. notified' \in [Node -> SUBSET AnyHeight]
        BY <1>1, <1>4, <2>3 DEF OnlineTypeOK
      <4> QED BY <4>3, <4>4, <4>5
    <3>2. CASE h # Default
      <4>1. wizard' = wizard /\ notified' = notified
        BY <1>4, <3>2
      <4> QED BY <1>1, <2>2, <4>1, CountedKept, CertificateKept DEF OnlineParts, OnlineTypeOK
    <3> QED BY <3>1, <3>2
  <2>5. RequestsAnnounced'
    <3> SUFFICES ASSUME NEW m \in reqs' PROVE m.from \in Announcers(m.height)'
      BY DEF RequestsAnnounced
    <3>1. CASE m \in reqs
      BY <2>2, <3>1, AnnouncersGrow DEF OnlineParts, RequestsAnnounced
    <3>2. CASE m \notin reqs
      <4>1. m.from = n /\ m.height = h
        BY <1>4, <3>2
      <4> QED BY <2>2, <4>1
    <3> QED BY <3>1, <3>2
  <2>6. OnlineTypeOK'
    BY <1>1, <1>2, <1>4, <2>1, <2>4 DEF OnlineTypeOK, OnlineRequest, Peer
  <2> QED BY <1>4, <2>2, <2>4, <2>5, <2>6, ResponsesKept DEF OnlineParts
<1> QED BY <1>3, <1>4 DEF SendOnlineRequest

LEMMA AnswerKeeps ==
    ASSUME OnlineParts, NEW n \in Node, NEW m \in reqs, Answer(n, m),
           started' = started, sync' \in [Node -> SUBSET SyncRequest], reqs' \subseteq reqs
    PROVE  OnlineParts'
<1>1. /\ announced' = announced \cup {<<n, CurrentHeight[n]>>}
      /\ resps' = resps \cup {Report(n, m.from, {n})}
      /\ UNCHANGED <<nodeVars, crashed>>
  BY DEF Answer
<1>2. announced \subseteq announced' /\ n \in Announcers(CurrentHeight[n])'
  BY <1>1 DEF Announcers
<1>3. Report(n, m.from, {n}) \in OnlineResponse
  BY ConstantTypes DEF OnlineParts, OnlineTypeOK, OnlineRequest, OnlineResponse, Report
<1>4. OnlineTypeOK'
  BY <1>1, <1>3, ConstantTypes DEF OnlineParts, OnlineTypeOK, nodeVars
<1>5. ResponsesAnnounced'
  <2> SUFFICES ASSUME NEW r \in resps' PROVE r.nodes \subseteq Announcers(r.height)'
    BY DEF ResponsesAnnounced
  <2>1. CASE r \in resps
    BY <1>2, <2>1, AnnouncersGrow DEF OnlineParts, ResponsesAnnounced
  <2>2. CASE r = Report(n, m.from, {n})
    BY <1>2, <2>2 DEF Report
  <2> QED BY <1>1, <2>1, <2>2
<1>6. wizard' = wizard /\ notified' = notified
  BY <1>1 DEF nodeVars
<1> QED
  BY <1>2, <1>4, <1>5, <1>6, RequestsKept, CountedKept, CertificateKept DEF OnlineParts

LEMMA AnswerAtGenesisKeeps ==
    ASSUME OnlineParts, NEW n \in Node, NEW m \in reqs, AnswerAtGenesis(n, m),
           started' = started, sync' \in [Node -> SUBSET SyncRequest], reqs' \subseteq reqs
    PROVE  OnlineParts'
<1> DEFINE accounts == IF m.height = Default THEN {n, m.from} ELSE {n}
           added == AddOnlineResponse(wizard[n], Default, accounts, master[n], view[n])
           list == added.response[Default].nodes
<1>1. /\ CurrentHeight[n] = Default
      /\ wizard' = [wizard EXCEPT ![n] = added]
      /\ notified' = IF IsOnline(added, Default)
                     THEN [notified EXCEPT ![n] = @ \cup {Default}] ELSE notified
      /\ announced' = announced \cup {<<n, Default>>}
      /\ resps' = resps \cup {Report(n, p, list) : p \in Peer(n)}
      /\ UNCHANGED <<master, view, crashed>>
  BY DEF AnswerAtGenesis
<1>2. /\ OnlineTypeOK /\ Default \in AnyHeight
      /\ master[n] \in Node /\ view[n] \in AnyView
  BY ConstantTypes DEF OnlineParts, OnlineTypeOK
<1>3. announced \subseteq announced' /\ n \in Announcers(Default)'
  BY <1>1 DEF Announcers
<1>4. accounts \in SUBSET Announcers(Default)'
  BY <1>3, AnnouncersGrow DEF OnlineParts, RequestsAnnounced
<1> HIDE DEF accounts
<1>5. added = AddOnlineResponse(wizard[n], Default, accounts, master[n], view[n])
  OBVIOUS
<1> HIDE DEF added
<1>6. /\ wizard' \in [Node -> Wizard] /\ added \in Wizard
      /\ CountedAnnounced'
      /\ list \subseteq Announcers(Default)'
      /\ IsOnline(added, Default) => Cardinality(Announcers(Default)') >= Quorum
  BY <1>1, <1>2, <1>3, <1>4, <1>5, Counting
<1>7. list \in SUBSET Node
  BY <1>6 DEF Announcers
<1> HIDE DEF list
<1>8. \A p \in Peer(n) : Report(n, p, list) \in OnlineResponse
  BY <1>1, <1>2, <1>7 DEF OnlineResponse, Report, Peer
<1>9. OnlineTypeOK'
  <2>1. notified' \in [Node -> SUBSET AnyHeight]
    BY <1>1, <1>2 DEF OnlineTypeOK
  <2>2. resps' \subseteq OnlineResponse
    BY <1>1, <1>2, <1>8 DEF OnlineTypeOK
  <2> QED BY <1>1, <1>2, <1>6, <2>1, <2>2 DEF OnlineTypeOK
<1>10. ResponsesAnnounced'
  <2> SUFFICES ASSUME NEW r \in resps' PROVE r.nodes \subseteq Announcers(r.height)'
    BY DEF ResponsesAnnounced
  <2>1. CASE r \in resps
    BY <1>3, <2>1, AnnouncersGrow DEF OnlineParts, ResponsesAnnounced
  <2>2. CASE r \notin resps
    <3>1. r.nodes = list /\ r.height = Default
      BY <1>1, <2>2 DEF Report
    <3> QED BY <1>6, <3>1
  <2> QED BY <2>1, <2>2
<1>11. OnlineCertificate'
  <2> SUFFICES ASSUME NEW q \in Node, NEW k \in notified'[q]
               PROVE  Cardinality(Announcers(k)') >= Quorum
    BY DEF OnlineCertificate
  <2>1. k \in notified[q] \/ (k = Default /\ IsOnline(added, Default))
    BY <1>1, <1>2 DEF OnlineTypeOK
  <2>2. CASE k \in notified[q]
    BY <1>3, <2>2, AnnouncersGrow DEF OnlineParts, OnlineCertificate
  <2> QED BY <1>6, <2>1, <2>2
<1> QED BY <1>3, <1>6, <1>9, <1>10, <1>11, RequestsKept DEF OnlineParts

LEMMA ReceiveOnlineRequestKeeps ==
    ASSUME OnlineParts, NEW n \in Node, ReceiveOnlineRequest(n) PROVE OnlineParts'
<1>1. PICK m \in reqs :
        /\ reqs' = reqs \ {m}
        /\ sync' = IF CurrentHeight[n] < m.height
                   THEN [sync EXCEPT ![n] = @ \cup {[end |-> m.height, target |-> m.from]}]
                   ELSE sync
        /\ Answer(n, m) \/ AnswerAtGenesis(n, m) \/ AnswerPanics(n)
        /\ UNCHANGED started
  BY DEF ReceiveOnlineRequest
<1>2. OnlineTypeOK /\ m.height \in AnyHeight /\ m.from \in Node
  BY DEF OnlineParts, OnlineTypeOK, OnlineRequest
<1>3. sync' \in [Node -> SUBSET SyncRequest]
  <2>1. CASE CurrentHeight[n] < m.height
    BY <1>1, <1>2, <2>1, SyncTyped
  <2>2. CASE ~(CurrentHeight[n] < m.height)
    BY <1>1, <1>2, <2>2 DEF OnlineTypeOK
  <2> QED BY <2>1, <2>2
<1>4. CASE Answer(n, m)
  BY <1>1, <1>3, <1>4, AnswerKeeps
<1>5. CASE AnswerAtGenesis(n, m)
  BY <1>1, <1>3, <1>5, AnswerAtGenesisKeeps
<1>6. CASE AnswerPanics(n)
  <2>1. started' \subseteq Node
    BY <1>1, <1>2 DEF OnlineTypeOK
  <2>2. UNCHANGED <<nodeVars, announced, resps>> /\ crashed' = crashed \cup {n}
    BY <1>6 DEF AnswerPanics, Panic
  <2> QED BY <1>1, <1>3, <2>1, <2>2, PanicKeeps
<1> QED BY <1>1, <1>4, <1>5, <1>6

LEMMA ResponseCountedKeeps ==
    ASSUME OnlineParts, NEW n \in Node, NEW m \in resps, ResponseCounted(n, m),
           started' = started, reqs' = reqs
    PROVE  OnlineParts'
<1> DEFINE added == AddOnlineResponse(wizard[n], m.height, m.nodes, m.master, m.view)
           list == added.response[m.height].nodes
           forwarded(p) == [from |-> n, to |-> p, height |-> m.height, master |-> m.master,
                            nodes |-> list, view |-> Default]
<1>1. /\ wizard' = [wizard EXCEPT ![n] = added]
      /\ \/ /\ IsOnline(added, m.height)
            /\ view' = [view EXCEPT ![n] = m.view]
            /\ master' = [master EXCEPT ![n] = m.master]
            /\ notified' = [notified EXCEPT ![n] = @ \cup {m.height}]
         \/ UNCHANGED <<view, master, notified>>
      /\ resps' = (resps \ {m}) \cup
            IF m.height = Default THEN {forwarded(p) : p \in Peer(n)} ELSE {}
      /\ UNCHANGED <<crashed, announced, sync>>
  BY DEF ResponseCounted
<1>2. /\ OnlineTypeOK /\ m.height \in AnyHeight /\ m.master \in Node /\ m.view \in AnyView
  BY DEF OnlineParts, OnlineTypeOK, OnlineResponse
<1>3. announced \subseteq announced'
  BY <1>1
<1>4. m.nodes \in SUBSET Announcers(m.height)'
  BY <1>3, AnnouncersGrow DEF OnlineParts, ResponsesAnnounced
<1>5. added = AddOnlineResponse(wizard[n], m.height, m.nodes, m.master, m.view)
  OBVIOUS
<1> HIDE DEF added
<1>6. /\ wizard' \in [Node -> Wizard] /\ added \in Wizard
      /\ CountedAnnounced'
      /\ list \subseteq Announcers(m.height)'
      /\ IsOnline(added, m.height) => Cardinality(Announcers(m.height)') >= Quorum
  BY <1>1, <1>2, <1>3, <1>4, <1>5, Counting
<1>7. list \in SUBSET Node
  BY <1>6 DEF Announcers
<1> HIDE DEF list
<1>8. \A p \in Peer(n) : forwarded(p) \in OnlineResponse
  BY <1>2, <1>7, ConstantTypes DEF OnlineResponse, Peer
<1>9. OnlineTypeOK'
  <2>1. /\ notified' \in [Node -> SUBSET AnyHeight]
        /\ view' \in [Node -> AnyView] /\ master' \in [Node -> Node]
    BY <1>1, <1>2 DEF OnlineTypeOK
  <2>2. resps' \subseteq OnlineResponse
    BY <1>1, <1>2, <1>8 DEF OnlineTypeOK
  <2> QED BY <1>1, <1>2, <1>6, <2>1, <2>2 DEF OnlineTypeOK
<1>10. ResponsesAnnounced'
  <2> SUFFICES ASSUME NEW r \in resps' PROVE r.nodes \subseteq Announcers(r.height)'
    BY DEF ResponsesAnnounced
  <2>1. CASE r \in resps
    BY <1>3, <2>1, AnnouncersGrow DEF OnlineParts, ResponsesAnnounced
  <2>2. CASE r \notin resps
    <3>1. r.nodes = list /\ r.height = m.height
      BY <1>1, <2>2
    <3> QED BY <1>6, <3>1
  <2> QED BY <2>1, <2>2
<1>11. OnlineCertificate'
  <2> SUFFICES ASSUME NEW q \in Node, NEW k \in notified'[q]
               PROVE  Cardinality(Announcers(k)') >= Quorum
    BY DEF OnlineCertificate
  <2>1. k \in notified[q] \/ (k = m.height /\ IsOnline(added, m.height))
    BY <1>1, <1>2 DEF OnlineTypeOK
  <2>2. CASE k \in notified[q]
    BY <1>3, <2>2, AnnouncersGrow DEF OnlineParts, OnlineCertificate
  <2> QED BY <1>6, <2>1, <2>2
<1> QED BY <1>3, <1>6, <1>9, <1>10, <1>11, RequestsKept DEF OnlineParts

LEMMA ReceiveOnlineResponseKeeps ==
    ASSUME OnlineParts, NEW n \in Node, ReceiveOnlineResponse(n) PROVE OnlineParts'
<1>1. PICK m \in resps :
        /\ ResponseBelow(n, m) \/ ResponsePanics(n, m) \/ ResponseCounted(n, m)
        /\ UNCHANGED <<started, reqs>>
  BY DEF ReceiveOnlineResponse
<1>2. OnlineTypeOK /\ m.height \in AnyHeight /\ m.from \in Node
  BY DEF OnlineParts, OnlineTypeOK, OnlineResponse
<1>3. started' \subseteq Node
  BY <1>1, <1>2 DEF OnlineTypeOK
<1>4. CASE ResponseBelow(n, m)
  <2>1. sync' \in [Node -> SUBSET SyncRequest]
    BY <1>2, <1>4, SyncTyped DEF ResponseBelow
  <2>2. UNCHANGED <<nodeVars, crashed, announced>> /\ resps' \subseteq resps
    BY <1>4 DEF ResponseBelow
  <2> QED BY <1>1, <1>3, <2>1, <2>2, PanicKeeps
<1>5. CASE ResponsePanics(n, m)
  <2>1. sync' \in [Node -> SUBSET SyncRequest]
    BY <1>2, <1>5 DEF ResponsePanics, OnlineTypeOK
  <2>2. UNCHANGED <<nodeVars, announced>> /\ resps' \subseteq resps /\ crashed' = crashed \cup {n}
    BY <1>5 DEF ResponsePanics
  <2> QED BY <1>1, <1>3, <2>1, <2>2, PanicKeeps
<1>6. CASE ResponseCounted(n, m)
  BY <1>1, <1>6, ResponseCountedKeeps
<1> QED BY <1>1, <1>4, <1>5, <1>6

-----------------------------------------------------------------------------
(* Theorems *)

\* Whoever is counted, reported or forwarded for a height has announced that
\* height itself: the inductive invariant of coming online.
THEOREM OnlineInvariant == Spec => []OnlineInv
<1>1. Init => OnlineParts
  BY InitOnline
<1>2. OnlineParts /\ [Next]_vars => OnlineParts'
  <2> SUFFICES ASSUME OnlineParts, [Next]_vars PROVE OnlineParts'
    OBVIOUS
  <2>1. CASE UNCHANGED vars
    <3>1. /\ UNCHANGED <<nodeVars, announced>>
          /\ UNCHANGED <<crashed, started, sync, reqs, resps>>
      BY <2>1 DEF vars, netVars
    <3>2. 0 \in Node
      BY NAssumption DEF Node
    <3>3. started' \subseteq Node /\ sync' \in [Node -> SUBSET SyncRequest]
      BY <3>1 DEF OnlineParts, OnlineTypeOK
    <3> QED BY <3>1, <3>2, <3>3, PanicKeeps
  <2>2. CASE Next
    <3>1. PICK n \in Node :
            SendOnlineRequest(n) \/ ReceiveOnlineRequest(n) \/ ReceiveOnlineResponse(n)
      BY <2>2 DEF Next, Step
    <3> QED
      BY <3>1, SendOnlineRequestKeeps, ReceiveOnlineRequestKeeps, ReceiveOnlineResponseKeeps
  <2> QED BY <2>1, <2>2
<1>3. OnlineParts => OnlineInv
  BY DEF OnlineParts, OnlineInv, RequestsAnnounced, ResponsesAnnounced, CountedAnnounced
<1> QED BY <1>1, <1>2, <1>3, PTL DEF Spec

\* EventOnline means that a quorum of nodes has reported one and the same
\* height, however lists are merged and forwarded and whoever panics.
THEOREM OnlineCertificateHolds == Spec => []OnlineCertificate
<1>1. OnlineInv => OnlineCertificate
  BY DEF OnlineInv
<1> QED BY <1>1, OnlineInvariant, PTL

-----------------------------------------------------------------------------
(* Who may panic                                                             *)
(*                                                                           *)
(* A node that is online is only ever sent responses of its own genesis      *)
(* height, which it ignores: RunningInv.                                     *)

\* A step of a starting node, or one that ends no process and changes nothing
\* but messages, leaves the running nodes alone.
LEMMA RunningUntouched ==
    ASSUME OnlineTypeOK, RunningKept, NEW n \in Node,
           \/ /\ n \notin Running
              /\ crashed' = crashed \cup {n} \/ crashed' = crashed
              /\ \E w : wizard' = [wizard EXCEPT ![n] = w] \/ wizard' = wizard
              /\ \E x : master' = [master EXCEPT ![n] = x] \/ master' = master
              /\ \E v : view' = [view EXCEPT ![n] = v] \/ view' = view
           \/ UNCHANGED <<crashed, wizard, master, view>>
    PROVE  RunningKept'
<1>1. CASE UNCHANGED <<crashed, wizard, master, view>>
  BY <1>1 DEF RunningKept
<1>2. CASE n \notin Running
  <2> SUFFICES ASSUME NEW p \in Running
               PROVE  /\ IsOnline(wizard[p], Default)'
                      /\ p \notin crashed'
                      /\ master'[p] = FirstMaster[p] /\ view'[p] = FirstView[p]
    BY DEF RunningKept
  <2>1. p \in Node /\ p # n
    BY <1>2, OnlineAssumption
  <2>2. /\ wizard'[p] = wizard[p] /\ master'[p] = master[p] /\ view'[p] = view[p]
        /\ p \in crashed' => p \in crashed
    BY <1>2, <2>1 DEF OnlineTypeOK
  <2>3. IsOnline(wizard[p], Default)'
    BY <2>2 DEF RunningKept, IsOnline
  <2> QED BY <2>2, <2>3 DEF RunningKept
<1> QED BY <1>1, <1>2

LEMMA SendRunning ==
    ASSUME OnlineTypeOK, RunningInv, NEW n \in Node, SendOnlineRequest(n) PROVE RunningInv'
<1>1. n \notin Running /\ resps' = resps
  BY DEF SendOnlineRequest, Panic
<1>2. \A m \in reqs' : m \in reqs \/ m.from = n
  BY DEF SendOnlineRequest
<1>3. RunningKept'
  <2>1. /\ crashed' = crashed \cup {n} \/ crashed' = crashed
        /\ \E w : wizard' = [wizard EXCEPT ![n] = w] \/ wizard' = wizard
        /\ master' = master /\ view' = view
    BY DEF SendOnlineRequest, Panic, nodeVars
  <2> QED BY <1>1, <2>1, RunningUntouched DEF RunningInv
<1> QED BY <1>1, <1>2, <1>3 DEF RunningInv, RunningSilent

LEMMA RequestRunning ==
    ASSUME OnlineTypeOK, RunningInv, NEW n \in Node, ReceiveOnlineRequest(n) PROVE RunningInv'
<1>1. PICK m \in reqs :
        reqs' = reqs \ {m} /\ (Answer(n, m) \/ AnswerAtGenesis(n, m) \/ AnswerPanics(n))
  BY DEF ReceiveOnlineRequest
<1>2. m.from \notin Running
  BY DEF RunningInv, RunningSilent
<1>3. CASE Answer(n, m)
  <2>1. UNCHANGED <<crashed, wizard, master, view>>
    BY <1>3 DEF Answer, nodeVars
  <2>2. \A r \in resps' : r \in resps \/ r.to = m.from
    BY <1>3 DEF Answer, Report
  <2> QED BY <1>1, <1>2, <2>1, <2>2, RunningUntouched DEF RunningInv, RunningSilent
<1>4. CASE AnswerAtGenesis(n, m)
  <2>1. n \notin Running
    BY <1>4 DEF AnswerAtGenesis, RunningInv, RunningKept
  <2>2. /\ \E w : wizard' = [wizard EXCEPT ![n] = w]
        /\ UNCHANGED <<crashed, master, view>>
    BY <1>4 DEF AnswerAtGenesis
  <2>3. \A r \in resps' : r \in resps \/ r.height = Default
    BY <1>4 DEF AnswerAtGenesis, Report
  <2>4. RunningKept'
    BY <2>1, <2>2, RunningUntouched DEF RunningInv
  <2> QED BY <1>1, <2>3, <2>4 DEF RunningInv, RunningSilent
<1>5. CASE AnswerPanics(n)
  <2>1. n \notin Running
    BY <1>5 DEF AnswerPanics, RunningInv, RunningKept
  <2>2. UNCHANGED <<wizard, master, view, resps>> /\ crashed' = crashed \cup {n}
    BY <1>5 DEF AnswerPanics, Panic, nodeVars
  <2>3. RunningKept'
    BY <2>1, <2>2, RunningUntouched DEF RunningInv
  <2> QED BY <1>1, <2>2, <2>3 DEF RunningInv, RunningSilent
<1> QED BY <1>1, <1>3, <1>4, <1>5

LEMMA ResponseRunning ==
    ASSUME OnlineTypeOK, RunningInv, NEW n \in Node, ReceiveOnlineResponse(n) PROVE RunningInv'
<1>1. PICK m \in resps :
        /\ m.to = n /\ reqs' = reqs
        /\ ResponseBelow(n, m) \/ ResponsePanics(n, m) \/ ResponseCounted(n, m)
  BY DEF ReceiveOnlineResponse
<1>2. CASE ResponseBelow(n, m)
  <2>1. UNCHANGED <<crashed, wizard, master, view>> /\ resps' \subseteq resps
    BY <1>2 DEF ResponseBelow, nodeVars
  <2> QED BY <1>1, <2>1, RunningUntouched DEF RunningInv, RunningSilent
<1>3. CASE ResponsePanics(n, m) \/ ResponseCounted(n, m)
  <2>1. n \notin Running
    BY <1>1, <1>3 DEF ResponsePanics, ResponseCounted, RunningInv, RunningKept, RunningSilent
  <2>2. CASE ResponsePanics(n, m)
    <3>1. UNCHANGED <<wizard, master, view>> /\ crashed' = crashed \cup {n} /\ resps' \subseteq resps
      BY <2>2 DEF ResponsePanics, nodeVars
    <3>2. RunningKept'
      BY <2>1, <3>1, RunningUntouched DEF RunningInv
    <3> QED BY <1>1, <3>1, <3>2 DEF RunningInv, RunningSilent
  <2>3. CASE ResponseCounted(n, m)
    <3>1. /\ crashed' = crashed
          /\ \E w : wizard' = [wizard EXCEPT ![n] = w]
          /\ \E x : master' = [master EXCEPT ![n] = x] \/ master' = master
          /\ \E v : view' = [view EXCEPT ![n] = v] \/ view' = view
      BY <2>3 DEF ResponseCounted
    <3>2. \A r \in resps' : r \in resps \/ r.height = Default
      BY <2>3 DEF ResponseCounted
    <3>3. RunningKept'
      BY <2>1, <3>1, RunningUntouched DEF RunningInv
    <3> QED BY <1>1, <3>2, <3>3 DEF RunningInv, RunningSilent
  <2> QED BY <1>3, <2>2, <2>3
<1> QED BY <1>1, <1>2, <1>3

LEMMA RunningStep ==
    ASSUME OnlineTypeOK, RunningInv, [Next]_vars PROVE RunningInv'
<1>1. CASE UNCHANGED vars
  BY <1>1 DEF vars, nodeVars, netVars, RunningInv, RunningKept, RunningSilent, IsOnline
<1>2. CASE Next
  BY <1>2, SendRunning, RequestRunning, ResponseRunning DEF Next, Step
<1> QED BY <1>1, <1>2

\* Nodes that are online keep their master, their view and their lives while others
\* come online: receiveOnlineResponse has nothing to count for them.
THEOREM RunningInvariant == Spec => []RunningInv
<1>1. Init => RunningInv
  <2> SUFFICES ASSUME Init PROVE RunningInv
    OBVIOUS
  <2>1. ASSUME NEW n \in Running PROVE IsOnline(wizard[n], Default)
    <3>1. n \in Node /\ wizard[n] = RunningWizard(n)
      BY <2>1, OnlineAssumption DEF Init
    <3>2. wizard[n].response[Default].nodes = Node \ Down
      BY <3>1, ConstantTypes DEF RunningWizard, NewOnlineWizard
    <3> QED BY <2>1, <3>2, OnlineAssumption DEF IsOnline
  <2> QED BY <2>1, OnlineAssumption DEF Init, RunningInv, RunningKept, RunningSilent
<1>2. OnlineTypeOK /\ RunningInv /\ [Next]_vars => RunningInv'
  BY RunningStep
<1>3. OnlineInv => OnlineTypeOK
  BY DEF OnlineInv
<1> QED BY <1>1, <1>2, <1>3, OnlineInvariant, PTL DEF Spec

\* The assertion in AddOnlineResponse never ends a node that is online, for
\* any heights, masters and views the nodes report.
THEOREM RunningSurviveHolds == Spec => []RunningSurvive
<1>1. RunningInv => RunningSurvive
  BY DEF RunningInv, RunningKept, RunningSurvive
<1> QED BY <1>1, RunningInvariant, PTL

-----------------------------------------------------------------------------
(* What AddOnlineResponse returns *)

\* The entry of height h has S and its master, and the higher view number.
Entered(added, w, h, S, m, v) ==
    /\ added.blockHeight \in Nat /\ w.blockHeight \in Nat
    /\ added.blockHeight >= h /\ added.blockHeight >= w.blockHeight
    /\ added.response[h].nodes = w.response[h].nodes \cup S
    /\ added.response[h].master = m
    /\ added.response[h].view = IF w.response[h].view < v THEN v ELSE w.response[h].view
    /\ \A k \in AnyHeight : k # h => added.response[k] = w.response[k]

LEMMA Added ==
    ASSUME NEW w \in Wizard, NEW h \in AnyHeight, NEW S \in SUBSET Node,
           NEW m \in Node, NEW v \in AnyView
    PROVE  Entered(AddOnlineResponse(w, h, S, m, v), w, h, S, m, v)
<1> DEFINE added == AddOnlineResponse(w, h, S, m, v)
<1>1. w.blockHeight \in Nat /\ h \in Nat /\ w.response \in [AnyHeight -> ResponseNodes]
  BY ConstantTypes DEF Wizard
<1>2. added.blockHeight = IF h > w.blockHeight THEN h ELSE w.blockHeight
  BY DEF AddOnlineResponse
<1>3. added.response = [w.response EXCEPT ![h] =
         [nodes |-> w.response[h].nodes \cup S, master |-> m,
          view |-> IF w.response[h].view < v THEN v ELSE w.response[h].view]]
  BY DEF AddOnlineResponse
<1>4. added.response[h] =
         [nodes |-> w.response[h].nodes \cup S, master |-> m,
          view |-> IF w.response[h].view < v THEN v ELSE w.response[h].view]
  BY <1>1, <1>3
<1> QED BY <1>1, <1>2, <1>3, <1>4 DEF Entered

-----------------------------------------------------------------------------
(* Whose master a starting node takes over                                   *)
(*                                                                           *)
(* A list of nodes either comes with the master of a running node, or holds  *)
(* starting nodes only, whose view number is 0.  The two do not mix: AddOn-  *)
(* lineResponse panics, or the higher view number wins.  So a list that is   *)
(* too long for the starting nodes alone has the master of a running one.    *)

\* A list for which there are not enough starting nodes names a running one.
LEMMA TooManyStarting ==
    ASSUME FewStarting, NEW S \in SUBSET Node, Cardinality(S) >= Quorum
    PROVE  S \cap Running # {}
<1> SUFFICES ASSUME S \cap Running = {} PROVE FALSE
  OBVIOUS
<1>1. S \in SUBSET (Node \ Running) /\ Node \ Running \in SUBSET Node
  OBVIOUS
<1>2. Cardinality(Node \ Running) >= Quorum
  BY <1>1, NodeSets
<1>3. IsFiniteSet(Node)
  BY NAssumption, FS_Interval DEF Node
<1>4. Cardinality(Node \ Running) \in Nat
  BY <1>1, <1>3, FS_Subset, FS_CardinalityType
<1> QED BY <1>2, <1>4, ConstantTypes DEF FewStarting

\* What counting a response to height h with this master and view leaves.
JoinedWith(added, w, h, m, v) ==
    /\ WizardVouched(added)
    /\ Backed(m, Default) \/ added.response[h].nodes \cap Running = {}
    /\ FewStarting /\ IsOnline(added, h) => Backed(m, v)
    /\ \A k \in AnyHeight \ {h} : IsOnline(added, k) => IsOnline(w, k)

\* A response that is counted keeps the two kinds of lists apart, and brings a
\* starting node online only with the master of a running one.
LEMMA Joining ==
    ASSUME NEW w \in Wizard, WizardVouched(w), NEW h \in AnyHeight, NEW S \in SUBSET Node, S # {},
           NEW m \in Node, NEW v \in AnyView, Vouched(S, m, v), ~MasterDisagrees(w, h, m, v),
           NEW added, added = AddOnlineResponse(w, h, S, m, v)
    PROVE  JoinedWith(added, w, h, m, v)
<1> DEFINE r == w.response[h]
           a == added.response[h]
<1>1. /\ added.blockHeight \in Nat /\ w.blockHeight \in Nat
      /\ added.blockHeight >= h /\ added.blockHeight >= w.blockHeight
      /\ a.nodes = r.nodes \cup S /\ a.master = m
      /\ a.view = IF r.view < v THEN v ELSE r.view
      /\ \A k \in AnyHeight : k # h => added.response[k] = w.response[k]
  <2>1. Entered(added, w, h, S, m, v)
    BY Added
  <2> QED BY <2>1 DEF Entered
<1>2. /\ r.nodes \in SUBSET Node /\ r.view \in Nat /\ v \in Nat
      /\ AnyHeight \subseteq Nat /\ Default = 0
  BY ConstantTypes DEF Wizard, ResponseNodes, Default
<1>3. /\ r.nodes = {} => r.view = Default
      /\ r.nodes # {} => h <= w.blockHeight
      /\ Backed(r.master, Default) \/ (r.view = Default /\ r.nodes \cap Running = {})
  BY DEF WizardVouched
<1>4. r.nodes # {} /\ r.view >= v => r.master = m
  BY <1>3 DEF MasterDisagrees
<1>5. Backed(m, v) => Backed(m, Default)
  BY DEF Backed
<1>6. Backed(m, Default) \/ (a.view = Default /\ a.nodes \cap Running = {})
  <2>1. CASE Backed(m, v)
    BY <1>5, <2>1
  <2>2. CASE v = Default /\ S \cap Running = {}
    <3>1. CASE r.nodes = {}
      BY <1>1, <1>2, <1>3, <2>2, <3>1
    <3>2. CASE r.nodes # {}
      <4>1. r.master = m
        BY <1>2, <1>4, <2>2, <3>2
      <4> QED BY <1>1, <1>2, <1>3, <2>2, <4>1
    <3> QED BY <3>1, <3>2
  <2> QED BY <2>1, <2>2 DEF Vouched
<1>7. FewStarting /\ IsOnline(added, h) => Backed(m, v)
  <2> SUFFICES ASSUME FewStarting, IsOnline(added, h) PROVE Backed(m, v)
    OBVIOUS
  <2>1. a.nodes \cap Running # {}
    BY <1>1, <1>2, TooManyStarting DEF IsOnline
  <2> QED BY <1>6, <2>1 DEF Vouched, Backed
<1>8. WizardVouched(added)
  <2> SUFFICES ASSUME NEW k \in AnyHeight
               PROVE  /\ added.response[k].nodes = {} => added.response[k].view = Default
                      /\ added.response[k].nodes # {} => k <= added.blockHeight
                      /\ \/ Backed(added.response[k].master, Default)
                         \/ /\ added.response[k].view = Default
                            /\ added.response[k].nodes \cap Running = {}
    BY DEF WizardVouched
  <2>1. CASE k = h
    BY <1>1, <1>2, <1>6, <2>1
  <2>2. CASE k # h
    BY <1>1, <1>2, <2>2 DEF WizardVouched
  <2> QED BY <2>1, <2>2
<1>9. \A k \in AnyHeight \ {h} : IsOnline(added, k) => IsOnline(w, k)
  BY <1>1 DEF IsOnline
<1> QED BY <1>6, <1>7, <1>8, <1>9 DEF JoinedWith

\* The parts of RejoinInv after a step of node n that sets n's wizard, master
\* and view.
LEMMA RejoinParts ==
    ASSUME RejoinInv, NEW n \in Node \ Running,
           \A p \in Node \ {n} : /\ wizard'[p] = wizard[p] /\ master'[p] = master[p]
                               /\ view'[p] = view[p] /\ notified'[p] = notified[p],
           WizardVouched(wizard'[n]),
           notified[n] \subseteq notified'[n],
           IF notified'[n] = {} THEN view'[n] = Default ELSE Backed(master'[n], view'[n]),
           \A h \in AnyHeight \ {Default} :
               IsOnline(wizard'[n], h) => IsOnline(wizard[n], h) \/ notified'[n] # {}
    PROVE  EntriesVouched' /\ StartersBacked' /\ OnlineNotified'
<1>2. ASSUME NEW p \in Node, p # n
      PROVE  /\ wizard'[p] = wizard[p] /\ master'[p] = master[p]
             /\ view'[p] = view[p] /\ notified'[p] = notified[p]
  BY <1>2
<1>4. ASSUME NEW p \in Node \ Running PROVE WizardVouched(wizard[p])'
  <2>1. WizardVouched(wizard'[p])
    BY <1>2 DEF RejoinInv, EntriesVouched
  <2> QED BY <2>1 DEF WizardVouched, Backed
<1>5. EntriesVouched'
  BY <1>4 DEF EntriesVouched
<1>6. StartersBacked'
  BY <1>2 DEF RejoinInv, StartersBacked, Backed
<1>7. OnlineNotified'
  <2> SUFFICES ASSUME NEW p \in Node \ Running, NEW h \in AnyHeight \ {Default},
                      IsOnline(wizard'[p], h)
               PROVE  notified'[p] # {}
    BY DEF OnlineNotified, IsOnline
  <2>1. CASE p = n
    BY <2>1 DEF RejoinInv, OnlineNotified
  <2>2. CASE p # n
    BY <1>2, <2>2 DEF RejoinInv, OnlineNotified
  <2> QED BY <2>1, <2>2
<1> QED BY <1>5, <1>6, <1>7

\* A step that leaves every node as it is.
LEMMA RejoinIdle ==
    ASSUME RejoinInv, UNCHANGED nodeVars
    PROVE  EntriesVouched' /\ StartersBacked' /\ OnlineNotified'
<1>1. EntriesVouched'
  BY DEF nodeVars, RejoinInv, EntriesVouched, WizardVouched, Backed
<1>2. StartersBacked'
  BY DEF nodeVars, RejoinInv, StartersBacked, Backed
<1>3. OnlineNotified'
  BY DEF nodeVars, RejoinInv, OnlineNotified, IsOnline
<1> QED BY <1>1, <1>2, <1>3

LEMMA ResponsesFewer ==
    ASSUME ResponsesVouched, resps' \subseteq resps PROVE ResponsesVouched'
  BY DEF ResponsesVouched, Vouched, Backed

\* What a starting node says of itself.
LEMMA SelfVouched ==
    ASSUME RejoinInv, NEW n \in Node \ Running, NEW S \in SUBSET Node, S \cap Running = {}
    PROVE  /\ wizard[n] \in Wizard /\ WizardVouched(wizard[n])
           /\ master[n] \in Node /\ view[n] \in AnyView
           /\ Vouched(S, master[n], view[n])
<1>1. wizard[n] \in Wizard /\ master[n] \in Node /\ view[n] \in AnyView
  BY DEF RejoinInv, OnlineTypeOK
<1>2. Vouched(S, master[n], view[n])
  BY DEF RejoinInv, StartersBacked, Vouched
<1> QED BY <1>1, <1>2 DEF RejoinInv, EntriesVouched

LEMMA SendRejoin ==
    ASSUME FewStarting, RejoinInv, NEW n \in Node, SendOnlineRequest(n)
    PROVE  ResponsesVouched' /\ EntriesVouched' /\ StartersBacked' /\ OnlineNotified'
<1> DEFINE h == CurrentHeight[n]
           added == AddOnlineResponse(wizard[n], h, {n}, master[n], view[n])
           reported == IF wizard[n].blockHeight > h THEN wizard[n].blockHeight ELSE h
<1>1. n \in Node \ Running /\ ResponsesVouched'
  BY ResponsesFewer DEF SendOnlineRequest, Panic, RejoinInv
<1>2. CASE UNCHANGED nodeVars
  BY <1>1, <1>2, RejoinIdle
<1>3. CASE /\ h = Default
           /\ ~MasterDisagrees(wizard[n], h, master[n], view[n])
           /\ wizard' = [wizard EXCEPT ![n] = added]
           /\ notified' = IF IsOnline(added, reported)
                          THEN [notified EXCEPT ![n] = @ \cup {reported}] ELSE notified
           /\ UNCHANGED <<master, view>>
  <2>1. /\ wizard[n] \in Wizard /\ h \in AnyHeight
        /\ wizard \in [Node -> Wizard] /\ notified \in [Node -> SUBSET AnyHeight]
    BY ConstantTypes DEF RejoinInv, OnlineTypeOK
  <2>2. reported \in AnyHeight
    BY <2>1 DEF Wizard
  <2> HIDE DEF reported
  <2>3. added = AddOnlineResponse(wizard[n], h, {n}, master[n], view[n])
    OBVIOUS
  <2> HIDE DEF h, added
  <2>4. /\ WizardVouched(added)
        /\ IsOnline(added, h) => Backed(master[n], view[n])
        /\ \A k \in AnyHeight \ {h} : IsOnline(added, k) => IsOnline(wizard[n], k)
    <3>1. Vouched({n}, master[n], view[n]) /\ WizardVouched(wizard[n])
          /\ master[n] \in Node /\ view[n] \in AnyView
      BY <1>1, SelfVouched
    <3>2. ~MasterDisagrees(wizard[n], h, master[n], view[n])
      BY <1>3
    <3>3. JoinedWith(added, wizard[n], h, master[n], view[n])
      BY <2>1, <2>3, <3>1, <3>2, Joining
    <3> QED BY <3>3 DEF JoinedWith
  <2>5. wizard'[n] = added /\ master'[n] = master[n] /\ view'[n] = view[n]
    BY <1>3, <2>1
  <2>6. notified'[n] = IF IsOnline(added, reported) THEN notified[n] \cup {reported} ELSE notified[n]
    BY <1>3, <2>1
  <2>7. \A p \in Node \ {n} : /\ wizard'[p] = wizard[p] /\ master'[p] = master[p]
                             /\ view'[p] = view[p] /\ notified'[p] = notified[p]
    BY <1>3, <2>1
  <2>8. IF notified[n] = {} THEN view[n] = Default ELSE Backed(master[n], view[n])
    BY <1>1 DEF RejoinInv, StartersBacked
  <2>9. notified[n] = {} /\ IsOnline(added, reported) => reported = h
    BY <1>1, <1>3, <2>2, <2>4 DEF RejoinInv, OnlineNotified
  <2>10. IF notified'[n] = {} THEN view'[n] = Default ELSE Backed(master'[n], view'[n])
    BY <2>4, <2>5, <2>6, <2>8, <2>9
  <2>11. \A k \in AnyHeight \ {Default} : IsOnline(wizard'[n], k) => IsOnline(wizard[n], k)
    BY <1>3, <2>4, <2>5
  <2>12. notified[n] \subseteq notified'[n] /\ WizardVouched(wizard'[n])
    BY <2>4, <2>5, <2>6
  <2>13. EntriesVouched' /\ StartersBacked' /\ OnlineNotified'
    BY <1>1, <2>7, <2>10, <2>11, <2>12, RejoinParts
  <2> QED BY <1>1, <2>13
<1>4. CASE h # Default /\ wizard' = wizard /\ notified' = notified /\ UNCHANGED <<master, view>>
  BY <1>1, <1>4, RejoinIdle DEF nodeVars
<1> QED BY <1>2, <1>3, <1>4 DEF SendOnlineRequest, Panic

LEMMA AnswerRejoin ==
    ASSUME RejoinInv, NEW n \in Node, NEW m \in reqs, Answer(n, m)
    PROVE  ResponsesVouched' /\ EntriesVouched' /\ StartersBacked' /\ OnlineNotified'
<1>1. resps' = resps \cup {Report(n, m.from, {n})} /\ UNCHANGED nodeVars
  BY DEF Answer
<1>2. Vouched({n}, master[n], view[n])
  <2>1. CASE n \in Running
    BY <2>1 DEF RejoinInv, RunningInv, RunningKept, Vouched, Backed
  <2>2. CASE n \notin Running
    BY <2>2, SelfVouched
  <2> QED BY <2>1, <2>2
<1>3. ResponsesVouched'
  BY <1>1, <1>2 DEF RejoinInv, ResponsesVouched, Report, Vouched, Backed
<1> QED BY <1>1, <1>3, RejoinIdle

LEMMA AnswerAtGenesisRejoin ==
    ASSUME FewStarting, RejoinInv, NEW n \in Node, NEW m \in reqs, AnswerAtGenesis(n, m)
    PROVE  ResponsesVouched' /\ EntriesVouched' /\ StartersBacked' /\ OnlineNotified'
<1> DEFINE accounts == IF m.height = Default THEN {n, m.from} ELSE {n}
           added == AddOnlineResponse(wizard[n], Default, accounts, master[n], view[n])
           list == added.response[Default].nodes
<1>1. /\ ~MasterDisagrees(wizard[n], Default, master[n], view[n])
      /\ wizard' = [wizard EXCEPT ![n] = added]
      /\ notified' = IF IsOnline(added, Default)
                     THEN [notified EXCEPT ![n] = @ \cup {Default}] ELSE notified
      /\ resps' = resps \cup {Report(n, p, list) : p \in Peer(n)}
      /\ UNCHANGED <<master, view>>
  BY DEF AnswerAtGenesis
<1>2. n \in Node \ Running /\ m.from \in Node \ Running
  BY DEF AnswerAtGenesis, RejoinInv, RunningInv, RunningKept, RunningSilent, OnlineTypeOK,
     OnlineRequest
<1>3. /\ accounts \in SUBSET Node /\ accounts # {} /\ accounts \cap Running = {}
      /\ wizard \in [Node -> Wizard] /\ notified \in [Node -> SUBSET AnyHeight]
      /\ Default \in AnyHeight
  BY <1>2, ConstantTypes DEF RejoinInv, OnlineTypeOK
<1> HIDE DEF accounts
<1>4. added = AddOnlineResponse(wizard[n], Default, accounts, master[n], view[n])
  OBVIOUS
<1> HIDE DEF added
<1>5. /\ wizard[n] \in Wizard /\ WizardVouched(wizard[n])
      /\ master[n] \in Node /\ view[n] \in AnyView
      /\ Vouched(accounts, master[n], view[n])
  BY <1>2, <1>3, SelfVouched
<1>6. /\ WizardVouched(added)
      /\ Backed(master[n], Default) \/ list \cap Running = {}
      /\ IsOnline(added, Default) => Backed(master[n], view[n])
      /\ \A k \in AnyHeight \ {Default} : IsOnline(added, k) => IsOnline(wizard[n], k)
  <2>1. ~MasterDisagrees(wizard[n], Default, master[n], view[n])
    BY <1>1
  <2>2. JoinedWith(added, wizard[n], Default, master[n], view[n])
    BY <1>3, <1>4, <1>5, <2>1, Joining
  <2> QED BY <2>2 DEF JoinedWith
<1>7. list # {}
  <2>1. Entered(added, wizard[n], Default, accounts, master[n], view[n])
    BY <1>3, <1>4, <1>5, Added
  <2> QED BY <1>3, <2>1 DEF Entered
<1>8. IF notified[n] = {} THEN view[n] = Default ELSE Backed(master[n], view[n])
  BY <1>2 DEF RejoinInv, StartersBacked
<1>9. Vouched(list, master[n], view[n])
  BY <1>6, <1>8 DEF Vouched
<1> HIDE DEF list
<1>10. ResponsesVouched'
  <2> SUFFICES ASSUME NEW r \in resps'
               PROVE  r.nodes # {} /\ Vouched(r.nodes, r.master, r.view)
    BY DEF ResponsesVouched, Vouched, Backed
  <2>1. CASE r \in resps
    BY <2>1 DEF RejoinInv, ResponsesVouched
  <2>2. CASE r \notin resps
    BY <1>1, <1>7, <1>9, <2>2 DEF Report
  <2> QED BY <2>1, <2>2
<1>11. /\ wizard'[n] = added /\ master'[n] = master[n] /\ view'[n] = view[n]
       /\ notified'[n] = IF IsOnline(added, Default) THEN notified[n] \cup {Default}
                         ELSE notified[n]
       /\ \A p \in Node \ {n} : /\ wizard'[p] = wizard[p] /\ master'[p] = master[p]
                               /\ view'[p] = view[p] /\ notified'[p] = notified[p]
  BY <1>1, <1>2, <1>3
<1>12. IF notified'[n] = {} THEN view'[n] = Default ELSE Backed(master'[n], view'[n])
  BY <1>6, <1>8, <1>11
<1>13. \A k \in AnyHeight \ {Default} : IsOnline(wizard'[n], k) => IsOnline(wizard[n], k)
  BY <1>6, <1>11
<1>14. notified[n] \subseteq notified'[n] /\ WizardVouched(wizard'[n])
  BY <1>6, <1>11
<1>15. EntriesVouched' /\ StartersBacked' /\ OnlineNotified'
  BY <1>2, <1>11, <1>12, <1>13, <1>14, RejoinParts
<1> QED BY <1>10, <1>15

LEMMA ResponseCountedRejoin ==
    ASSUME FewStarting, RejoinInv, NEW n \in Node, NEW m \in resps, m.to = n,
           ResponseCounted(n, m)
    PROVE  ResponsesVouched' /\ EntriesVouched' /\ StartersBacked' /\ OnlineNotified'
<1> DEFINE added == AddOnlineResponse(wizard[n], m.height, m.nodes, m.master, m.view)
           list == added.response[m.height].nodes
           forwarded(p) == [from |-> n, to |-> p, height |-> m.height, master |-> m.master,
                            nodes |-> list, view |-> Default]
<1>1. /\ ~MasterDisagrees(wizard[n], m.height, m.master, m.view)
      /\ ~IsOnline(wizard[n], m.height)
      /\ wizard' = [wizard EXCEPT ![n] = added]
      /\ \/ /\ IsOnline(added, m.height)
            /\ view' = [view EXCEPT ![n] = m.view]
            /\ master' = [master EXCEPT ![n] = m.master]
            /\ notified' = [notified EXCEPT ![n] = @ \cup {m.height}]
         \/ ~IsOnline(added, m.height) /\ UNCHANGED <<view, master, notified>>
      /\ resps' = (resps \ {m}) \cup
            IF m.height = Default THEN {forwarded(p) : p \in Peer(n)} ELSE {}
  BY DEF ResponseCounted
<1>2. n \in Node \ Running
  BY <1>1 DEF RejoinInv, RunningInv, RunningKept, RunningSilent
<1>3. /\ wizard \in [Node -> Wizard] /\ notified \in [Node -> SUBSET AnyHeight]
      /\ view \in [Node -> AnyView] /\ master \in [Node -> Node]
      /\ wizard[n] \in Wizard /\ m.height \in AnyHeight /\ m.nodes \in SUBSET Node
      /\ m.master \in Node /\ m.view \in AnyView
  BY DEF RejoinInv, OnlineTypeOK, OnlineResponse
<1>4. m.nodes # {} /\ Vouched(m.nodes, m.master, m.view) /\ WizardVouched(wizard[n])
  BY <1>2 DEF RejoinInv, ResponsesVouched, EntriesVouched
<1>5. added = AddOnlineResponse(wizard[n], m.height, m.nodes, m.master, m.view)
  OBVIOUS
<1> HIDE DEF added
<1>6. /\ WizardVouched(added)
      /\ Backed(m.master, Default) \/ list \cap Running = {}
      /\ IsOnline(added, m.height) => Backed(m.master, m.view)
      /\ \A k \in AnyHeight \ {m.height} : IsOnline(added, k) => IsOnline(wizard[n], k)
      /\ list # {}
  <2>1. ~MasterDisagrees(wizard[n], m.height, m.master, m.view)
    BY <1>1
  <2>2. JoinedWith(added, wizard[n], m.height, m.master, m.view)
    BY <1>3, <1>4, <1>5, <2>1, Joining
  <2>3. Entered(added, wizard[n], m.height, m.nodes, m.master, m.view)
    BY <1>3, <1>5, Added
  <2> QED BY <1>4, <2>2, <2>3 DEF JoinedWith, Entered
<1>7. Vouched(list, m.master, Default)
  BY <1>6 DEF Vouched
<1> HIDE DEF list
<1>8. ResponsesVouched'
  <2> SUFFICES ASSUME NEW r \in resps'
               PROVE  r.nodes # {} /\ Vouched(r.nodes, r.master, r.view)
    BY DEF ResponsesVouched, Vouched, Backed
  <2>1. CASE r \in resps
    BY <2>1 DEF RejoinInv, ResponsesVouched
  <2>2. CASE r \notin resps
    <3>1. r.nodes = list /\ r.master = m.master /\ r.view = Default
      BY <1>1, <2>2
    <3> QED BY <1>6, <1>7, <3>1
  <2> QED BY <2>1, <2>2
<1>9. /\ wizard'[n] = added
      /\ \/ /\ IsOnline(added, m.height)
            /\ view'[n] = m.view /\ master'[n] = m.master
            /\ notified'[n] = notified[n] \cup {m.height}
         \/ /\ ~IsOnline(added, m.height)
            /\ view'[n] = view[n] /\ master'[n] = master[n] /\ notified'[n] = notified[n]
      /\ \A p \in Node \ {n} : /\ wizard'[p] = wizard[p] /\ master'[p] = master[p]
                              /\ view'[p] = view[p] /\ notified'[p] = notified[p]
  BY <1>1, <1>2, <1>3
<1>10. IF notified[n] = {} THEN view[n] = Default ELSE Backed(master[n], view[n])
  BY <1>2 DEF RejoinInv, StartersBacked
<1>11. IF notified'[n] = {} THEN view'[n] = Default ELSE Backed(master'[n], view'[n])
  BY <1>6, <1>9, <1>10
<1>12. \A k \in AnyHeight \ {Default} :
         IsOnline(wizard'[n], k) => IsOnline(wizard[n], k) \/ notified'[n] # {}
  BY <1>6, <1>9
<1>13. notified[n] \subseteq notified'[n] /\ WizardVouched(wizard'[n])
  BY <1>6, <1>9
<1>14. EntriesVouched' /\ StartersBacked' /\ OnlineNotified'
  BY <1>2, <1>9, <1>11, <1>12, <1>13, RejoinParts
<1> QED BY <1>8, <1>14

LEMMA RejoinStep ==
    ASSUME FewStarting, RejoinInv, [Next]_vars
    PROVE  ResponsesVouched' /\ EntriesVouched' /\ StartersBacked' /\ OnlineNotified'
<1>1. CASE UNCHANGED vars
  <2>1. UNCHANGED nodeVars /\ resps' \subseteq resps
    BY <1>1 DEF vars, netVars
  <2> QED BY <2>1, RejoinIdle, ResponsesFewer DEF RejoinInv
<1>2. CASE Next
  <2>1. PICK n \in Node :
          SendOnlineRequest(n) \/ ReceiveOnlineRequest(n) \/ ReceiveOnlineResponse(n)
    BY <1>2 DEF Next, Step
  <2>2. CASE SendOnlineRequest(n)
    BY <2>2, SendRejoin
  <2>3. CASE ReceiveOnlineRequest(n)
    <3>1. PICK m \in reqs : Answer(n, m) \/ AnswerAtGenesis(n, m) \/ AnswerPanics(n)
      BY <2>3 DEF ReceiveOnlineRequest
    <3>2. CASE AnswerPanics(n)
      <4>1. UNCHANGED nodeVars /\ resps' = resps
        BY <3>2 DEF AnswerPanics, Panic
      <4> QED BY <4>1, RejoinIdle, ResponsesFewer DEF RejoinInv
    <3> QED BY <3>1, <3>2, AnswerRejoin, AnswerAtGenesisRejoin
  <2>4. CASE ReceiveOnlineResponse(n)
    <3>1. PICK m \in resps :
            m.to = n /\ (ResponseBelow(n, m) \/ ResponsePanics(n, m) \/ ResponseCounted(n, m))
      BY <2>4 DEF ReceiveOnlineResponse
    <3>2. CASE ResponseBelow(n, m) \/ ResponsePanics(n, m)
      <4>1. UNCHANGED nodeVars /\ resps' \subseteq resps
        BY <3>2 DEF ResponseBelow, ResponsePanics
      <4> QED BY <4>1, RejoinIdle, ResponsesFewer DEF RejoinInv
    <3> QED BY <3>1, <3>2, ResponseCountedRejoin
  <2> QED BY <2>1, <2>2, <2>3, <2>4
<1> QED BY <1>1, <1>2

LEMMA RejoinInit == ASSUME Init PROVE ResponsesVouched /\ EntriesVouched /\ StartersBacked /\ OnlineNotified
<1>1. ASSUME NEW n \in Node \ Running PROVE wizard[n] = NewOnlineWizard /\ view[n] = Default
  BY <1>1, OnlineAssumption DEF Init
<1>2. \A h \in AnyHeight : NewOnlineWizard.response[h] = NoNodes
  BY DEF NewOnlineWizard
<1>3. NoNodes.nodes = {} /\ NoNodes.view = Default
  BY DEF NoNodes
<1>4. EntriesVouched
  BY <1>1, <1>2, <1>3 DEF EntriesVouched, WizardVouched
<1>5. OnlineNotified
  <2>1. ~(Cardinality({}) >= Quorum)
    BY NAssumption, FS_EmptySet DEF Quorum, Tolerance
  <2> QED BY <1>1, <1>2, <1>3, <2>1 DEF OnlineNotified, IsOnline
<1>6. ResponsesVouched /\ StartersBacked
  BY <1>1 DEF Init, ResponsesVouched, StartersBacked
<1> QED BY <1>4, <1>5, <1>6

\* The inductive invariant of joining a running network: as long as the nodes
\* that are starting are no quorum, the master they come online with, and its
\* view number unless it is lost on the way, are those of a running node,
\* whatever masters and views the running nodes have and whoever panics.
THEOREM RejoinInvariant == ASSUME FewStarting PROVE Spec => []RejoinInv
<1>1. Init => ResponsesVouched /\ EntriesVouched /\ StartersBacked /\ OnlineNotified
  BY RejoinInit
<1>2. OnlineInv /\ RunningInv /\ ResponsesVouched /\ EntriesVouched /\ StartersBacked
        /\ OnlineNotified /\ [Next]_vars
        => (ResponsesVouched /\ EntriesVouched /\ StartersBacked /\ OnlineNotified)'
  BY RejoinStep DEF RejoinInv, OnlineInv
<1>3. OnlineInv /\ RunningInv /\ ResponsesVouched /\ EntriesVouched /\ StartersBacked
        /\ OnlineNotified => RejoinInv
  BY DEF RejoinInv, OnlineInv
<1> QED BY <1>1, <1>2, <1>3, OnlineInvariant, RunningInvariant, PTL DEF Spec

\* A node that comes online takes over the master of a running node.
THEOREM RejoinAgreementHolds == ASSUME FewStarting PROVE Spec => []RejoinAgreement
<1>1. RejoinInv => RejoinAgreement
  <2> SUFFICES ASSUME RejoinInv, NEW n \in Node, notified[n] # {}
               PROVE  \E p \in Running : view[n] \in {Default, FirstView[p]}
                                         /\ master[n] = FirstMaster[p]
    BY DEF RejoinAgreement
  <2>1. CASE n \in Running
    BY <2>1 DEF RejoinInv, RunningInv, RunningKept
  <2>2. CASE n \notin Running
    BY <2>2 DEF RejoinInv, StartersBacked, Backed
  <2> QED BY <2>1, <2>2
<1> QED BY <1>1, RejoinInvariant, PTL

=============================================================================
