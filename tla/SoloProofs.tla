----------------------------- MODULE SoloProofs -----------------------------
(***************************************************************************)
(* What the roles of module Solo guarantee for any finite set of accounts, *)
(* any largest version and any bounds: two accounts are never both master, *)
(* and the master is lost in two ways only.                                *)
(***************************************************************************)
EXTENDS Solo, FiniteSetTheorems, TLAPS

\* Every list of participants is finite.
LEMMA AccountSets ==
    ASSUME NEW S \in SUBSET Account
    PROVE  /\ IsFiniteSet(S) /\ Cardinality(S) \in Nat
           /\ Cardinality(S) = 0 <=> S = {}
  BY SoloAssumption, FS_Subset, FS_CardinalityType, FS_EmptySet

\* What toSoloProposal and prepareConsensus make of any version: the next one
\* is a version again, and above the one compared with, the largest included.
LEMMA VersionStep ==
    ASSUME version \in 0 .. MaxUint64
    PROVE  /\ Reset \in 0 .. MaxUint64 /\ NextVersion \in 0 .. MaxUint64
           /\ NextVersion = Reset + 1
<1>1. Reset \in Nat /\ Reset < MaxUint64
  BY SoloAssumption DEF Reset
<1>2. (Reset + 1) % (MaxUint64 + 1) = Reset + 1
  BY <1>1, SoloAssumption
<1> QED BY <1>1, <1>2, SoloAssumption DEF NextVersion

\* The delegate that is master has the id (height + 1) % delegates: at most
\* one, and one if the delegates have the ids 0 .. n-1.
LEMMA DelegateMasterUnique ==
    /\ DelegateMaster \subseteq participates
    /\ \A a, b \in DelegateMaster : a = b
  BY DEF DelegateMaster

LEMMA DelegateMasterExists ==
    ASSUME height \in Nat, participates \subseteq Account, participates # {},
           participates = 0 .. (Cardinality(participates) - 1)
    PROVE  DelegateMaster # {}
<1> DEFINE k == Cardinality(participates)
<1>1. k \in Nat /\ k # 0
  BY AccountSets
<1>2. (height + 1) % k \in 0 .. (k - 1)
  <2> HIDE DEF k
  <2> QED BY <1>1
<1> QED BY <1>2 DEF DelegateMaster

\* One participant is the only member of the list.
LEMMA OneMember ==
    ASSUME NEW S, Cardinality(S) = 1, IsFiniteSet(S)
    PROVE  \E x : S = {x}
  BY FS_Singleton

-----------------------------------------------------------------------------
(* The roles *)

\* OneMasterAtMost, without counting.
MasterUnique == \A a, b \in Masters : a = b

RolesTyped == assignments \in [Account -> Role]

RolesInv == RolesTyped /\ MasterUnique /\ MasterKept

\* Assign replaces all roles: those on the list are assigned, M is master.
LEMMA AssignRoles ==
    ASSUME NEW M \in SUBSET participates, participates \subseteq Account, Assign(M),
           \A a, b \in M : a = b,
           participates # {} /\ participates = 0 .. (Cardinality(participates) - 1) => M # {}
    PROVE  RolesInv'
<1>1. \A a \in Account : assignments'[a] = IF a \in M THEN "master"
                             ELSE IF a \in participates THEN "slave" ELSE "none"
  BY DEF Assign
<1>2. Masters' = M /\ Assigned' = participates
  BY <1>1 DEF Masters, Assigned
<1>3. RolesTyped'
  BY DEF Assign, RolesTyped, Role
<1> QED BY <1>2, <1>3 DEF RolesInv, MasterUnique, MasterKept

\* AppointRole leaves at most the account appointed, and nobody if that was
\* the master.
LEMMA AppointRoles ==
    ASSUME RolesInv, NEW a \in Account, AppointRole(a), vacated' = (vacated \/ a \in Masters)
    PROVE  RolesInv'
<1>1. PICK pre \in Masters :
        assignments' = [[assignments EXCEPT ![a] = "master"] EXCEPT ![pre] = "slave"]
  BY DEF AppointRole
<1>2. a \in Assigned /\ pre \in Account /\ Masters = {pre}
  BY <1>1 DEF AppointRole, RolesInv, MasterUnique, Masters
<1>3. RolesTyped'
  BY <1>1, <1>2 DEF RolesInv, RolesTyped, Role
<1>4. \A b \in Account : assignments'[b] = IF b = pre THEN "slave"
                             ELSE IF b = a THEN "master" ELSE assignments[b]
  BY <1>1, <1>2 DEF RolesInv, RolesTyped
<1>5. Masters' = {a} \ {pre}
  BY <1>2, <1>4 DEF Masters
<1>6. Assigned' = Assigned
  BY <1>2, <1>4 DEF Assigned, Masters
<1>7. MasterKept'
  <2>1. CASE a = pre
    BY <1>2, <2>1 DEF MasterKept
  <2>2. CASE a # pre
    BY <1>5, <2>2 DEF MasterKept
  <2> QED BY <2>1, <2>2
<1> QED BY <1>3, <1>5, <1>7 DEF RolesInv, MasterUnique

\* ChangeRoleAssignment leaves the account named as the only master, if it is
\* assigned a role.
LEMMA ChangeAssignment ==
    ASSUME RolesInv, NEW id \in Account, ChangeRoleAssignment(id),
           vacated' = (id \notin Assigned)
    PROVE  RolesInv'
<1>1. \A b \in Account : assignments'[b] = IF b \notin Assigned THEN "none"
                             ELSE IF b = id THEN "master" ELSE "slave"
  BY DEF ChangeRoleAssignment
<1>2. Masters' = Assigned \cap {id} /\ Assigned' = Assigned
  BY <1>1 DEF Masters, Assigned
<1>3. RolesTyped'
  BY DEF ChangeRoleAssignment, RolesTyped, Role
<1>4. MasterKept'
  BY <1>2 DEF MasterKept
<1> QED BY <1>2, <1>3, <1>4 DEF RolesInv, MasterUnique

LEMMA RolesKept ==
    ASSUME RolesInv, UNCHANGED roleVars PROVE RolesInv'
  BY DEF RolesInv, RolesTyped, MasterUnique, MasterKept, Masters, Assigned, roleVars

LEMMA ChangeRolesKeeps == ASSUME RolesInv, ChangeRoles PROVE RolesInv'
<1>1. PICK a \in Account :
        \/ AppointRole(a) /\ vacated' = (vacated \/ a \in Masters)
        \/ ChangeRoleAssignment(a) /\ vacated' = (a \notin Assigned)
  BY DEF ChangeRoles
<1> QED BY <1>1, AppointRoles, ChangeAssignment

LEMMA RoleAssignmentsKeeps ==
    ASSUME SoloTypeOK, RolesInv, RoleAssignments PROVE RolesInv'
<1>1. participates \subseteq Account /\ height \in Nat
  BY DEF SoloTypeOK
<1>2. CASE SoloAssigned
  <2>1. Assign(participates) /\ \A a, b \in participates : a = b
    BY <1>1, <1>2, AccountSets, OneMember DEF SoloAssigned
  <2> QED BY <1>1, <2>1, AssignRoles
<1>3. CASE DposAssigned
  BY <1>1, <1>3, AssignRoles, DelegateMasterUnique, DelegateMasterExists DEF DposAssigned
<1>4. CASE SoloRefused \/ DposPanics
  BY <1>4, RolesKept DEF SoloRefused, DposPanics
<1> QED BY <1>2, <1>3, <1>4 DEF RoleAssignments

LEMMA RolesStep == ASSUME SoloTypeOK, RolesInv, [SoloNext]_soloVars PROVE RolesInv'
<1>1. CASE UNCHANGED soloVars
  BY <1>1, RolesKept DEF soloVars
<1>2. CASE ChangeRoles
  BY <1>2, ChangeRolesKeeps
<1>3. CASE RoleAssignments
  BY <1>3, RoleAssignmentsKeeps
<1>4. CASE \/ React \/ GetParticipates \/ GetDelegatesByCount \/ Initialization \/ ToConsensus
           \/ CommitBlock \/ StoreBlock \/ Elect
  <2>1. UNCHANGED roleVars
    BY <1>4 DEF React, GetParticipates, GetDelegatesByCount, Initialization, ToConsensus,
       CommitBlock, StoreBlock, Elect
  <2> QED BY <2>1, RolesKept
<1> QED BY <1>1, <1>2, <1>3, <1>4 DEF SoloNext, Progress

-----------------------------------------------------------------------------
(* Types *)

\* The calls of the upper layer up to the role assignment.
LEMMA ParticipatesTyped ==
    ASSUME SoloTypeOK, React \/ GetParticipates \/ GetDelegatesByCount \/ Elect
    PROVE  SoloTypeOK'
<1>1. listed \subseteq Account /\ Cardinality(listed) \in Nat
  BY AccountSets DEF SoloTypeOK
<1>2. CASE React
  BY <1>2 DEF React, SoloTypeOK, roleVars, policyVars, Pc
<1>3. CASE GetParticipates
  <2>1. /\ members' \in Nat /\ participates' \subseteq Account /\ pc' \in Pc
    <3>1. CASE OneParticipate
      BY <3>1, SoloAssumption DEF OneParticipate, Pc
    <3>2. CASE NodeNumber
      BY <1>1, <3>2 DEF NodeNumber, Pc, SoloTypeOK
    <3> QED BY <1>3, <3>1, <3>2 DEF GetParticipates
  <2> QED BY <1>3, <2>1 DEF GetParticipates, SoloTypeOK, roleVars, policyVars
<1>4. CASE GetDelegatesByCount
  <2>1. participates' \subseteq Account /\ pc' \in Pc
    BY <1>1, <1>4 DEF GetDelegatesByCount, Pc
  <2> QED BY <1>4, <2>1 DEF GetDelegatesByCount, SoloTypeOK, roleVars, policyVars
<1>5. CASE Elect
  BY <1>5 DEF Elect, SoloTypeOK, roleVars, policyVars
<1> QED BY <1>2, <1>3, <1>4, <1>5

LEMMA AssignTyped ==
    ASSUME SoloTypeOK, NEW M \in SUBSET participates, Assign(M)
    PROVE  /\ vacated' \in BOOLEAN /\ master' \in Account \cup {None}
           /\ pc' \in Pc /\ events' \subseteq Event
<1>1. M = {} \/ (CHOOSE a \in M : TRUE) \in Account
  BY DEF SoloTypeOK
<1> QED BY <1>1 DEF Assign, Pc, SoloTypeOK

LEMMA RoleAssignmentsTyped ==
    ASSUME SoloTypeOK, RolesInv', RoleAssignments PROVE SoloTypeOK'
<1>1. /\ vacated' \in BOOLEAN /\ master' \in Account \cup {None}
      /\ pc' \in Pc /\ events' \subseteq Event
  <2>1. CASE SoloAssigned
    BY <2>1, AssignTyped DEF SoloAssigned
  <2>2. CASE DposAssigned
    BY <2>2, AssignTyped, DelegateMasterUnique DEF DposAssigned
  <2>3. CASE SoloRefused
    BY <2>3 DEF SoloRefused, roleVars, SoloTypeOK, Pc, Event
  <2>4. CASE DposPanics
    BY <2>4 DEF DposPanics, roleVars, SoloTypeOK, Pc
  <2> QED BY <2>1, <2>2, <2>3, <2>4 DEF RoleAssignments
<1> QED BY <1>1 DEF RoleAssignments, SoloTypeOK, RolesInv, RolesTyped

LEMMA ChangeRolesTyped ==
    ASSUME SoloTypeOK, RolesInv', ChangeRoles PROVE SoloTypeOK'
<1>1. vacated' \in BOOLEAN
  BY DEF ChangeRoles, SoloTypeOK
<1> QED BY <1>1 DEF ChangeRoles, SoloTypeOK, RolesInv, RolesTyped, policyVars

\* The consensus policy and the block switch.
LEMMA InitializationTyped ==
    ASSUME SoloTypeOK, Initialization PROVE SoloTypeOK'
<1>1. /\ peers' \subseteq Account /\ block' \in Block \cup {None} /\ pc' \in Pc
  BY DEF Initialization, SoloTypeOK, Pc
<1> QED BY <1>1 DEF Initialization, SoloTypeOK, roleVars

LEMMA ToConsensusTyped ==
    ASSUME SoloTypeOK, ToConsensus PROVE SoloTypeOK'
<1>1. version' \in 0 .. MaxUint64
  BY VersionStep DEF ToConsensus, Failed, WithoutTxs, Commit, SoloTypeOK
<1>2. pc' \in Pc /\ events' \subseteq Event
  BY DEF ToConsensus, Failed, WithoutTxs, Commit, SoloTypeOK, Pc, Event
<1> QED BY <1>1, <1>2 DEF ToConsensus, SoloTypeOK, roleVars

LEMMA BlockSwitchTyped ==
    ASSUME SoloTypeOK, CommitBlock \/ StoreBlock PROVE SoloTypeOK'
<1>1. switch' \in 0 .. Capacity /\ height' \in Nat
  BY SoloAssumption DEF CommitBlock, StoreBlock, SoloTypeOK
<1>2. events' \subseteq Event /\ pc' \in Pc
  BY DEF CommitBlock, StoreBlock, SoloTypeOK, Pc, Event
<1>3. CASE CommitBlock
  BY <1>1, <1>2, <1>3 DEF CommitBlock, SoloTypeOK, roleVars, policyVars
<1>4. CASE StoreBlock
  BY <1>1, <1>2, <1>4 DEF StoreBlock, SoloTypeOK, roleVars, policyVars
<1> QED BY <1>3, <1>4

LEMMA TypeStep ==
    ASSUME SoloTypeOK, RolesInv', [SoloNext]_soloVars PROVE SoloTypeOK'
<1>1. CASE UNCHANGED soloVars
  BY <1>1 DEF soloVars, roleVars, policyVars, SoloTypeOK
<1>2. CASE React \/ GetParticipates \/ GetDelegatesByCount \/ Elect
  BY <1>2, ParticipatesTyped
<1>3. CASE RoleAssignments \/ ChangeRoles
  BY <1>3, RoleAssignmentsTyped, ChangeRolesTyped
<1>4. CASE Initialization \/ ToConsensus \/ CommitBlock \/ StoreBlock
  BY <1>4, InitializationTyped, ToConsensusTyped, BlockSwitchTyped
<1> QED BY <1>1, <1>2, <1>3, <1>4 DEF SoloNext, Progress

-----------------------------------------------------------------------------
(* Theorems *)

\* Types and roles together are inductive.
THEOREM SoloInvariant == SoloSpec => [](SoloTypeOK /\ RolesInv)
<1>1. SoloInit => SoloTypeOK /\ RolesInv
  <2> SUFFICES ASSUME SoloInit PROVE SoloTypeOK /\ RolesInv
    OBVIOUS
  <2>1. Masters = {} /\ Assigned = {}
    BY DEF SoloInit, Masters, Assigned
  <2>2. RolesInv
    BY <2>1 DEF SoloInit, RolesInv, RolesTyped, MasterUnique, MasterKept, Role
  <2>3. /\ listed \subseteq Account /\ version \in 0 .. MaxUint64 /\ switch \in 0 .. Capacity
        /\ pc \in Pc /\ events \subseteq Event
    BY SoloAssumption DEF SoloInit, Pc, Event
  <2>4. assignments \in [Account -> Role]
    BY <2>2 DEF RolesInv, RolesTyped
  <2> QED BY <2>2, <2>3, <2>4 DEF SoloInit, SoloTypeOK
<1>2. SoloTypeOK /\ RolesInv /\ [SoloNext]_soloVars => (SoloTypeOK /\ RolesInv)'
  BY RolesStep, TypeStep
<1> QED BY <1>1, <1>2, PTL DEF SoloSpec

\* Every variable keeps its type; in particular no version leaves the 64 bits.
THEOREM SoloTypes == SoloSpec => []SoloTypeOK
BY SoloInvariant, PTL

\* However RoleAssignments, AppointRole and ChangeRoleAssignment follow one
\* another, no two accounts are master.
THEOREM OneMasterHolds == SoloSpec => []OneMasterAtMost
<1>1. SoloTypeOK /\ RolesInv => OneMasterAtMost
  <2> SUFFICES ASSUME SoloTypeOK, RolesInv PROVE OneMasterAtMost
    OBVIOUS
  <2>1. CASE Masters = {}
    BY <2>1, FS_EmptySet DEF OneMasterAtMost
  <2>2. CASE Masters # {}
    <3>1. PICK a : Masters = {a}
      BY <2>2 DEF RolesInv, MasterUnique
    <3> QED BY <3>1, FS_Singleton DEF OneMasterAtMost
  <2> QED BY <2>1, <2>2
<1> QED BY <1>1, SoloInvariant, PTL

\* Delegates with the ids 0 .. n-1 have a master until AppointRole is given
\* the master itself, or ChangeRoleAssignment an id without a role.
THEOREM MasterKeptHolds == SoloSpec => []MasterKept
<1>1. RolesInv => MasterKept
  BY DEF RolesInv
<1> QED BY <1>1, SoloInvariant, PTL

\* prepareConsensus never refuses the version toSoloProposal has made, not
\* even after the largest one: whether a block is accepted depends on the
\* validator and on this node's signature alone.
THEOREM VersionNeverRefused ==
    SoloSpec => [](pc = "consensus" => (Accepted <=> block.valid /\ block.signed))
<1>1. SoloTypeOK => (pc = "consensus" => (Accepted <=> block.valid /\ block.signed))
  <2> SUFFICES ASSUME SoloTypeOK PROVE NextVersion > Reset
    BY DEF Accepted
  <2> QED BY VersionStep DEF SoloTypeOK
<1> QED BY <1>1, SoloTypes, PTL
=============================================================================
