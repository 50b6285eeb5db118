-------------------------------- MODULE Solo --------------------------------
(***************************************************************************)
(* A node that runs the solo policy: the participates policy names the     *)
(* participants, the role policy the master among them, the consensus      *)
(* policy decides on the master's block and the block switch stores it.    *)
(*                                                                         *)
(* The upper layer calls the three in this order on every notification;    *)
(* each action is one such call.  AppointRole and ChangeRoleAssignment may *)
(* come at any time.  The DPOS policies are modelled for any set of        *)
(* accounts; the solo policy panics unless it counts one participant.      *)
(***************************************************************************)
EXTENDS Integers, FiniteSets

CONSTANTS
    Account,      \* the accounts, by their Extension.Id
    Local,        \* this node's account
    None,         \* no account, no block
    SoloAccount,  \* the one the solo participates policy names
    MaxUint64,    \* the largest version, math.MaxUint64 in the code
    Uint8Modulus, \* of the consensus policy's count of participants, 256 in the code
    Capacity,     \* of the block switch channel
    MaxHeight,    \* bound: blocks stored
    MaxCalls      \* bound: changes of the node list and of roles by others

ASSUME SoloAssumption ==
    /\ Account \subseteq Nat /\ IsFiniteSet(Account)
    /\ Local \in Account /\ SoloAccount \in Account /\ None \notin Account
    /\ MaxUint64 \in Nat \ {0}
    /\ Uint8Modulus \in Nat \ {0, 1}
    /\ Capacity \in Nat /\ MaxHeight \in Nat /\ MaxCalls \in Nat

Role == {"master", "slave", "none"}
\* What ToConsensus tells apart: transactions, the validator's verdict and
\* that on the signatures: this node's is among the valid ones and their
\* number, as a uint8, is not zero.
Block == [txs : BOOLEAN, valid : BOOLEAN, signed : BOOLEAN]
Config == [participates : {"solo", "dpos"}, role : {"solo", "dpos"}, enableEmptyBlock : BOOLEAN]

VARIABLES
    config,        \* the policies NewParticipates and NewRole have made
    listed,        \* the voting contract's node list
    calls,         \* number of calls of others so far
    members,       \* members of the DPOS participates policy
    participates,  \* what GetParticipates returned
    assignments,   \* assignments of the role policy; "none": not in the map
    vacated,       \* history: the master has been appointed again or away
    peers,         \* peers of the consensus policy
    master,        \* its master
    version,       \* its version
    pc,            \* the upper layer's next call
    block,         \* the block it offers
    switch,        \* number of blocks in the block switch channel
    height,        \* height of the repository's current block
    events         \* notifications the upper layer has not acted on

roleVars == <<assignments, vacated>>
policyVars == <<peers, master, version, block>>
soloVars == <<config, listed, calls, members, participates, roleVars, policyVars, pc, switch,
              height, events>>

Event == {"Online", "ConsensusFailed", "BlockWithoutTxs", "BlockCommitted"}
Pc == {"wait", "participates", "list", "role", "initialization", "consensus", "switch", "panic"}

SoloTypeOK ==
    /\ config \in Config
    /\ listed \subseteq Account
    /\ calls \in Nat
    /\ members \in Nat
    /\ participates \subseteq Account
    /\ assignments \in [Account -> Role]
    /\ vacated \in BOOLEAN
    /\ peers \subseteq Account
    /\ master \in Account \cup {None}
    /\ version \in 0 .. MaxUint64
    /\ pc \in Pc
    /\ block \in Block \cup {None}
    /\ switch \in 0 .. Capacity
    /\ height \in Nat
    /\ events \subseteq Event

Assigned == {a \in Account : assignments[a] # "none"}
Masters == {a \in Account : assignments[a] = "master"}

-----------------------------------------------------------------------------
(* Participates *)

\* Votes change the contract's node list.
Elect ==
    /\ calls < MaxCalls
    /\ calls' = calls + 1
    /\ listed' \in SUBSET Account
    /\ UNCHANGED <<config, members, participates, roleVars, policyVars, pc, switch, height, events>>

\* A notification starts the next round.
React ==
    /\ pc = "wait" /\ height < MaxHeight
    /\ \E e \in events : events' = events \ {e}
    /\ pc' = "participates"
    /\ UNCHANGED <<config, listed, calls, members, participates, roleVars, policyVars, switch,
                   height>>

\* The solo policy's GetParticipates.
OneParticipate ==
    /\ config.participates = "solo"
    /\ members' = 1
    /\ participates' = {SoloAccount}
    /\ pc' = "role"

\* getDelegates first asks how many there are.
NodeNumber ==
    /\ config.participates = "dpos"
    /\ members' = Cardinality(listed)
    /\ pc' = "list"
    /\ UNCHANGED participates

GetParticipates ==
    /\ pc = "participates"
    /\ OneParticipate \/ NodeNumber
    /\ UNCHANGED <<config, listed, calls, roleVars, policyVars, switch, height, events>>

\* Then it asks for that many, of a list that may have changed meanwhile.
GetDelegatesByCount ==
    /\ pc = "list"
    /\ \E S \in SUBSET listed :
          /\ Cardinality(S) = IF members <= Cardinality(listed) THEN members ELSE Cardinality(listed)
          /\ participates' = S
    /\ pc' = "role"
    /\ UNCHANGED <<config, listed, calls, members, roleVars, policyVars, switch, height, events>>

-----------------------------------------------------------------------------
(* Roles *)

\* Faulty variant: one delegate too many in the rotation.
DelegateMasterBeyond == {a \in participates : a = (height + 1) % (Cardinality(participates) + 1)}

\* The account with id (height + 1) % delegates, if there is one.
DelegateMaster == {a \in participates : a = (height + 1) % Cardinality(participates)}

Assign(M) ==
    /\ assignments' = [a \in Account |-> IF a \in M THEN "master"
                                         ELSE IF a \in participates THEN "slave" ELSE "none"]
    /\ vacated' = FALSE
    /\ master' = IF M = {} THEN None ELSE CHOOSE a \in M : TRUE
    /\ pc' = "initialization"
    /\ UNCHANGED events

\* The solo policy wants one participant and makes it master.
SoloAssigned ==
    /\ config.role = "solo" /\ Cardinality(participates) = 1
    /\ Assign(participates)

\* Its error leaves the roles alone; the upper layer tries again.
SoloRefused ==
    /\ config.role = "solo" /\ Cardinality(participates) # 1
    /\ events' = events \cup {"ConsensusFailed"}
    /\ pc' = "wait"
    /\ UNCHANGED <<roleVars, master>>

DposAssigned ==
    /\ config.role = "dpos" /\ participates # {}
    /\ Assign(DelegateMaster)

\* No delegates: the remainder of a division by zero.
DposPanics ==
    /\ config.role = "dpos" /\ participates = {}
    /\ pc' = "panic"
    /\ UNCHANGED <<roleVars, master, events>>

RoleAssignments ==
    /\ pc = "role"
    /\ SoloAssigned \/ SoloRefused \/ DposAssigned \/ DposPanics
    /\ UNCHANGED <<config, listed, calls, members, participates, peers, version, block, switch,
                   height>>

\* Faulty variant: the old master keeps its role.
AppointRoleBoth(a) ==
    /\ a \in Assigned /\ Masters # {}
    /\ assignments' = [assignments EXCEPT ![a] = "master"]

\* AppointRole of the DPOS policy: the old master is demoted last, even if it
\* is the one to be appointed.
AppointRole(a) ==
    /\ a \in Assigned /\ Masters # {}
    /\ \E pre \in Masters :
          assignments' = [[assignments EXCEPT ![a] = "master"] EXCEPT ![pre] = "slave"]

\* ChangeRoleAssignment of both policies, on the map RoleAssignments returned.
ChangeRoleAssignment(id) ==
    assignments' = [a \in Account |-> IF a \notin Assigned THEN "none"
                                      ELSE IF a = id THEN "master" ELSE "slave"]

ChangeRoles ==
    /\ calls < MaxCalls
    /\ calls' = calls + 1
    /\ \E a \in Account :
          \/ /\ config.role = "dpos" /\ AppointRole(a)
             /\ vacated' = (vacated \/ a \in Masters)
          \/ /\ ChangeRoleAssignment(a)
             /\ vacated' = (a \notin Assigned)
    /\ UNCHANGED <<config, listed, members, participates, policyVars, pc, switch, height, events>>

-----------------------------------------------------------------------------
(* Consensus *)

\* uint8(len(accounts)): one more than the modulus counts as one.
Uint8Count(S) == Cardinality(S) % Uint8Modulus

\* Initialization panics unless it counts one participant; a node that is not
\* the master waits, the master's producer makes a block.
Initialization ==
    /\ pc = "initialization"
    /\ \/ /\ Uint8Count(participates) # 1
          /\ pc' = "panic"
          /\ UNCHANGED <<peers, block>>
       \/ /\ Uint8Count(participates) = 1
          /\ peers' = participates
          /\ \/ master # Local /\ pc' = "wait" /\ UNCHANGED block
             \/ master = Local /\ pc' = "consensus" /\ block' \in Block
    /\ UNCHANGED <<config, listed, calls, members, participates, roleVars, master, version,
                   switch, height, events>>

\* Faulty variant: the version is not reset.
ResetNever == version

\* toSoloProposal starts over after the largest version.
Reset == IF version = MaxUint64 THEN 0 ELSE version

\* Faulty variant: neither reset nor wrapped around.
NextVersionBeyond == version + 1

\* version + 1 in 64 bits.
NextVersion == (Reset + 1) % (MaxUint64 + 1)

\* prepareConsensus, toConsensus (whose count of the peers Initialization has
\* made) and the check of the signatures.
Accepted == NextVersion > Reset /\ block.valid /\ block.signed

Failed ==
    /\ ~Accepted
    /\ version' = Reset
    /\ events' = events \cup {"ConsensusFailed"}
    /\ pc' = "wait"

\* Faulty variant: nobody is told of a block that is not worth storing.
WithoutTxsSilent ==
    /\ Accepted /\ ~config.enableEmptyBlock /\ ~block.txs
    /\ version' = NextVersion
    /\ pc' = "wait"
    /\ UNCHANGED events

\* commitBlock drops a block without transactions.
WithoutTxs ==
    /\ Accepted /\ ~config.enableEmptyBlock /\ ~block.txs
    /\ version' = NextVersion
    /\ events' = events \cup {"BlockWithoutTxs"}
    /\ pc' = "wait"

\* commitBlock is about to send the block to the switch.
Commit ==
    /\ Accepted /\ (config.enableEmptyBlock \/ block.txs)
    /\ version' = NextVersion
    /\ pc' = "switch"
    /\ UNCHANGED events

ToConsensus ==
    /\ pc = "consensus"
    /\ Failed \/ WithoutTxs \/ Commit
    /\ UNCHANGED <<config, listed, calls, members, participates, roleVars, peers, master, block,
                   switch, height>>

\* The send blocks while the channel is full.
CommitBlock ==
    /\ pc = "switch" /\ switch < Capacity
    /\ switch' = switch + 1
    /\ pc' = "wait"
    /\ UNCHANGED <<config, listed, calls, members, participates, roleVars, policyVars, height,
                   events>>

\* The other end of the block switch stores the block and announces it.
StoreBlock ==
    /\ switch > 0
    /\ switch' = switch - 1
    /\ height' = height + 1
    /\ events' = events \cup {"BlockCommitted"}
    /\ UNCHANGED <<config, listed, calls, members, participates, roleVars, policyVars, pc>>

-----------------------------------------------------------------------------
(* Specification *)

\* Online has notified the upper layer.
SoloInit ==
    /\ config \in Config
    /\ listed = {Local}
    /\ calls = 0
    /\ members = 0
    /\ participates = {}
    /\ assignments = [a \in Account |-> "none"]
    /\ vacated = FALSE
    /\ peers = {}
    /\ master = None
    /\ version = 0
    /\ pc = "wait"
    /\ block = None
    /\ switch = 0
    /\ height = 0
    /\ events = {"Online"}

Progress ==
    \/ React \/ GetParticipates \/ GetDelegatesByCount \/ RoleAssignments
    \/ Initialization \/ ToConsensus \/ CommitBlock \/ StoreBlock

SoloNext == Progress \/ Elect \/ ChangeRoles

\* The upper layer goes on and the block switch is read.
SoloSpec == SoloInit /\ [][SoloNext]_soloVars /\ WF_soloVars(Progress)

-----------------------------------------------------------------------------
(* Properties *)

\* No two accounts are master, whatever is appointed, changed and assigned in
\* between.
OneMasterAtMost == Cardinality(Masters) <= 1

\* Among delegates with the ids 0 .. n-1 there is a master, unless AppointRole
\* was given the master itself or ChangeRoleAssignment an id that is not there:
\* then AppointRole refuses every further call.
MasterKept ==
    Assigned # {} /\ Assigned = 0 .. (Cardinality(Assigned) - 1) => Masters # {} \/ vacated

\* A block that is valid and signed by this node is stored, or announced as
\* one without transactions: no version, not even the largest, is refused.
GoodBlockDecided ==
    (pc = "consensus" /\ block.valid /\ block.signed) ~>
        (pc = "switch" \/ "BlockWithoutTxs" \in events)

\* While this node is the only one listed and has the id 0, rounds follow one
\* another up to the last height modelled: each ends with a notification or a
\* block that the switch announces.
KeepsProducing ==
    <>(height = MaxHeight \/ listed # {Local} \/ Local # 0 \/ SoloAccount # Local
       \/ pc = "panic") \/ []<>(pc = "consensus")
=============================================================================
