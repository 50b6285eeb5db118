-------------------------- MODULE ConsensusPlugin --------------------------
(***************************************************************************)
(* consensus/common/plugin.go: the per-node cache of block contents that   *)
(* the policies vote on.  A cache is a function from blocks to Content     *)
(* records; state 0 (the unused first value of the contentState iota)      *)
(* stands for "no entry".                                                  *)
(*                                                                         *)
(* The field "round" is the identity of the Content object: the request    *)
(* that created it, or 0 when a proposal from a peer did.  waitResponse    *)
(* keeps a pointer to the object while the map entry may be evicted and    *)
(* created again, so identity matters.                                     *)
(***************************************************************************)
EXTENDS Blocks

CONSTANTS
    MaxPayloadCacheNum,  \* maxPayloadCacheNum
    UintModulus          \* 2^64 in the code: heights are uint64

ASSUME PluginAssumption ==
    /\ MaxPayloadCacheNum \in Nat
    /\ UintModulus \in Nat \ {0}

\* The values of contentState; Absent is the map having no entry.
Absent == 0
Initial == 1
InConsensus == 2
ToConsensusState == 3

Content == [state : 0 .. 3, signers : SUBSET Node, round : Nat]
Cache == [Block -> Content]

NoContent == [state |-> Absent, signers |-> {}, round |-> 0]
NewContent(r) == [state |-> Initial, signers |-> {}, round |-> r]

\* GetContentByHash finds an entry.
Has(cache, b) == cache[b].state # Absent

\* Faulty variant: the subtraction does not wrap around.
EvictedSigned(b) == {c \in Block : Height[c] < Height[b] - MaxPayloadCacheNum}

\* The entries Add deletes first.  The subtraction is done in uint64, so it
\* wraps around for the first MaxPayloadCacheNum heights of the chain.
Evicted(b) ==
    {c \in Block : Height[c] < (Height[b] - MaxPayloadCacheNum) % UintModulus}

\* ConsensusPlugin.Add: evict, then create the entry if there is none.
Add(cache, b, r) ==
    [c \in Block |->
        CASE c = b /\ (b \in Evicted(b) \/ ~Has(cache, b)) -> NewContent(r)
          [] c # b /\ c \in Evicted(b) -> NoContent
          [] OTHER -> cache[c]]

\* ConsensusPlugin.Remove: forget b and everything not above it, if b is there.
Remove(cache, b) ==
    [c \in Block |->
        IF Has(cache, b) /\ Height[c] <= Height[b] THEN NoContent ELSE cache[c]]

\* Content.SetState: a state moves up by exactly one (a uint8 difference);
\* anything else is an error and leaves the content alone.
SetState(content, s) ==
    IF (s - content.state) % 256 = 1 THEN [content EXCEPT !.state = s] ELSE content

\* Content.AddSignature: one signature per account.
AddSignature(content, n) == [content EXCEPT !.signers = @ \cup {n}]
=============================================================================
