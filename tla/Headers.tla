-------------------------------- MODULE Headers ------------------------------
(***************************************************************************)
(* Which block a simulation stands on: the backend's lookups by hash and by *)
(* number, the state it serves for the block found, the header CallBundle  *)
(* makes from it, and the BLOCKHASH opcode, for which core's GetHashFn     *)
(* walks from that header's ParentHash with GetHeader.  Meanwhile the node *)
(* makes blocks, changes branches and answers from nodes that lag.         *)
(*                                                                         *)
(* A hash commits to a block and all blocks before it, so it is modelled   *)
(* as the sequence of blocks from the genesis on; the empty sequence is    *)
(* the zero hash, which the genesis block has for its parent's.  How the   *)
(* lookups interleave with SetHead is the subject of module LiveDb, where  *)
(* a lookup is more than the one step it is here.                          *)
(***************************************************************************)
EXTENDS Integers, Sequences, FiniteSets

CONSTANTS
    Requests,   \* calls of CallBundle under way
    Labels,     \* what tells blocks with the same parent apart
    Window,     \* how far back BLOCKHASH reaches: 256
    MaxBlocks,  \* bound: blocks the node ever makes
    MaxNumber,  \* bound: block number a caller asks to simulate
    Failures,   \* whether a call to the node may fail
    None        \* no block yet

ASSUME HeadersAssumption ==
    /\ Window \in Nat
    /\ MaxNumber \in Nat
    /\ Failures \in BOOLEAN

VARIABLES
    known,  \* node: the blocks it has, side branches included
    tip,    \* node: its latest block
    head,   \* W3Backend.head
    req     \* the requests

vars == <<known, tip, head, req>>

Genesis == <<0>>
Number(h) == Len(h) - 1
Parent(h) == SubSeq(h, 1, Len(h) - 1)
Ancestor(h, n) == SubSeq(h, 1, n + 1)
OnChain(h, t) == Len(h) <= Len(t) /\ SubSeq(t, 1, Len(h)) = h

ASSUME NoneAssumption == None \notin Seq({0} \cup Labels)

NoRequest == [pc |-> "idle", block |-> None, number |-> 0, live |-> FALSE,
              cache |-> <<>>, ask |-> 0, failed |-> FALSE, forked |-> FALSE,
              answer |-> None, read |-> None]

Init ==
    /\ known = {Genesis}
    /\ tip = Genesis
    /\ head = None
    /\ req = [r \in Requests |-> NoRequest]

-----------------------------------------------------------------------------
(* The node and the feed *)

(* The node's latest block is any that it has, or a new one on top of any; a
   request remembers whether its block has left the chain. *)
MoveTip ==
    /\ \/ tip' \in known \ {tip} /\ UNCHANGED known
       \/ /\ Cardinality(known) < MaxBlocks
          /\ \E h \in known, l \in Labels :
                /\ Append(h, l) \notin known
                /\ tip' = Append(h, l)
                /\ known' = known \cup {tip'}
    /\ req' = [r \in Requests |->
          [req[r] EXCEPT !.forked = @ \/ (req[r].block # None
                                          /\ ~OnChain(req[r].block, tip'))]]
    /\ UNCHANGED head

(* The feed publishes a block the node once had as its latest, above the
   head. *)
SetHead ==
    /\ head' \in known
    /\ Number(head') > (IF head = None THEN 0 ELSE Number(head))
    /\ UNCHANGED <<known, tip, req>>

-----------------------------------------------------------------------------
(* W3Backend *)

(* BlockByNumber takes the head for its number and for the latest block, and
   asks the node otherwise; BlockByHash always asks. *)
BlockByNumber(n) ==
    IF head # None /\ Number(head) = n THEN head ELSE Ancestor(tip, n)
BlockLatest == IF head # None THEN head ELSE tip
BlockByHash(h) == h

Found ==
    { BlockByHash(h) : h \in known } \cup { BlockLatest }
        \cup { BlockByNumber(n) : n \in 0..Number(tip) }

(* StateAtBlock compares numbers, even of a block looked up by hash. *)
IsLive(b) == head # None /\ Number(b) >= Number(head)

(* Mutant: the header stands beside the block found, not on top of it. *)
GrandparentHash(b) == Parent(b)

(* What CallBundle makes the ParentHash of its header. *)
ParentHash(b) == b

(* A call finds a block, gets a state for it, and makes a header with the
   number it asked for, whatever the block's own number. *)
Lookup(r) ==
    /\ req[r].pc = "idle"
    /\ \E b \in Found, number \in 1..MaxNumber :
          req' = [req EXCEPT ![r] =
                    [NoRequest EXCEPT !.pc = "run", !.block = b,
                                      !.number = number, !.live = IsLive(b),
                                      !.forked = ~OnChain(b, tip)]]
    /\ UNCHANGED <<known, tip, head>>

(* Mutant: the fetcher is made for the latest block. *)
LatestNumber(b) == Number(tip)

(* The block number StateAtBlock pins a fetcher to. *)
PinnedNumber(b) == Number(b)

(* A fetch for a state of the request's own: the node answers with the state
   of the block it has at that number now. *)
Read(r) ==
    /\ req[r].pc = "run"
    /\ ~req[r].live
    /\ PinnedNumber(req[r].block) <= Number(tip)
    /\ req' = [req EXCEPT ![r].read =
                  Ancestor(tip, PinnedNumber(req[r].block))]
    /\ UNCHANGED <<known, tip, head>>

-----------------------------------------------------------------------------
(* core.GetHashFn *)

(* Each transaction is run in an EVM of its own, whose cache is empty. *)
NextTransaction(r) ==
    /\ req[r].pc = "run"
    /\ req' = [req EXCEPT ![r].cache = <<>>]
    /\ UNCHANGED <<known, tip, head>>

(* BLOCKHASH n, for the numbers the opcode lets through.  The cache starts
   with ParentHash, and its entries are taken for the hashes of the blocks
   number - 1, number - 2, ... *)
BlockHash(r, n) ==
    /\ req[r].pc = "run"
    /\ n < req[r].number
    /\ n + Window >= req[r].number
    /\ LET cache == IF req[r].cache = <<>> THEN <<ParentHash(req[r].block)>>
                    ELSE req[r].cache
           index == req[r].number - n
       IN  req' = IF index <= Len(cache)
                  THEN [req EXCEPT ![r].cache = cache,
                                   ![r].answer = [num |-> n,
                                                  hash |-> cache[index]]]
                  ELSE [req EXCEPT ![r].cache = cache,
                                   ![r].pc = "walk", ![r].ask = n]
    /\ UNCHANGED <<known, tip, head>>

LastKnown(r) == req[r].cache[Len(req[r].cache)]

(* Mutant: the header is looked up by its number. *)
HeaderByNumber(r) ==
    LET n == req[r].number - Len(req[r].cache)
    IN  IF n \in 0..Number(tip) THEN Ancestor(tip, n) ELSE <<>>

(* GetHeader looks the header up by its hash and ignores the number it is
   given as well. *)
GetHeader(r) == LastKnown(r)

(* One turn of the loop: the node has the header, its ParentHash is cached,
   and is the answer if it is the one asked for by the header's number. *)
Walk(r) ==
    /\ req[r].pc = "walk"
    /\ GetHeader(r) \in known
    /\ LET parent == Parent(GetHeader(r))
           cached == [req EXCEPT ![r].cache = Append(@, parent)]
       IN  req' = IF Number(parent) = req[r].ask
                  THEN [cached EXCEPT ![r].pc = "run",
                                      ![r].answer = [num |-> req[r].ask,
                                                     hash |-> parent]]
                  ELSE cached
    /\ UNCHANGED <<known, tip, head>>

(* GetHeader panics when the node does not have the header (the zero hash) or
   does not answer: the call is over. *)
WalkPanics(r) ==
    /\ req[r].pc = "walk"
    /\ \/ GetHeader(r) \notin known
       \/ Failures
    /\ req' = [req EXCEPT ![r].pc = "panicked",
                          ![r].failed = GetHeader(r) \in known]
    /\ UNCHANGED <<known, tip, head>>

Finish(r) ==
    /\ req[r].pc \in {"run", "panicked"}
    /\ req' = [req EXCEPT ![r] = NoRequest]
    /\ UNCHANGED <<known, tip, head>>

-----------------------------------------------------------------------------
Next ==
    \/ MoveTip
    \/ SetHead
    \/ \E r \in Requests :
        \/ Lookup(r) \/ Read(r) \/ NextTransaction(r)
        \/ \E n \in 0..(req[r].number - 1) : BlockHash(r, n)
        \/ Walk(r) \/ WalkPanics(r) \/ Finish(r)

Spec == Init /\ [][Next]_vars

-----------------------------------------------------------------------------
(* Properties *)

Hash == Seq({0} \cup Labels)

(* The fields hold values of their types, and a request has a block while it
   runs, with a cache that starts with a block the node has, and holds at most
   that block's ancestors and the zero hash. *)
TypeOK ==
    /\ known \subseteq Hash \ {<<>>}
    /\ tip \in known
    /\ head \in known \cup {None}
    /\ \A r \in Requests :
        /\ req[r].pc \in {"idle", "run", "walk", "panicked"}
        /\ req[r].pc # "idle" => req[r].block \in known
        /\ req[r].pc = "walk" => req[r].cache # <<>>
        /\ req[r].cache # <<>> =>
            /\ req[r].cache[1] \in known
            /\ Len(req[r].cache) <= Len(req[r].block) + 1
        /\ req[r].number \in Nat
        /\ req[r].ask \in Nat

(* The block simulated comes right after the block it stands on. *)
IsNext(r) ==
    req[r].pc # "idle" /\ req[r].number = Number(req[r].block) + 1

(* BLOCKHASH in a block that comes right after the one found answers with the
   hash of that block's ancestor of the number asked for, in whatever order
   the transactions ask and the cache is filled, also while the node goes
   through reorganisations. *)
HashExact ==
    \A r \in Requests : IsNext(r) /\ req[r].answer # None =>
        req[r].answer.hash = Ancestor(req[r].block, req[r].answer.num)

(* In any other block, future or past, BLOCKHASH may name the wrong block, but
   only one of the header's lineage, the block found or an ancestor of it:
   never one of another branch, a later one, or the zero hash. *)
HashOfLineage ==
    \A r \in Requests : req[r].answer # None =>
        \E n \in 0..Number(req[r].block) :
            req[r].answer.hash = Ancestor(req[r].block, n)

(* A block that comes right after the one found never walks past the block it
   asks for, which bounds the calls to the node that one BLOCKHASH makes; and
   only a call that failed makes it panic. *)
WalkEnds ==
    \A r \in Requests : IsNext(r) =>
        /\ req[r].pc = "walk" => Number(LastKnown(r)) > req[r].ask
        /\ req[r].pc = "panicked" => req[r].failed

(* State is fetched by number, the header was found before that and perhaps by
   hash: as long as the header's block does not leave the chain, all the
   state a pinned request reads is the state after that block. *)
StateOfHeader ==
    \A r \in Requests : ~req[r].forked => req[r].read \in {None, req[r].block}
=============================================================================
