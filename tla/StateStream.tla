----------------------------- MODULE StateStream -----------------------------
(***************************************************************************)
(* The block feed of w3rpc: fetcher.rpcFetcher polls an Ethereum node      *)
(* (getLatestState, StateStream in fetcher/rpc.go), hands each new block   *)
(* with its state diff over an unbuffered channel to updateState (main.go),*)
(* which commits the diff to the key-value store (ProcessState) and then   *)
(* publishes the block as the backend's head (SetHead).                    *)
(*                                                                         *)
(* The node is external.  A block's hash is the path to it from the        *)
(* genesis: which of the Branches was taken at each number.  So the node's *)
(* chain is one such path, the node can leave a branch and come back, and  *)
(* equal hashes mean equal histories.  What a diff contains is the subject *)
(* of module Account, how it is committed that of module BadgerKV: here a  *)
(* diff is named by the block it was traced from.                          *)
(***************************************************************************)
EXTENDS Naturals

CONSTANTS
    Pollers,       \* goroutines StateStream could start; sync.Once allows one
    MaxHeight,     \* bound: highest block number
    Branches,      \* names for blocks with the same parent
    Chains,        \* bound: the chains the node may have
    FailedTraces,  \* whether a transaction's trace may carry an error
    NoBlock        \* the nil *types.Block

ASSUME StreamAssumption ==
    /\ MaxHeight \in Nat
    /\ FailedTraces \in BOOLEAN

VARIABLES
    height,     \* node: number of its latest block
    chain,      \* node: the branch taken at each number up to height
    kept,       \* history: whether the block polled last never left the chain
    tick,       \* fetcher: whether a tick waits in ticker.C (capacity 1)
    started,    \* fetcher: whether sync.Once o has fired
    blockHead,  \* fetcher: field blockHead
    poller,     \* the polling goroutines' control state and locals
    consumer,   \* main.updateState's control state and locals
    kvAt,       \* block whose diff was last committed to the store
    head,       \* W3Backend.head
    crashed     \* whether the process died of a panic

nodeVars == <<height, chain, kept>>
fetcherVars == <<tick, started, blockHead, poller>>
mainVars == <<consumer, kvAt, head>>
vars == <<nodeVars, fetcherVars, mainVars, crashed>>

-----------------------------------------------------------------------------
(* Data *)

Hash == UNION {[1..n -> Branches] : n \in 0..MaxHeight}

ASSUME ChainsAssumption == Chains \subseteq Hash

Block == [num : Nat, hash : Hash]

(* fetcher.StateUpdate: the block, the block its TraceBlock describes, and
   whether every transaction's Result is non-nil. *)
Update == [block : Block, traced : Block, complete : BOOLEAN]

PollerState == [pc : {"off", "select", "trace", "send"},
                block : Block \cup {NoBlock},
                update : Update \cup {NoBlock}]

ConsumerState == [pc : {"loop", "recv", "process", "setHead"},
                  update : Update \cup {NoBlock},
                  err : BOOLEAN]

ASSUME NoBlockAssumption == NoBlock \notin Block \cup Update

NumOf(b) == IF b = NoBlock THEN 0 ELSE b.num

(* Answers of the node: the canonical block at height n, and the latest.
   (Mutant: the number is not passed on with the call.) *)
CanonicalAlways(n) == [num |-> height, hash |-> chain]
CanonicalAt(n) == [num |-> n, hash |-> [m \in 1..n |-> chain[m]]]
Latest == CanonicalAt(height)

(* Whether a node whose chain is c has block b as canonical. *)
OnChain(b, c) ==
    /\ 1..b.num \subseteq DOMAIN c
    /\ \A m \in 1..b.num : c[m] = b.hash[m]

Init ==
    /\ height = 0
    /\ chain = <<>>
    /\ kept = TRUE
    /\ tick = FALSE
    /\ started = FALSE
    /\ blockHead = 0
    /\ poller = [p \in Pollers |->
                    [pc |-> "off", block |-> NoBlock, update |-> NoBlock]]
    /\ consumer = [pc |-> "loop", update |-> NoBlock, err |-> FALSE]
    /\ kvAt = NoBlock
    /\ head = NoBlock
    /\ crashed = FALSE

-----------------------------------------------------------------------------
(* The node *)

(* The node's latest block becomes any other one at number n: it extends its
   chain, switches to another branch, or back to one it left, or an answering
   node lags behind another. *)
MoveTip(n) ==
    /\ \E c \in (Chains \cap [1..n -> Branches]) \ {chain} :
        /\ chain' = c
        /\ kept' = (kept /\ \A p \in Pollers :
                        poller[p].block # NoBlock => OnChain(poller[p].block, c))
    /\ height' = n
    /\ UNCHANGED <<fetcherVars, mainVars, crashed>>

-----------------------------------------------------------------------------
(* The poller *)

(* time.Ticker: a tick the receiver has not taken yet absorbs the next. *)
Tick ==
    /\ ~crashed
    /\ ~tick
    /\ tick' = TRUE
    /\ UNCHANGED <<nodeVars, started, blockHead, poller, mainVars, crashed>>

(* Goroutine p takes a tick and calls getLatestState. *)
TakeTick(p) ==
    /\ ~crashed
    /\ poller[p].pc = "select"
    /\ tick
    /\ tick' = FALSE

(* eth_getBlockByNumber fails: the error is logged and the loop continues. *)
PollFails(p) ==
    /\ TakeTick(p)
    /\ UNCHANGED <<nodeVars, started, blockHead, poller, mainVars, crashed>>

(* Mutant: the nil update of an idle poll is sent to updateState. *)
PollSendsNil(p) ==
    /\ TakeTick(p)
    /\ Latest.num <= blockHead
    /\ poller' = [poller EXCEPT ![p].pc = "send"]
    /\ UNCHANGED <<nodeVars, started, blockHead, mainVars, crashed>>

(* The node has nothing above blockHead: getLatestState returns nil, nil. *)
PollNothingNew(p) ==
    /\ TakeTick(p)
    /\ Latest.num <= blockHead
    /\ UNCHANGED <<nodeVars, started, blockHead, poller, mainVars, crashed>>

(* The latest block is new; its trace is requested next.  Only the latest
   block is: blocks made since the previous poll are skipped. *)
PollNewBlock(p) ==
    /\ TakeTick(p)
    /\ Latest.num > blockHead
    /\ poller' = [poller EXCEPT ![p].pc = "trace", ![p].block = Latest]
    /\ kept' = TRUE
    /\ UNCHANGED <<height, chain, started, blockHead, mainVars, crashed>>

(* Mutant: blockHead is advanced although the trace call failed. *)
TraceFailsHeadMoved(p) ==
    /\ ~crashed
    /\ poller[p].pc = "trace"
    /\ blockHead' = poller[p].block.num
    /\ poller' = [poller EXCEPT ![p].pc = "select", ![p].block = NoBlock]
    /\ UNCHANGED <<nodeVars, tick, started, mainVars, crashed>>

(* debug_traceBlockByNumber fails: blockHead stays, so a later tick tries
   again. *)
TraceFails(p) ==
    /\ ~crashed
    /\ poller[p].pc = "trace"
    /\ poller' = [poller EXCEPT ![p].pc = "select", ![p].block = NoBlock]
    /\ UNCHANGED <<nodeVars, tick, started, blockHead, mainVars, crashed>>

(* The node traces whatever block is canonical at that number by now. *)
TraceOk(p) ==
    /\ ~crashed
    /\ poller[p].pc = "trace"
    /\ poller[p].block.num <= height
    /\ \E complete \in BOOLEAN :
        /\ complete \/ FailedTraces
        /\ poller' = [poller EXCEPT
              ![p].pc = "send",
              ![p].update = [block |-> poller[p].block,
                             traced |-> CanonicalAt(poller[p].block.num),
                             complete |-> complete]]
    /\ blockHead' = poller[p].block.num
    /\ UNCHANGED <<nodeVars, tick, started, mainVars, crashed>>

-----------------------------------------------------------------------------
(* main.updateState *)

(* Mutant: StateStream starts a goroutine at every call. *)
CallStateStreamNoOnce ==
    /\ ~crashed
    /\ consumer.pc = "loop"
    /\ consumer' = [consumer EXCEPT !.pc = "recv"]
    /\ started' = TRUE
    /\ \/ \E p \in Pollers :
            /\ poller[p].pc = "off"
            /\ poller' = [poller EXCEPT ![p].pc = "select"]
       \/ /\ \A p \in Pollers : poller[p].pc # "off"
          /\ UNCHANGED poller
    /\ UNCHANGED <<nodeVars, tick, blockHead, kvAt, head, crashed>>

(* Each turn of the loop calls StateStream; the first starts the poller. *)
CallStateStream ==
    /\ ~crashed
    /\ consumer.pc = "loop"
    /\ consumer' = [consumer EXCEPT !.pc = "recv"]
    /\ started' = TRUE
    /\ \/ /\ started
          /\ UNCHANGED poller
       \/ /\ ~started
          /\ \E p \in Pollers :
                poller' = [poller EXCEPT ![p].pc = "select"]
    /\ UNCHANGED <<nodeVars, tick, blockHead, kvAt, head, crashed>>

(* stateChan is unbuffered: send and receive are one step. *)
Deliver(p) ==
    /\ ~crashed
    /\ poller[p].pc = "send"
    /\ consumer.pc = "recv"
    /\ consumer' = [consumer EXCEPT !.pc = "process",
                                    !.update = poller[p].update]
    /\ poller' = [poller EXCEPT ![p].pc = "select", ![p].block = NoBlock,
                                ![p].update = NoBlock]
    /\ UNCHANGED <<nodeVars, tick, started, blockHead, kvAt, head, crashed>>

(* Mutant: the head is published before the diff is committed. *)
PublishThenProcess ==
    /\ ~crashed
    /\ consumer.pc = "process"
    /\ consumer' = [consumer EXCEPT !.pc = "setHead", !.err = FALSE]
    /\ head' = consumer.update.block
    /\ UNCHANGED <<nodeVars, fetcherVars, kvAt, crashed>>

(* kvDB.ProcessState commits the diff. *)
ProcessState ==
    /\ ~crashed
    /\ consumer.pc = "process"
    /\ consumer.update.complete
    /\ kvAt' = consumer.update.traced
    /\ consumer' = [consumer EXCEPT !.pc = "setHead", !.err = FALSE]
    /\ UNCHANGED <<nodeVars, fetcherVars, head, crashed>>

(* The commit fails (a conflicting transaction): the diff is dropped, err is
   kept for the log, and the loop goes on to SetHead all the same. *)
ProcessStateFails ==
    /\ ~crashed
    /\ consumer.pc = "process"
    /\ consumer.update.complete
    /\ consumer' = [consumer EXCEPT !.pc = "setHead", !.err = TRUE]
    /\ UNCHANGED <<nodeVars, fetcherVars, kvAt, head, crashed>>

(* A transaction whose trace failed has a nil Result; reading its Pre panics
   in a goroutine nobody recovers. *)
ProcessStatePanics ==
    /\ ~crashed
    /\ consumer.pc = "process"
    /\ ~consumer.update.complete
    /\ crashed' = TRUE
    /\ UNCHANGED <<nodeVars, fetcherVars, mainVars>>

(* backend.SetHead publishes the block, whatever ProcessState returned. *)
SetHead ==
    /\ ~crashed
    /\ consumer.pc = "setHead"
    /\ head' = consumer.update.block
    /\ consumer' = [consumer EXCEPT !.pc = "loop", !.update = NoBlock]
    /\ UNCHANGED <<nodeVars, fetcherVars, kvAt, crashed>>

-----------------------------------------------------------------------------
Node == \E n \in 1..MaxHeight : MoveTip(n)

Poll(p) ==
    \/ PollFails(p) \/ PollNothingNew(p) \/ PollNewBlock(p)
    \/ TraceFails(p) \/ TraceOk(p)

UpdateState ==
    \/ CallStateStream
    \/ \E p \in Pollers : Deliver(p)
    \/ ProcessState \/ ProcessStateFails \/ ProcessStatePanics
    \/ SetHead

Next == Node \/ Tick \/ (\E p \in Pollers : Poll(p)) \/ UpdateState

Spec == Init /\ [][Next]_vars

(* The Go scheduler runs both goroutines and the runtime fires the ticker;
   that a call infinitely often tried succeeds infinitely often is assumed
   of the node. *)
Fairness ==
    /\ WF_vars(Tick)
    /\ \A p \in Pollers :
        /\ SF_vars(PollNewBlock(p))
        /\ SF_vars(TraceOk(p))
        /\ WF_vars(TraceOk(p) \/ TraceFails(p))
        /\ WF_vars(Deliver(p))
    /\ WF_vars(CallStateStream)
    /\ WF_vars(ProcessState \/ ProcessStateFails \/ ProcessStatePanics)
    /\ WF_vars(SetHead)

FairSpec == Spec /\ Fairness

-----------------------------------------------------------------------------
(* Properties *)

(* Locals and fields hold values of their types; a poller has a block once it
   asks for its trace and an update only while sending it, and updateState has
   an update, never nil, while it works on one. *)
TypeOK ==
    /\ height \in 0..MaxHeight
    /\ chain \in [1..height -> Branches]
    /\ kept \in BOOLEAN
    /\ tick \in BOOLEAN
    /\ started \in BOOLEAN
    /\ blockHead \in Nat
    /\ poller \in [Pollers -> PollerState]
    /\ consumer \in ConsumerState
    /\ kvAt \in Block \cup {NoBlock}
    /\ head \in Block \cup {NoBlock}
    /\ crashed \in BOOLEAN
    /\ \A p \in Pollers :
        /\ poller[p].pc \in {"trace", "send"} <=> poller[p].block # NoBlock
        /\ poller[p].pc = "send" <=> poller[p].update # NoBlock
    /\ consumer.pc \in {"process", "setHead"} <=> consumer.update # NoBlock

Busy == consumer.pc \in {"process", "setHead"}
Sending(p) == poller[p].pc = "send"

(* getLatestState advances blockHead before the update is handed over, so an
   update lost on the way would never be fetched again.  It never is: the
   block at blockHead is the update being sent, else the one updateState is
   working on, else the published head; and the three are in order. *)
NothingLost ==
    /\ \A p \in Pollers : Sending(p) => poller[p].update.block.num = blockHead
    /\ (\A p \in Pollers : ~Sending(p)) =>
            blockHead = IF Busy THEN consumer.update.block.num ELSE NumOf(head)
    /\ Busy => /\ NumOf(head) < consumer.update.block.num
               /\ consumer.update.block.num <= blockHead

(* The published head only moves to higher blocks, whatever the node does
   (reorganisations, answers from a lagging node, failed calls). *)
HeadOnlyAdvances == [][head' # head => NumOf(head') > NumOf(head)]_vars

(* StateAtBlock serves the head block from the live store: apart from the
   window between ProcessState and SetHead, the store holds the diff of the
   block at the head's number and of none above, unless the last commit
   failed; and the store is never behind the published head unless one did. *)
HeadMatchesState ==
    /\ consumer.pc # "setHead" => NumOf(kvAt) <= NumOf(head)
    /\ ~consumer.err => NumOf(kvAt) >= NumOf(head)

(* The diff in a StateUpdate comes from a call of its own, for which the block
   is named by its number only.  Nothing compares the two: after a
   reorganisation, or from a node that lags, it is the diff of another branch,
   newer or older.  But it is the block's own if that never left the chain
   since it was polled, whatever was built on it between the two calls; and
   whatever the node did, it is of the block's number, to which the store's
   contents are dated. *)
DiffFits(u) == u.traced.num = u.block.num

DiffOfItsBlock ==
    /\ \A p \in Pollers : Sending(p) =>
        /\ DiffFits(poller[p].update)
        /\ kept => poller[p].update.traced = poller[p].update.block
    /\ Busy => DiffFits(consumer.update)

(* Once the node stays at a height, on one branch or another, the published
   head reaches that height, through failed calls and failed commits: unless a
   trace that failed ended the process. *)
HeadCatchesUp ==
    \A n \in 1..MaxHeight :
        <>[](height = n) => <>crashed \/ <>[](NumOf(head) >= n)

(* The pipeline that module Feed describes, in the variables of this one. *)
Waiting == \E p \in Pollers : Sending(p)
Working == [pc  |-> IF Busy THEN consumer.pc ELSE "recv",
            num |-> IF Busy THEN consumer.update.block.num ELSE NumOf(head)]

Pipeline == INSTANCE Feed WITH
    Numbers <- 1..MaxHeight, NoHead <- 0,
    waiting <- Waiting, work <- Working, head <- NumOf(head)

(* Goroutines, ticker, channel and failing calls together are a pipeline of
   two places through which every update counted in blockHead reaches the
   head, in order, whatever the node does. *)
IsPipeline == Pipeline!Spec
=============================================================================
