-------------------------- MODULE StateStreamProofs --------------------------
(***************************************************************************)
(* Machine-checked proofs about the block feed, for any set of pollers, any *)
(* branches the node moves between in any order, and with or without failed *)
(* traces.                                                                 *)
(***************************************************************************)
EXTENDS StateStream, TLAPS

(* sync.Once: no goroutine polls before StateStream is first called, and at
   most one does afterwards.  blockHead is written by one goroutine only
   because of this. *)
OnePoller ==
    /\ ~started => \A p \in Pollers : poller[p].pc = "off"
    /\ \A p, q \in Pollers :
            poller[p].pc # "off" /\ poller[q].pc # "off" => p = q

(* A block whose trace is awaited is above blockHead, and the update waiting
   to be sent is above the one being processed and above the head. *)
PollAhead ==
    \A p \in Pollers :
        /\ poller[p].pc = "trace" => poller[p].block.num > blockHead
        /\ Sending(p) =>
            /\ Busy => consumer.update.block.num < poller[p].update.block.num
            /\ NumOf(head) < poller[p].update.block.num

(* A diff is traced at the number of its block, though perhaps, after a
   reorganisation, from another block of that number. *)
SameNumber ==
    /\ \A p \in Pollers : Sending(p) =>
            poller[p].update.traced.num = poller[p].update.block.num
    /\ Busy => consumer.update.traced.num = consumer.update.block.num

(* While updateState is about to publish a block, the store holds no diff
   above it, and its own diff if the commit succeeded. *)
CommittedBelow ==
    consumer.pc = "setHead" =>
        /\ NumOf(kvAt) <= consumer.update.block.num
        /\ ~consumer.err => NumOf(kvAt) = consumer.update.block.num

(* The inductive invariant. *)
IInv == /\ TypeOK
        /\ OnePoller
        /\ PollAhead
        /\ SameNumber
        /\ CommittedBelow
        /\ NothingLost
        /\ HeadMatchesState

-----------------------------------------------------------------------------

(* The initial state satisfies the inductive invariant. *)
LEMMA InitInv == Init => IInv
  <1> SUFFICES ASSUME Init PROVE IInv
    OBVIOUS
  <1> USE NoBlockAssumption DEF Init
  <1>1. TypeOK
    <2>1. poller \in [Pollers -> PollerState]
      BY DEF PollerState
    <2>2. consumer \in ConsumerState
      BY DEF ConsumerState
    <2>3. /\ height \in 0..MaxHeight
          /\ chain \in [1..height -> Branches]
      BY StreamAssumption
    <2>4. QED
      BY <2>1, <2>2, <2>3 DEF TypeOK
  <1>2. NumOf(head) = 0 /\ NumOf(kvAt) = 0
    BY DEF NumOf
  <1>3. QED
    BY <1>1, <1>2 DEF IInv, OnePoller, PollAhead, SameNumber, CommittedBelow,
                      NothingLost, HeadMatchesState, Busy, Sending

(* What the node answers for a number of its chain is a block. *)
LEMMA CanonicalBlock ==
  ASSUME TypeOK, NEW n \in 0..height
  PROVE  /\ CanonicalAt(n) \in Block
         /\ CanonicalAt(n).num = n
  <1>1. [m \in 1..n |-> chain[m]] \in [1..n -> Branches]
    BY StreamAssumption DEF TypeOK
  <1>2. n \in 0..MaxHeight
    BY StreamAssumption DEF TypeOK
  <1>3. QED
    BY <1>1, <1>2 DEF CanonicalAt, Block, Hash

(* Steps of the node change its chain only. *)
LEMMA NodeStep == IInv /\ Node => IInv'
  <1> SUFFICES ASSUME IInv, Node PROVE IInv'
    OBVIOUS
  <1>1. UNCHANGED <<fetcherVars, mainVars, crashed>>
    BY DEF Node, MoveTip
  <1>2. PICK n \in 1..MaxHeight : MoveTip(n)
    BY DEF Node
  <1>3. /\ height' \in 0..MaxHeight
        /\ chain' \in [1..height' -> Branches]
        /\ kept' \in BOOLEAN
    BY <1>2, StreamAssumption DEF MoveTip, IInv, TypeOK
  <1>4. QED
    BY <1>1, <1>3
    DEF IInv, TypeOK, OnePoller, PollAhead, SameNumber, CommittedBelow,
        NothingLost, HeadMatchesState, Busy, Sending, fetcherVars, mainVars


(* What a polling goroutine does before it has a trace leaves the consumer
   and the fields it shares with it alone. *)
LEMMA PollStep ==
  ASSUME IInv, NEW p \in Pollers,
         PollFails(p) \/ PollNothingNew(p) \/ PollNewBlock(p) \/ TraceFails(p)
  PROVE  IInv'
  <1>1. CASE PollFails(p) \/ PollNothingNew(p)
    BY <1>1 DEF PollFails, PollNothingNew, TakeTick, IInv, TypeOK, OnePoller,
        PollAhead, SameNumber, CommittedBelow, NothingLost, HeadMatchesState,
        Busy, Sending, nodeVars, mainVars
  <1>2. CASE PollNewBlock(p)
    <2>1. Latest \in Block
      BY CanonicalBlock, StreamAssumption DEF IInv, TypeOK, Latest
    <2>2. TypeOK'
      BY <1>2, <2>1, NoBlockAssumption
      DEF PollNewBlock, TakeTick, IInv, TypeOK, PollerState, nodeVars, mainVars
    <2>3. QED
      BY <1>2, <2>1, <2>2 DEF PollNewBlock, TakeTick, IInv, TypeOK, OnePoller,
        PollAhead, SameNumber, CommittedBelow, NothingLost, HeadMatchesState,
        Busy, Sending, nodeVars, mainVars, PollerState
  <1>3. CASE TraceFails(p)
    <2>1. TypeOK'
      BY <1>3 DEF TraceFails, IInv, TypeOK, PollerState, nodeVars, mainVars
    <2>2. QED
      BY <1>3, <2>1 DEF TraceFails, IInv, TypeOK, OnePoller,
        PollAhead, SameNumber, CommittedBelow, NothingLost, HeadMatchesState,
        Busy, Sending, nodeVars, mainVars, PollerState
  <1>4. QED
    BY <1>1, <1>2, <1>3

(* Once the trace is there, the poller holds an update above everything
   handed over so far, and blockHead is its number. *)
LEMMA TraceOkStep ==
  ASSUME IInv, NEW p \in Pollers, TraceOk(p)
  PROVE  IInv'
  <1>1. PICK complete \in BOOLEAN :
          poller' = [poller EXCEPT
              ![p].pc = "send",
              ![p].update = [block |-> poller[p].block,
                             traced |-> CanonicalAt(poller[p].block.num),
                             complete |-> complete]]
    BY DEF TraceOk
  <1> DEFINE u == [block |-> poller[p].block,
                   traced |-> CanonicalAt(poller[p].block.num),
                   complete |-> complete]
  <1>2. poller[p].block \in Block
    BY DEF TraceOk, IInv, TypeOK, PollerState
  <1>3. u \in Update /\ u # NoBlock
    <2>1. poller[p].block.num \in 0..height
      BY <1>2, StreamAssumption DEF TraceOk, IInv, TypeOK, Block
    <2>2. CanonicalAt(poller[p].block.num) \in Block
      BY <2>1, CanonicalBlock DEF IInv
    <2>3. QED
      BY <1>2, <2>2, NoBlockAssumption DEF Update
  <1>4. poller' = [poller EXCEPT ![p].pc = "send", ![p].update = u]
    BY <1>1
  <1>5. u.block = poller[p].block /\ u.traced.num = poller[p].block.num
    BY DEF CanonicalAt
  <1> HIDE DEF u
  <1>6. blockHead' = poller[p].block.num /\ blockHead' \in Nat
    BY <1>2 DEF TraceOk, Block
  <1>7. TypeOK'
    BY <1>2, <1>3, <1>4, <1>6
    DEF TraceOk, IInv, TypeOK, PollerState, nodeVars, mainVars
  <1>8. \A q \in Pollers : q # p => poller'[q] = poller[q] /\ poller[q].pc = "off"
    BY <1>4 DEF TraceOk, IInv, OnePoller, TypeOK, PollerState
  <1>9. /\ poller'[p].pc = "send"
        /\ poller'[p].update = u
        /\ UNCHANGED <<consumer, kvAt, head, started>>
    BY <1>4 DEF TraceOk, IInv, TypeOK, PollerState, mainVars
  <1>10. /\ started
         /\ blockHead < blockHead'
         /\ blockHead = IF Busy THEN consumer.update.block.num ELSE NumOf(head)
         /\ NumOf(head) <= blockHead
         /\ NumOf(head) \in Nat
    <2>1. \A q \in Pollers : ~Sending(q)
      BY DEF TraceOk, IInv, OnePoller, Sending
    <2>2. NumOf(head) \in Nat
      BY DEF IInv, TypeOK, NumOf, Block
    <2>3. Busy => consumer.update.block.num \in Nat
      BY DEF IInv, TypeOK, ConsumerState, Update, Block, Busy
    <2>4. QED
      BY <1>6, <2>1, <2>2, <2>3
      DEF TraceOk, IInv, TypeOK, OnePoller, PollAhead, NothingLost
  <1>11. OnePoller' /\ PollAhead' /\ NothingLost'
    <2>1. /\ NumOf(head)' = NumOf(head)
          /\ Busy' = Busy
          /\ Busy => /\ NumOf(head) < consumer.update.block.num
                     /\ consumer.update.block.num \in Nat
                     /\ consumer.update.block.num < blockHead'
      BY <1>6, <1>9, <1>10
      DEF NumOf, Busy, IInv, NothingLost, TypeOK, ConsumerState, Update, Block
    <2>2. \A q \in Pollers : (Sending(q)' <=> q = p) /\ poller'[q].pc # "trace"
      BY <1>8, <1>9 DEF Sending
    <2>3. OnePoller'
      BY <1>8, <1>9, <1>10 DEF OnePoller
    <2>4. PollAhead'
      BY <1>5, <1>6, <1>9, <1>10, <2>1, <2>2, <1>2
      DEF PollAhead, IInv, TypeOK, Block
    <2>5. NothingLost'
      BY <1>5, <1>6, <1>9, <2>1, <2>2 DEF NothingLost
    <2>6. QED
      BY <2>3, <2>4, <2>5
  <1>12. SameNumber'
    BY <1>5, <1>8, <1>9 DEF IInv, SameNumber, Sending, Busy
  <1>13. CommittedBelow' /\ HeadMatchesState'
    BY <1>9 DEF IInv, CommittedBelow, HeadMatchesState, NumOf
  <1>14. QED
    BY <1>7, <1>11, <1>12, <1>13 DEF IInv

(* The first call of StateStream starts the only poller. *)
LEMMA CallStateStreamStep == IInv /\ CallStateStream => IInv'
  <1> SUFFICES ASSUME IInv, CallStateStream PROVE IInv'
    OBVIOUS
  <1>1. consumer' = [consumer EXCEPT !.pc = "recv"]
    BY DEF CallStateStream
  <1>2. CASE started /\ UNCHANGED poller
    <2>1. TypeOK'
      BY <1>1, <1>2 DEF CallStateStream, IInv, TypeOK, ConsumerState, nodeVars
    <2>2. QED
      BY <1>1, <1>2, <2>1 DEF CallStateStream, IInv, TypeOK, OnePoller,
        PollAhead, SameNumber, CommittedBelow, NothingLost, HeadMatchesState,
        Busy, Sending, ConsumerState, NumOf
  <1>3. ASSUME ~started, NEW p \in Pollers,
               poller' = [poller EXCEPT ![p].pc = "select"]
        PROVE  IInv'
    <2>1. \A q \in Pollers : poller[q].pc = "off"
      BY <1>3 DEF IInv, OnePoller
    <2>2. TypeOK'
      BY <1>1, <1>3, <2>1
      DEF CallStateStream, IInv, TypeOK, ConsumerState, PollerState, nodeVars
    <2>3. \A q \in Pollers :
            poller'[q].pc = IF q = p THEN "select" ELSE "off"
      BY <1>3, <2>1 DEF IInv, TypeOK, PollerState
    <2>4. QED
      BY <1>1, <2>1, <2>2, <2>3 DEF CallStateStream, IInv, TypeOK, OnePoller,
        PollAhead, SameNumber, CommittedBelow, NothingLost, HeadMatchesState,
        Busy, Sending, ConsumerState, NumOf
  <1>4. QED
    BY <1>2, <1>3 DEF CallStateStream

(* Handing over moves the newest update from the poller to updateState. *)
LEMMA DeliverStep ==
  ASSUME IInv, NEW p \in Pollers, Deliver(p)
  PROVE  IInv'
  <1> DEFINE u == poller[p].update
  <1>1. u \in Update /\ u # NoBlock
    BY DEF Deliver, IInv, TypeOK, PollerState
  <1>2. TypeOK'
    BY <1>1
    DEF Deliver, IInv, TypeOK, ConsumerState, PollerState, nodeVars
  <1>3. /\ consumer' = [consumer EXCEPT !.pc = "process", !.update = u]
        /\ consumer'.pc = "process"
        /\ consumer'.update = u
        /\ consumer'.err = consumer.err
        /\ UNCHANGED <<started, blockHead, kvAt, head>>
    BY DEF Deliver, IInv, TypeOK, ConsumerState
  <1>4. \A q \in Pollers :
          /\ poller'[q].pc = IF q = p THEN "select" ELSE "off"
          /\ ~Sending(q)'
    BY DEF Deliver, IInv, TypeOK, OnePoller, PollerState, Sending
  <1>5. ~Busy /\ Busy' /\ started /\ Sending(p)
    BY <1>3 DEF Deliver, Busy, Sending, IInv, OnePoller
  <1>6. /\ u.block.num = blockHead
        /\ NumOf(head) < u.block.num
        /\ u.traced.num = u.block.num
    BY <1>5 DEF IInv, NothingLost, PollAhead, SameNumber, Sending
  <1>7. u.block.num \in Nat
    BY <1>1 DEF Update, Block
  <1>8. OnePoller' /\ PollAhead' /\ NothingLost' /\ SameNumber'
    BY <1>3, <1>4, <1>5, <1>6, <1>7
    DEF OnePoller, PollAhead, NothingLost, SameNumber, Sending, NumOf
  <1>9. CommittedBelow' /\ HeadMatchesState'
    BY <1>3 DEF Deliver, IInv, CommittedBelow, HeadMatchesState, NumOf
  <1>10. QED
    BY <1>2, <1>8, <1>9 DEF IInv

(* ProcessState, whether it commits, fails or panics, leaves the update with
   updateState and the head in place. *)
LEMMA ProcessStep ==
  IInv /\ (ProcessState \/ ProcessStateFails \/ ProcessStatePanics) => IInv'
  <1> SUFFICES ASSUME IInv,
                      ProcessState \/ ProcessStateFails \/ ProcessStatePanics
               PROVE  IInv'
    OBVIOUS
  <1>1. /\ consumer.pc = "process"
        /\ consumer.update \in Update
        /\ UNCHANGED <<started, blockHead, poller, head>>
    BY DEF ProcessState, ProcessStateFails, ProcessStatePanics, IInv, TypeOK,
           ConsumerState, fetcherVars, mainVars
  <1>2. /\ consumer.update.traced \in Block
        /\ consumer.update.block.num \in Nat
        /\ consumer.update.traced.num = consumer.update.block.num
        /\ NumOf(kvAt) \in Nat
        /\ NumOf(head) \in Nat
    BY <1>1 DEF Update, Block, IInv, SameNumber, Busy, TypeOK, NumOf
  <1>3. NumOf(head) < consumer.update.block.num /\ NumOf(kvAt) <= NumOf(head)
    BY <1>1 DEF IInv, NothingLost, HeadMatchesState, Busy
  <1>4. CASE ProcessState
    <2>1. /\ consumer'.pc = "setHead"
          /\ consumer'.update = consumer.update
          /\ ~consumer'.err
          /\ kvAt' = consumer.update.traced
          /\ NumOf(kvAt)' = consumer.update.block.num
      BY <1>2, <1>4, NoBlockAssumption
      DEF ProcessState, IInv, TypeOK, ConsumerState, NumOf
    <2>2. TypeOK'
      BY <1>1, <1>2, <1>4, <2>1
      DEF ProcessState, IInv, TypeOK, ConsumerState, nodeVars, fetcherVars
    <2>3. OnePoller' /\ PollAhead' /\ NothingLost' /\ SameNumber'
      BY <1>1, <1>4, <2>1 DEF ProcessState, IInv, OnePoller, PollAhead,
         NothingLost, SameNumber, Busy, Sending, NumOf
    <2>4. CommittedBelow' /\ HeadMatchesState'
      BY <1>1, <1>2, <1>3, <2>1 DEF CommittedBelow, HeadMatchesState, NumOf
    <2>5. QED
      BY <2>2, <2>3, <2>4 DEF IInv
  <1>5. CASE ProcessStateFails
    <2>1. /\ consumer'.pc = "setHead"
          /\ consumer'.update = consumer.update
          /\ consumer'.err
          /\ kvAt' = kvAt
      BY <1>5 DEF ProcessStateFails, IInv, TypeOK, ConsumerState
    <2>2. TypeOK'
      BY <1>1, <1>5, <2>1 DEF ProcessStateFails, IInv, TypeOK, ConsumerState,
         nodeVars, fetcherVars
    <2>3. OnePoller' /\ PollAhead' /\ NothingLost' /\ SameNumber'
      BY <1>1, <1>5, <2>1 DEF ProcessStateFails, IInv, OnePoller, PollAhead,
         NothingLost, SameNumber, Busy, Sending, NumOf
    <2>4. CommittedBelow' /\ HeadMatchesState'
      BY <1>1, <1>2, <1>3, <2>1 DEF CommittedBelow, HeadMatchesState, NumOf
    <2>5. QED
      BY <2>2, <2>3, <2>4 DEF IInv
  <1>6. CASE ProcessStatePanics
    BY <1>6 DEF ProcessStatePanics, IInv, TypeOK, OnePoller, PollAhead,
        SameNumber, CommittedBelow, NothingLost, HeadMatchesState, Busy,
        Sending, NumOf, nodeVars, fetcherVars, mainVars
  <1>7. QED
    BY <1>4, <1>5, <1>6

(* Publishing makes the block updateState worked on the head. *)
LEMMA SetHeadStep == IInv /\ SetHead => IInv' /\ NumOf(head)' > NumOf(head)
  <1> SUFFICES ASSUME IInv, SetHead PROVE IInv' /\ NumOf(head)' > NumOf(head)
    OBVIOUS
  <1>1. /\ consumer.update \in Update
        /\ consumer.update.block \in Block
        /\ consumer.update.block.num \in Nat
        /\ consumer.pc = "setHead"
    BY DEF SetHead, IInv, TypeOK, ConsumerState, Update, Block
  <1>2. /\ head' = consumer.update.block
        /\ NumOf(head)' = consumer.update.block.num
        /\ consumer'.pc = "loop"
        /\ consumer'.err = consumer.err
        /\ UNCHANGED <<started, blockHead, poller, kvAt>>
        /\ NumOf(kvAt)' = NumOf(kvAt)
    BY <1>1, NoBlockAssumption
    DEF SetHead, IInv, TypeOK, ConsumerState, NumOf, fetcherVars
  <1>3. TypeOK'
    BY <1>1, <1>2
    DEF SetHead, IInv, TypeOK, ConsumerState, nodeVars, fetcherVars
  <1>4. Busy /\ ~Busy'
    BY <1>1, <1>2 DEF Busy
  <1>5. /\ NumOf(head) < consumer.update.block.num
        /\ NumOf(kvAt) <= consumer.update.block.num
        /\ ~consumer.err => NumOf(kvAt) = consumer.update.block.num
    BY <1>1, <1>4 DEF IInv, NothingLost, CommittedBelow
  <1>6. OnePoller' /\ SameNumber'
    BY <1>2, <1>4 DEF IInv, OnePoller, SameNumber, Sending
  <1>7. PollAhead' /\ NothingLost'
    BY <1>1, <1>2, <1>4 DEF IInv, PollAhead, NothingLost, Sending
  <1>8. CommittedBelow' /\ HeadMatchesState'
    BY <1>1, <1>2, <1>5 DEF CommittedBelow, HeadMatchesState
  <1>9. NumOf(head)' > NumOf(head)
    BY <1>1, <1>2, <1>5 DEF IInv, TypeOK, NumOf, Block
  <1>10. QED
    BY <1>3, <1>6, <1>7, <1>8, <1>9 DEF IInv

(* Every step preserves the inductive invariant. *)
LEMMA NextInv == IInv /\ [Next]_vars => IInv'
  <1> SUFFICES ASSUME IInv, [Next]_vars PROVE IInv'
    OBVIOUS
  <1>1. CASE Node
    BY <1>1, NodeStep
  <1>2. CASE Tick
    BY <1>2 DEF Tick, IInv, TypeOK, OnePoller, PollAhead, SameNumber,
        CommittedBelow, NothingLost, HeadMatchesState, Busy, Sending, NumOf,
        nodeVars, mainVars
  <1>3. ASSUME NEW p \in Pollers, Poll(p) PROVE IInv'
    BY <1>3, PollStep, TraceOkStep DEF Poll
  <1>4. CASE UpdateState
    BY <1>4, CallStateStreamStep, DeliverStep, ProcessStep, SetHeadStep
    DEF UpdateState
  <1>5. CASE UNCHANGED vars
    BY <1>5 DEF vars, IInv, TypeOK, OnePoller, PollAhead, SameNumber,
        CommittedBelow, NothingLost, HeadMatchesState, Busy, Sending, NumOf,
        nodeVars, fetcherVars, mainVars
  <1>6. QED
    BY <1>1, <1>2, <1>3, <1>4, <1>5 DEF Next

-----------------------------------------------------------------------------

(* The block feed keeps its inductive invariant: one poller, updates in
   order, no update lost, store and head in step. *)
THEOREM Invariance == Spec => []IInv
  BY InitInv, NextInv, PTL DEF Spec

(* Fields and locals of poller and updateState keep their types; no nil
   update is ever processed. *)
THEOREM TypeCorrect == Spec => []TypeOK
  <1>1. IInv => TypeOK
    BY DEF IInv
  <1>2. QED
    BY <1>1, Invariance, PTL

(* No block getLatestState has counted in blockHead is lost between the
   poller, the channel and the published head. *)
THEOREM NoUpdateLost == Spec => []NothingLost
  <1>1. IInv => NothingLost
    BY DEF IInv
  <1>2. QED
    BY <1>1, Invariance, PTL

(* Outside the window between ProcessState and SetHead the live store holds
   no diff above the published head, and it is behind the head only after a
   failed commit. *)
THEOREM StoreFollowsHead == Spec => []HeadMatchesState
  <1>1. IInv => HeadMatchesState
    BY DEF IInv
  <1>2. QED
    BY <1>1, Invariance, PTL

(* The published head only moves to higher blocks, whatever reorganisations
   the node goes through. *)
THEOREM HeadAdvances == Spec => HeadOnlyAdvances
  <1>1. ASSUME IInv, [Next]_vars
        PROVE  [head' # head => NumOf(head') > NumOf(head)]_vars
    <2>1. CASE SetHead
      BY <1>1, <2>1, SetHeadStep DEF NumOf
    <2>2. CASE ~SetHead
      <3>1. head' = head
        BY <1>1, <2>2 DEF Next, Node, MoveTip, Tick, Poll, PollFails,
           PollNothingNew, PollNewBlock, TakeTick, TraceFails, TraceOk,
           UpdateState, CallStateStream, Deliver, ProcessState,
           ProcessStateFails, ProcessStatePanics, mainVars, vars
      <3>2. QED
        BY <3>1
    <2>3. QED
      BY <2>1, <2>2
  <1>2. QED
    BY <1>1, Invariance, PTL DEF Spec, HeadOnlyAdvances
-----------------------------------------------------------------------------

(* The hash of a block that awaits its trace is the path to it.  If it never
   left the chain since it was polled, it is on the chain, and the diff sent
   with it is its own. *)
KeptIsOwn ==
    \A p \in Pollers :
        /\ poller[p].pc = "trace" =>
            /\ poller[p].block.hash \in [1..poller[p].block.num -> Branches]
            /\ kept => OnChain(poller[p].block, chain)
        /\ Sending(p) /\ kept => poller[p].update.traced = poller[p].update.block

(* A block that is on the chain is what the node has at its number. *)
LEMMA OnChainCanonical ==
  ASSUME NEW b \in Block, b.hash \in [1..b.num -> Branches], OnChain(b, chain)
  PROVE  CanonicalAt(b.num) = b
  <1>1. [m \in 1..b.num |-> chain[m]] = b.hash
    BY DEF OnChain
  <1>2. b = [num |-> b.num, hash |-> b.hash]
    BY DEF Block
  <1>3. QED
    BY <1>1, <1>2 DEF CanonicalAt

(* The latest block's hash is the node's chain. *)
LEMMA LatestOnChain ==
  ASSUME IInv
  PROVE  /\ Latest.num = height
         /\ Latest.hash \in [1..height -> Branches]
         /\ OnChain(Latest, chain)
  <1>1. /\ Latest.num = height
        /\ Latest.hash = [m \in 1..height |-> chain[m]]
        /\ chain \in [1..height -> Branches]
    BY DEF Latest, CanonicalAt, IInv, TypeOK
  <1>2. QED
    BY <1>1 DEF OnChain

(* The node drops the block that awaits its trace, or keeps it. *)
LEMMA KeptNode ==
  ASSUME IInv, KeptIsOwn, NEW n \in 1..MaxHeight, MoveTip(n)
  PROVE  KeptIsOwn'
  <1>1. poller' = poller
    BY DEF MoveTip, fetcherVars
  <1>2. ASSUME NEW p \in Pollers, poller[p].pc = "trace", kept'
        PROVE  OnChain(poller[p].block, chain')
    BY <1>2 DEF MoveTip, IInv, TypeOK
  <1>3. kept' => kept
    BY DEF MoveTip
  <1>4. QED
    BY <1>1, <1>2, <1>3 DEF KeptIsOwn, Sending, OnChain

(* A poll finds the node's latest block, and the trace of a block that never
   left the chain is its own. *)
LEMMA KeptPoll ==
  ASSUME IInv, KeptIsOwn, NEW p \in Pollers, Poll(p)
  PROVE  KeptIsOwn'
  <1>1. poller \in [Pollers -> PollerState]
    BY DEF IInv, TypeOK
  <1>2. chain' = chain
    BY DEF Poll, PollFails, PollNothingNew, PollNewBlock, TraceFails, TraceOk,
           nodeVars
  <1>3. CASE PollFails(p) \/ PollNothingNew(p)
    BY <1>3 DEF PollFails, PollNothingNew, KeptIsOwn, Sending, OnChain, nodeVars
  <1>4. CASE PollNewBlock(p)
    <2>1. /\ poller'[p].pc = "trace" /\ poller'[p].block = Latest
          /\ \A q \in Pollers : q # p => poller'[q] = poller[q]
          /\ poller[p].pc = "select"
      BY <1>1, <1>4 DEF PollNewBlock, TakeTick, PollerState
    <2>2. \A q \in Pollers : q # p => poller[q].pc = "off"
      BY <2>1 DEF IInv, OnePoller
    <2>3. \A q \in Pollers :
            /\ poller'[q].pc # "send"
            /\ poller'[q].pc = "trace" => q = p
      BY <2>1, <2>2
    <2>4. /\ poller'[p].block.hash \in [1..poller'[p].block.num -> Branches]
          /\ OnChain(poller'[p].block, chain')
      BY <1>2, <2>1, LatestOnChain
    <2>5. QED
      BY <2>3, <2>4 DEF KeptIsOwn, Sending, OnChain
  <1>5. CASE TraceFails(p)
    BY <1>1, <1>2, <1>5 DEF TraceFails, KeptIsOwn, Sending, OnChain,
                            PollerState, nodeVars
  <1>6. CASE TraceOk(p)
    <2>1. PICK u : /\ u.block = poller[p].block
                   /\ u.traced = CanonicalAt(poller[p].block.num)
                   /\ poller' = [poller EXCEPT ![p].pc = "send",
                                               ![p].update = u]
      BY <1>6 DEF TraceOk
    <2>2. /\ poller'[p].pc = "send" /\ poller'[p].update = u
          /\ \A q \in Pollers : q # p => poller'[q] = poller[q]
          /\ poller[p].pc = "trace"
          /\ poller[p].block \in Block
          /\ kept' = kept
      BY <1>1, <1>6, <2>1 DEF TraceOk, PollerState, nodeVars, IInv, TypeOK
    <2>3. kept => u.traced = u.block
      BY <2>1, <2>2, OnChainCanonical DEF KeptIsOwn
    <2>4. QED
      BY <1>2, <2>2, <2>3 DEF KeptIsOwn, Sending, OnChain
  <1>7. QED
    BY <1>3, <1>4, <1>5, <1>6 DEF Poll

(* Every step keeps the diff of a block that stays on the chain its own. *)
LEMMA KeptStep == IInv /\ KeptIsOwn /\ [Next]_vars => KeptIsOwn'
  <1> SUFFICES ASSUME IInv, KeptIsOwn, [Next]_vars PROVE KeptIsOwn'
    OBVIOUS
  <1>1. CASE Node
    BY <1>1, KeptNode DEF Node
  <1>2. CASE Tick \/ UNCHANGED vars
    BY <1>2 DEF Tick, vars, nodeVars, fetcherVars, KeptIsOwn, Sending,
                OnChain
  <1>3. ASSUME NEW p \in Pollers, Poll(p) PROVE KeptIsOwn'
    BY <1>3, KeptPoll
  <1>4. CASE UpdateState
    <2>1. UNCHANGED <<height, chain, kept>>
      BY <1>4 DEF UpdateState, CallStateStream, Deliver, ProcessState,
         ProcessStateFails, ProcessStatePanics, SetHead, nodeVars
    <2>2. \A q \in Pollers :
            poller'[q].pc = "select" \/ poller'[q] = poller[q]
      <3> USE DEF IInv, TypeOK, PollerState
      <3>1. CASE CallStateStream
        BY <3>1 DEF CallStateStream
      <3>2. ASSUME NEW p \in Pollers, Deliver(p)
            PROVE  \A q \in Pollers :
                     poller'[q].pc = "select" \/ poller'[q] = poller[q]
        BY <3>2 DEF Deliver
      <3>3. CASE ProcessState \/ ProcessStateFails \/ ProcessStatePanics \/ SetHead
        BY <3>3 DEF ProcessState, ProcessStateFails, ProcessStatePanics, SetHead,
                    fetcherVars
      <3>4. QED
        BY <1>4, <3>1, <3>2, <3>3 DEF UpdateState
    <2>3. QED
      BY <2>1, <2>2 DEF KeptIsOwn, Sending, OnChain
  <1>5. QED
    BY <1>1, <1>2, <1>3, <1>4 DEF Next

(* However the node moves between branches, the diff of an update is of its
   block's number; and it is the block's own if the node kept that on its
   chain between the two calls. *)
THEOREM DiffFitsBlock == Spec => []DiffOfItsBlock
  <1>1. Init => KeptIsOwn
    <2>1. ASSUME Init, NEW p \in Pollers
          PROVE  poller[p].pc = "off"
      <3>1. poller = [q \in Pollers |->
                        [pc |-> "off", block |-> NoBlock, update |-> NoBlock]]
        BY <2>1 DEF Init
      <3>2. QED
        BY <3>1
    <2>2. QED
      BY <2>1 DEF KeptIsOwn, Sending
  <1>2. IInv /\ KeptIsOwn => DiffOfItsBlock
    BY DEF IInv, SameNumber, KeptIsOwn, DiffOfItsBlock, DiffFits
  <1>3. QED
    BY <1>1, <1>2, KeptStep, Invariance, PTL DEF Spec
-----------------------------------------------------------------------------

(* At first nothing is counted, waiting, worked on or published. *)
LEMMA PipelineInit == Init => Pipeline!Init
  BY NoBlockAssumption
  DEF Init, Pipeline!Init, Waiting, Working, Sending, Busy, NumOf

(* A trace that arrives is a Count: its block is above blockHead, and nobody
   else is sending. *)
LEMMA TraceOkCounts ==
  ASSUME IInv, NEW p \in Pollers, TraceOk(p)
  PROVE  \E n \in 1..MaxHeight : Pipeline!Count(n)
  <1> DEFINE n == poller[p].block.num
  <1>1. /\ poller[p].pc = "trace"
        /\ poller[p] \in PollerState
        /\ poller[p].block \in Block
        /\ n \in Nat /\ n > blockHead /\ n <= height
    BY NoBlockAssumption
    DEF TraceOk, IInv, TypeOK, PollerState, PollAhead, Block
  <1>2. n \in 1..MaxHeight
    BY <1>1, StreamAssumption DEF IInv, TypeOK
  <1>3. ~Waiting
    BY <1>1 DEF IInv, OnePoller, Waiting, Sending
  <1>4. Sending(p)'
    BY <1>1 DEF TraceOk, Sending, IInv, TypeOK, PollerState
  <1>5. Waiting' = TRUE
    BY <1>4 DEF Waiting
  <1>6. UNCHANGED <<Working, NumOf(head)>>
    BY DEF TraceOk, Working, Busy, NumOf, mainVars
  <1>7. blockHead' = n
    BY DEF TraceOk
  <1>8. Pipeline!Count(n)
    BY <1>1, <1>3, <1>5, <1>6, <1>7 DEF Pipeline!Count
  <1>9. QED
    BY <1>2, <1>8

(* A delivery is a Hand: the update sent is the one at blockHead. *)
LEMMA DeliverHands ==
  ASSUME IInv, NEW p \in Pollers, Deliver(p)
  PROVE  Pipeline!Hand
  <1>1. /\ Sending(p)
        /\ consumer.pc = "recv"
        /\ poller[p].update.block.num = blockHead
    BY DEF Deliver, Sending, IInv, NothingLost
  <1>2. Waiting /\ ~Busy
    BY <1>1 DEF Waiting, Busy
  <1>3. /\ consumer'.pc = "process"
        /\ consumer'.update = poller[p].update
    BY DEF Deliver, IInv, TypeOK, ConsumerState
  <1>4. \A q \in Pollers : poller'[q].pc # "send"
    BY <1>1 DEF Deliver, IInv, TypeOK, PollerState, OnePoller, Sending
  <1>5. Waiting' = FALSE
    BY <1>4 DEF Waiting, Sending
  <1>6. Working.pc = "recv"
    BY <1>2 DEF Working
  <1>7. Working' = [pc |-> "process", num |-> blockHead]
    BY <1>1, <1>3 DEF Working, Busy
  <1>8. UNCHANGED <<blockHead, NumOf(head)>>
    BY DEF Deliver, NumOf
  <1>9. QED
    BY <1>2, <1>5, <1>6, <1>7, <1>8 DEF Pipeline!Hand

(* A commit, failed or not, is a Commit. *)
LEMMA ProcessCommits ==
  ASSUME IInv, ProcessState \/ ProcessStateFails
  PROVE  Pipeline!Commit
  <1>1. /\ consumer.pc = "process"
        /\ consumer'.pc = "setHead"
        /\ consumer'.update = consumer.update
        /\ UNCHANGED <<poller, blockHead, head>>
    BY DEF ProcessState, ProcessStateFails, IInv, TypeOK, ConsumerState,
           fetcherVars
  <1>2. /\ Working = [pc |-> "process", num |-> consumer.update.block.num]
        /\ Working' = [pc |-> "setHead", num |-> consumer.update.block.num]
    BY <1>1 DEF Working, Busy
  <1>3. UNCHANGED <<Waiting, NumOf(head)>>
    BY <1>1 DEF Waiting, Sending, NumOf
  <1>4. QED
    BY <1>1, <1>2, <1>3 DEF Pipeline!Commit

(* SetHead is a Publish. *)
LEMMA SetHeadPublishes ==
  ASSUME IInv, SetHead
  PROVE  Pipeline!Publish
  <1>1. /\ consumer.pc = "setHead"
        /\ consumer'.pc = "loop"
        /\ consumer.update.block \in Block
        /\ head' = consumer.update.block
        /\ UNCHANGED <<poller, blockHead>>
    BY DEF SetHead, IInv, TypeOK, ConsumerState, Update, fetcherVars
  <1>2. NumOf(head)' = consumer.update.block.num
    BY <1>1, NoBlockAssumption DEF NumOf
  <1>3. /\ Working = [pc |-> "setHead", num |-> consumer.update.block.num]
        /\ Working' = [pc |-> "recv", num |-> consumer.update.block.num]
    BY <1>1, <1>2 DEF Working, Busy
  <1>4. UNCHANGED Waiting
    BY <1>1 DEF Waiting, Sending
  <1>5. QED
    BY <1>1, <1>2, <1>3, <1>4 DEF Pipeline!Publish

(* What changes neither the counter, nor who is sending, nor what is worked
   on, is a stuttering step. *)
LEMMA OtherStutters ==
  ASSUME IInv,
         \/ Node \/ Tick \/ CallStateStream \/ ProcessStatePanics
         \/ UNCHANGED vars
         \/ \E p \in Pollers : PollFails(p) \/ PollNothingNew(p)
                               \/ PollNewBlock(p) \/ TraceFails(p)
  PROVE  UNCHANGED <<blockHead, Waiting, Working, NumOf(head)>>
  <1>1. UNCHANGED <<blockHead, head>>
    BY DEF Node, MoveTip, Tick, CallStateStream, ProcessStatePanics,
           PollFails, PollNothingNew, PollNewBlock, TraceFails, TakeTick,
           vars, fetcherVars, mainVars
  <1>2. \A p \in Pollers : Sending(p)' = Sending(p)
    <2>1. CASE Node \/ Tick \/ ProcessStatePanics \/ UNCHANGED vars
      BY <2>1 DEF Node, MoveTip, Tick, ProcessStatePanics, vars,
                  fetcherVars, Sending
    <2>2. CASE CallStateStream
      BY <2>2 DEF CallStateStream, IInv, TypeOK, PollerState, OnePoller, Sending
    <2>3. ASSUME NEW p \in Pollers,
                 \/ PollFails(p) \/ PollNothingNew(p)
                 \/ PollNewBlock(p) \/ TraceFails(p)
          PROVE  \A q \in Pollers : Sending(q)' = Sending(q)
      <3>1. CASE PollFails(p) \/ PollNothingNew(p)
        BY <3>1 DEF PollFails, PollNothingNew, Sending
      <3>2. CASE PollNewBlock(p)
        BY <3>2 DEF PollNewBlock, TakeTick, IInv, TypeOK, PollerState, Sending
      <3>3. CASE TraceFails(p)
        BY <3>3 DEF TraceFails, IInv, TypeOK, PollerState, Sending
      <3>4. QED
        BY <2>3, <3>1, <3>2, <3>3
    <2>4. QED
      BY <2>1, <2>2, <2>3
  <1>3. Busy' = Busy /\ (Busy => consumer' = consumer)
    <2>1. CASE CallStateStream
      BY <2>1 DEF CallStateStream, IInv, TypeOK, ConsumerState, Busy
    <2>2. CASE ~CallStateStream
      <3>1. consumer' = consumer
        BY <2>2 DEF Node, MoveTip, Tick, ProcessStatePanics, PollFails,
           PollNothingNew, PollNewBlock, TraceFails, TakeTick, vars, mainVars
      <3>2. QED
        BY <3>1 DEF Busy
    <2>3. QED
      BY <2>1, <2>2
  <1>4. QED
    BY <1>1, <1>2, <1>3 DEF Waiting, Working, NumOf

(* The feed implements the pipeline of module Feed, for any node. *)
THEOREM StreamIsPipeline == Spec => IsPipeline
  <1>1. ASSUME IInv, [Next]_vars
        PROVE  [Pipeline!Next]_(Pipeline!feedVars)
    <2>1. ASSUME NEW p \in Pollers, TraceOk(p) PROVE Pipeline!Next
      BY <1>1, <2>1, TraceOkCounts DEF Pipeline!Next
    <2>2. ASSUME NEW p \in Pollers, Deliver(p) PROVE Pipeline!Next
      BY <1>1, <2>2, DeliverHands DEF Pipeline!Next
    <2>3. CASE ProcessState \/ ProcessStateFails
      BY <1>1, <2>3, ProcessCommits DEF Pipeline!Next
    <2>4. CASE SetHead
      BY <1>1, <2>4, SetHeadPublishes DEF Pipeline!Next
    <2>5. CASE \/ Node \/ Tick \/ CallStateStream \/ ProcessStatePanics
               \/ UNCHANGED vars
               \/ \E p \in Pollers : PollFails(p) \/ PollNothingNew(p)
                                     \/ PollNewBlock(p) \/ TraceFails(p)
      BY <1>1, <2>5, OtherStutters DEF Pipeline!feedVars
    <2>6. QED
      BY <1>1, <2>1, <2>2, <2>3, <2>4, <2>5 DEF Next, Poll, UpdateState
  <1>2. QED
    BY <1>1, PipelineInit, Invariance, PTL DEF Spec, IsPipeline, Pipeline!Spec
=============================================================================
