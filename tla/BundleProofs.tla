----------------------------- MODULE BundleProofs -----------------------------
(***************************************************************************)
(* Machine-checked proofs about the bundle API, for any calls, bundles,    *)
(* forks, base fees and effects of transactions: the deadline, simulations *)
(* beside each other, what a transaction's figures mean, and, by induction *)
(* over a bundle, what they add up to.                                     *)
(***************************************************************************)
EXTENDS Bundle, WellFoundedInduction, TLAPS

(* The fields of a call under way. *)
Fields == DOMAIN Started("CallBundle", << >>, 0, Nil, Contract)

(* What a deadline that has passed leaves a call to do: the transaction it was
   about to apply, and no other. *)
CallOK(q) ==
    /\ DOMAIN q = Fields
    /\ q.begun \in Nat
    /\ q.expiredAt \in Nat
    /\ q.pc = "state" => q.begun = 0
    /\ q.expired => q.begun <= q.expiredAt + 1
    /\ q.expired /\ q.pc \in {"state", "apply"} => q.begun = q.expiredAt

IInv ==
    /\ call = [c \in Calls |-> call[c]]
    /\ \A c \in Calls : call[c] = NoCall \/ CallOK(call[c])

LEMMA StartedOK ==
  ASSUME NEW method, NEW txs, NEW number, NEW givenFee, NEW coinbase
  PROVE  /\ CallOK(Started(method, txs, number, givenFee, coinbase))
         /\ Started(method, txs, number, givenFee, coinbase).pc = "state"
  BY DEF CallOK, Started, Fields

(* Ending a call keeps its count. *)
LEMMA RepliedOK ==
  ASSUME NEW q, CallOK(q), NEW reply
  PROVE  CallOK(Replied(q, reply))
  BY DEF CallOK, Replied, Fields, Started

LEMMA SetOK ==
  ASSUME IInv, NEW c \in Calls, NEW q, Set(c, q), q = NoCall \/ CallOK(q)
  PROVE  IInv'
  BY DEF IInv, Set, CallOK, Fields, Started

(* Applying a transaction counts it, whatever it does. *)
LEMMA ApplyOK ==
  ASSUME IInv, NEW c \in Calls, CallOK(call[c]), Apply(c)
  PROVE  IInv'
  <1> DEFINE q == call[c]
  <1> DEFINE k == Tx(q).slot
             base == IF store[k] # Nil THEN store[k] ELSE ChainSlot
             old == IF q.slots[k] # Nil THEN q.slots[k] ELSE base
             n == [q EXCEPT !.pc = IF NeedsRoot(q) THEN "root" ELSE "account",
                            !.begun = @ + 1,
                            !.balance = BalancesAfter(Tx(q), q),
                            !.gasUsed = @ + Tx(q).gas]
             called == [n EXCEPT
                            !.output = old,
                            !.slots[k] = IF Tx(q).reverts THEN old ELSE old + 1,
                            !.read[k] = IF q.slots[k] = Nil THEN base ELSE @]
  <1>1. CallOK(n)
    <2>1. q.pc = "apply"
      BY DEF Apply
    <2>2. QED
      BY <2>1 DEF CallOK, Fields, Started
  <1>2. \/ Set(c, [n EXCEPT !.output = Nil])
        \/ Set(c, called)
    BY Zenon DEF Apply
  <1>3. CallOK([n EXCEPT !.output = Nil])
    <2> HIDE DEF n
    <2>1. QED
      BY <1>1 DEF CallOK, Fields, Started
  <1>4. CallOK(called)
    <2> HIDE DEF n, old, base, k
    <2>1. QED
      BY <1>1 DEF CallOK, Fields, Started
  <1>5. QED
    <2> HIDE DEF n, called
    <2>1. QED
      BY <1>2, <1>3, <1>4, SetOK

(* A step changes the call it is of, to one that is in order. *)
LEMMA StepKeeps ==
  ASSUME IInv, NEW c \in Calls, Step(c)
  PROVE  IInv'
  <1> DEFINE q == call[c]
  <1>1. CASE Arrive(c)
    <2>1. PICK method \in {"CallBundle", "EstimateGasBundle"}, txs \in Bundles,
               number \in Numbers, givenFee \in BaseFees, coinbase \in Accounts :
            LET new == Started(method, txs, number, givenFee, coinbase)
            IN  Set(c, IF txs = << >> \/ number = 0 THEN Replied(new, Error)
                       ELSE new)
      BY <1>1 DEF Arrive
    <2>2. QED
      BY <2>1, StartedOK, RepliedOK, SetOK
  <1>2. CASE Respond(c)
    BY <1>2, SetOK DEF Respond
  <1>3. CASE q.pc # "idle" /\ ~Arrive(c) /\ ~Respond(c)
    <2>0. CallOK(q)
      BY <1>3 DEF IInv, NoCall
    <2>1. CASE Expire(c)
      <3>1. CallOK([q EXCEPT !.expired = TRUE, !.expiredAt = q.begun])
        BY <2>0 DEF CallOK, Fields, Started
      <3>2. QED
        BY <2>1, <3>1, SetOK DEF Expire
    <2>2. CASE StateFails(c)
      BY <2>0, <2>2, RepliedOK, SetOK DEF StateFails
    <2>3. CASE GetState(c)
      <3>1. \A fee, b : CallOK([q EXCEPT !.pc = "loop", !.baseFee = fee, !.before = b])
        BY <2>0, <2>3 DEF CallOK, Fields, Started, GetState
      <3>2. QED
        BY <2>3, <3>1, SetOK DEF GetState
    <2>4. CASE CopyState(c)
      BY <2>0, <2>4, RepliedOK, SetOK DEF CopyState
    <2>5. CASE CheckContext(c)
      <3>1. ASSUME ~q.expired
            PROVE  \A b : CallOK([q EXCEPT !.pc = "apply", !.beforeTx = b])
        BY <2>0, <3>1 DEF CallOK, Fields, Started
      <3>2. QED
        BY <2>0, <2>5, <3>1, RepliedOK, SetOK DEF CheckContext
    <2>6. CASE ApplyFails(c)
      BY <2>0, <2>6, RepliedOK, SetOK DEF ApplyFails
    <2>7. CASE HeaderFails(c)
      BY <2>0, <2>7, RepliedOK, SetOK DEF HeaderFails
    <2>8. CASE Apply(c)
      BY <2>0, <2>8, ApplyOK
    <2>9. CASE IntermediateRoot(c)
      BY <2>0, <2>9, RepliedOK, SetOK DEF IntermediateRoot
    <2>10. CASE TipFails(c)
      BY <2>0, <2>10, RepliedOK, SetOK DEF TipFails
    <2>11. CASE Account(c)
      <3>1. q.pc = "account"
        BY <2>11 DEF Account
      <3>2. \A f, rs : CallOK([q EXCEPT !.pc = "loop", !.gasFees = f, !.results = rs])
        BY <2>0, <3>1 DEF CallOK, Fields, Started
      <3>3. QED
        BY <2>11, <3>2, SetOK DEF Account
    <2>12. CASE Finish(c)
      BY <2>0, <2>12, RepliedOK, SetOK DEF Finish
    <2>13. QED
      BY <1>3, <2>1, <2>2, <2>3, <2>4, <2>5, <2>6, <2>7, <2>8, <2>9, <2>10,
         <2>11, <2>12 DEF Step
  <1>4. CASE q.pc = "idle" /\ ~Arrive(c)
    BY <1>4 DEF Step, Expire, StateFails, GetState, CopyState, CheckContext,
       ApplyFails, HeaderFails, Apply, IntermediateRoot, TipFails, Account,
       Finish, Respond
  <1>5. QED
    BY <1>1, <1>2, <1>3, <1>4

(* DeadlineHonoured: at most one transaction is applied once the deadline has
   passed, at whatever moment that happens. *)
THEOREM DeadlineKept == Spec => []DeadlineHonoured
  <1>1. Init => IInv
    BY DEF Init, IInv
  <1>2. IInv /\ [Next]_vars => IInv'
    <2>1. ASSUME IInv, UNCHANGED vars PROVE IInv'
      BY <2>1 DEF IInv, vars, CallOK
    <2>2. QED
      BY <2>1, StepKeeps DEF Next
  <1>3. IInv => DeadlineHonoured
    BY DEF IInv, DeadlineHonoured, Working, CallOK
  <1>4. QED
    BY <1>1, <1>2, <1>3, PTL DEF Spec

-----------------------------------------------------------------------------
(* When no caller asks for a block before Byzantium, no intermediate root is
   computed, and what the calls leave in the store is the block's state. *)

BlockStates == [Slots -> {Nil, ChainSlot}]

ReadOK(q) ==
    /\ DOMAIN q = Fields
    /\ q.number \in Numbers
    /\ q.pc # "root"
    /\ q.read \in BlockStates

StoreInv ==
    /\ call = [c \in Calls |-> call[c]]
    /\ store \in BlockStates
    /\ \A c \in Calls : call[c] = NoCall \/ ReadOK(call[c])

LEMMA SetReadOK ==
  ASSUME StoreInv, NEW c \in Calls, NEW q, Set(c, q), q = NoCall \/ ReadOK(q),
         store' \in BlockStates
  PROVE  StoreInv'
  BY DEF StoreInv, Set, ReadOK, Fields, Started, BlockStates

LEMMA RepliedReadOK ==
  ASSUME NEW q, ReadOK(q), NEW reply
  PROVE  ReadOK(Replied(q, reply))
  BY DEF ReadOK, Replied, Fields, Started

LEMMA NoRoot ==
  ASSUME \A number \in Numbers : number >= Byzantium, NEW p, ReadOK(p)
  PROVE  ~NeedsRoot(p)
  <1>1. /\ p.number \in Numbers
        /\ Numbers \subseteq Int
        /\ Byzantium \in Int
    BY BundleAssumption DEF ReadOK
  <1>2. p.number \in Int
    BY <1>1
  <1>3. p.number >= Byzantium
    BY DEF ReadOK
  <1>4. QED
    BY <1>1, <1>2, <1>3 DEF NeedsRoot

(* A slot that is read into a StateDB and the store is the block's. *)
LEMMA ApplyReadOK ==
  ASSUME StoreInv, \A number \in Numbers : number >= Byzantium,
         NEW c \in Calls, ReadOK(call[c]), Apply(c)
  PROVE  StoreInv'
  <1> DEFINE q == call[c]
             k == Tx(q).slot
             base == IF store[k] # Nil THEN store[k] ELSE ChainSlot
             old == IF q.slots[k] # Nil THEN q.slots[k] ELSE base
             n == [q EXCEPT !.pc = IF NeedsRoot(q) THEN "root" ELSE "account",
                            !.begun = @ + 1,
                            !.balance = BalancesAfter(Tx(q), q),
                            !.gasUsed = @ + Tx(q).gas]
             called == [n EXCEPT
                            !.output = old,
                            !.slots[k] = IF Tx(q).reverts THEN old ELSE old + 1,
                            !.read[k] = IF q.slots[k] = Nil THEN base ELSE @]
  <1>1. ReadOK(n)
    <2>1. ~NeedsRoot(q)
      BY NoRoot
    <2>2. QED
      BY <2>1 DEF ReadOK, Fields, Started
  <1>2. \/ Set(c, [n EXCEPT !.output = Nil]) /\ store' = store
        \/ Set(c, called) /\ store' \in {store, [store EXCEPT ![k] = base]}
    BY DEF Apply
  <1>3. k \in Slots => base = ChainSlot
    BY DEF StoreInv, BlockStates
  <1>4. store' \in BlockStates
    <2> HIDE DEF k, base, n, called
    <2>1. QED
      BY <1>2, <1>3 DEF StoreInv, BlockStates
  <1>5. ReadOK([n EXCEPT !.output = Nil])
    <2> HIDE DEF n
    <2>1. QED
      BY <1>1 DEF ReadOK, Fields, Started
  <1>6. ReadOK(called)
    <2> HIDE DEF n, old, base, k
    <2>1. QED
      BY <1>1, <1>3 DEF ReadOK, Fields, Started, BlockStates
  <1>7. QED
    <2> HIDE DEF n, called
    <2>1. QED
      BY <1>2, <1>4, <1>5, <1>6, SetReadOK

LEMMA StepReadsBlock ==
  ASSUME StoreInv, \A number \in Numbers : number >= Byzantium,
         NEW c \in Calls, Step(c)
  PROVE  StoreInv'
  <1> DEFINE q == call[c]
  <1> USE DEF StoreInv
  <1>1. CASE Arrive(c)
    <2>1. PICK method \in {"CallBundle", "EstimateGasBundle"}, txs \in Bundles,
               number \in Numbers, givenFee \in BaseFees, coinbase \in Accounts :
            LET new == Started(method, txs, number, givenFee, coinbase)
            IN  Set(c, IF txs = << >> \/ number = 0 THEN Replied(new, Error)
                       ELSE new)
      BY <1>1 DEF Arrive
    <2>2. ReadOK(Started(method, txs, number, givenFee, coinbase))
      BY DEF ReadOK, Started, Fields, BlockStates
    <2>3. QED
      BY <1>1, <2>1, <2>2, RepliedReadOK, SetReadOK DEF Arrive
  <1>2. CASE Respond(c)
    BY <1>2, SetReadOK DEF Respond
  <1>3. CASE q.pc # "idle" /\ ~Arrive(c) /\ ~Respond(c)
    <2>0. ReadOK(q)
      BY <1>3 DEF NoCall
    <2>1. CASE Expire(c)
      <3>1. ReadOK([q EXCEPT !.expired = TRUE, !.expiredAt = q.begun])
        BY <2>0 DEF ReadOK, Fields, Started
      <3>2. QED
        BY <2>1, <3>1, SetReadOK DEF Expire
    <2>2. CASE GetState(c)
      <3>1. \A fee, b : ReadOK([q EXCEPT !.pc = "loop", !.baseFee = fee, !.before = b])
        BY <2>0 DEF ReadOK, Fields, Started
      <3>2. QED
        BY <2>2, <3>1, SetReadOK DEF GetState
    <2>3. CASE CheckContext(c)
      <3>1. \A b : ReadOK([q EXCEPT !.pc = "apply", !.beforeTx = b])
        BY <2>0 DEF ReadOK, Fields, Started
      <3>2. QED
        BY <2>0, <2>3, <3>1, RepliedReadOK, SetReadOK DEF CheckContext
    <2>4. CASE Apply(c)
      BY <2>0, <2>4, ApplyReadOK
    <2>5. CASE IntermediateRoot(c)
      BY <2>0, <2>5 DEF IntermediateRoot, ReadOK
    <2>6. CASE Account(c)
      <3>1. \A f, rs : ReadOK([q EXCEPT !.pc = "loop", !.gasFees = f, !.results = rs])
        BY <2>0 DEF ReadOK, Fields, Started
      <3>2. QED
        BY <2>6, <3>1, SetReadOK DEF Account
    <2>7. CASE \/ StateFails(c) \/ CopyState(c) \/ ApplyFails(c)
               \/ HeaderFails(c) \/ TipFails(c) \/ Finish(c)
      <3>1. \E reply : Set(c, Replied(q, reply)) /\ UNCHANGED store
        BY <2>7 DEF StateFails, CopyState, ApplyFails, HeaderFails, TipFails, Finish
      <3>2. QED
        BY <2>0, <3>1, RepliedReadOK, SetReadOK
    <2>8. QED
      BY <1>3, <2>1, <2>2, <2>3, <2>4, <2>5, <2>6, <2>7 DEF Step
  <1>4. CASE q.pc = "idle" /\ ~Arrive(c)
    BY <1>4 DEF Step, Expire, StateFails, GetState, CopyState, CheckContext,
       ApplyFails, HeaderFails, Apply, IntermediateRoot, TipFails, Account,
       Finish, Respond
  <1>5. QED
    BY <1>1, <1>2, <1>3, <1>4

(* ReadsBlockState, as long as every block asked for is of Byzantium or later:
   whatever else they do, calls do not see each other's simulations. *)
THEOREM SimulationsApart ==
  ASSUME \A number \in Numbers : number >= Byzantium
  PROVE  Spec => []ReadsBlockState
  <1>1. Init => StoreInv
    BY DEF Init, StoreInv, BlockStates
  <1>2. StoreInv /\ [Next]_vars => StoreInv'
    <2>1. ASSUME StoreInv, UNCHANGED vars PROVE StoreInv'
      BY <2>1 DEF StoreInv, vars, ReadOK, BlockStates
    <2>2. QED
      BY <2>1, StepReadsBlock DEF Next
  <1>3. StoreInv => ReadsBlockState
    BY DEF StoreInv, ReadsBlockState, Working, ReadOK, BlockStates
  <1>4. QED
    BY <1>1, <1>2, <1>3, PTL DEF Spec

-----------------------------------------------------------------------------
(* What the figures of a transaction mean. *)

Result == [gasUsed : Int, coinbaseDiff : Int, gasFees : Int,
           ethSentToCoinbase : Int, value : Int]

(* Before London, fees are counted as they are paid only if no base fee is
   given. *)
Regular(q) == q.number >= London \/ q.givenFee = Nil

(* What a transaction's value brings the coinbase, less what the coinbase
   spends on it. *)
Sent(tx, q) ==
    LET moved == IF tx.reverts \/ tx.to = Contract THEN 0 ELSE tx.value
        came == IF tx.to = q.coinbase THEN moved ELSE 0
        went == IF tx.from = q.coinbase
                THEN moved + tx.gas * GasPrice(tx, q.baseFee) ELSE 0
    IN  came - went

HeaderOK(q) ==
    /\ q.number \in Int
    /\ q.coinbase \in Accounts
    /\ q.givenFee \in Nat \cup {Nil}
    /\ q.baseFee \in Nat \cup {Nil}
    /\ q.number < London /\ q.givenFee = Nil => q.baseFee = Nil

StateOK(q) ==
    /\ q.balance \in [Accounts -> Int]
    /\ q.slots \in [Slots -> Int]
    /\ q.output \in Int
    /\ q.beforeTx \in Int

(* Where a call is in its bundle. *)
PlaceOK(q) ==
    /\ q.txs \in Seq(Transaction)
    /\ q.results \in Seq(Result)
    /\ q.begun \in Nat
    /\ Len(q.results) <= Len(q.txs)
    /\ q.pc = "state" => q.begun = 0 /\ q.results = << >>
    /\ q.pc \in {"loop", "apply"} => Len(q.results) = q.begun
    /\ q.pc = "apply" => q.begun < Len(q.txs)
    /\ q.pc = "account" => /\ q.begun \in 1..Len(q.txs)
                           /\ Len(q.results) = q.begun - 1

(* The figures are exact for the results there are, and will be for the
   transaction being accounted for. *)
FiguresOK(q) ==
    /\ q.pc = "apply" => q.beforeTx = q.balance[q.coinbase]
    /\ Regular(q) =>
        /\ q.pc = "account" =>
            q.balance[q.coinbase] - q.beforeTx - FeesOf(LastTx(q), q) = Sent(LastTx(q), q)
        /\ \A i \in 1..Len(q.results) :
            q.results[i].ethSentToCoinbase = Sent(q.txs[i], q)

SentOK(q) ==
    /\ DOMAIN q = Fields
    /\ HeaderOK(q)
    /\ StateOK(q)
    /\ PlaceOK(q)
    /\ FiguresOK(q)

SentInv ==
    /\ call = [c \in Calls |-> call[c]]
    /\ store \in [Slots -> Int]
    /\ \A c \in Calls : call[c] = NoCall \/ SentOK(call[c])

(* A unit of gas costs, and brings the coinbase, an amount. *)
LEMMA PriceType ==
  ASSUME NEW tx \in Transaction, NEW baseFee \in Nat \cup {Nil}
  PROVE  /\ tx.gas * GasPrice(tx, baseFee) \in Int
         /\ tx.gas * EffectiveGasTip(tx, baseFee) \in Int
  <1>1. tx.gas \in Int /\ tx.tip \in Int /\ tx.cap \in Int /\ baseFee \in Int
    BY DEF Transaction, Nil
  <1>2. GasPrice(tx, baseFee) \in Int /\ EffectiveGasTip(tx, baseFee) \in Int
    BY <1>1 DEF GasPrice, EffectiveGasTip, MinOf
  <1>3. QED
    BY <1>1, <1>2

(* Applying a transaction changes the coinbase's balance by what it is sent
   and by the fees that CallBundle counts. *)
LEMMA PaymentExact ==
  ASSUME NEW q, HeaderOK(q), q.balance \in [Accounts -> Int],
         NEW tx \in Transaction, Applicable(tx, q)
  PROVE  /\ BalancesAfter(tx, q) \in [Accounts -> Int]
         /\ Regular(q) =>
                BalancesAfter(tx, q)[q.coinbase] - q.balance[q.coinbase]
                    - FeesOf(tx, q) = Sent(tx, q)
  <1> DEFINE price == tx.gas * GasPrice(tx, q.baseFee)
             tip == tx.gas * PaidTip(tx, q)
             fees == FeesOf(tx, q)
             moves == ~(tx.reverts \/ tx.to = Contract)
             sent == IF moves THEN Moved(q.balance, tx.from, tx.to, tx.value)
                     ELSE q.balance
             paid == [sent EXCEPT ![tx.from] = @ - price]
             after == [paid EXCEPT ![q.coinbase] = @ + tip]
  <1>1. price \in Int /\ fees \in Int /\ tip \in Int
    BY PriceType DEF HeaderOK, PaidTip, FeesOf
  <1>2. Regular(q) => tip = fees
    <2>1. London \in Nat /\ q.number \in Int
      BY BundleAssumption DEF HeaderOK
    <2>2. CASE q.number >= London
      BY <2>2 DEF PaidTip, FeesOf
    <2>3. CASE q.number < London /\ q.givenFee = Nil
      <3>1. q.baseFee = Nil /\ tx.tip = tx.cap
        BY <2>1, <2>3 DEF HeaderOK, Applicable
      <3>2. ~(q.number >= London)
        BY <2>1, <2>3
      <3>3. QED
        BY <3>1, <3>2 DEF PaidTip, FeesOf, GasPrice, EffectiveGasTip
    <2>4. QED
      BY <2>1, <2>2, <2>3 DEF Regular
  <1>3. /\ tx.from \in Accounts /\ tx.to \in Accounts \cup {Contract}
        /\ tx.value \in Int /\ q.coinbase \in Accounts
    BY DEF Transaction, HeaderOK
  <1>4. BalancesAfter(tx, q) = after
    BY DEF BalancesAfter
  <1>5. Sent(tx, q) = (IF moves /\ tx.to = q.coinbase THEN tx.value ELSE 0)
                        - (IF tx.from = q.coinbase
                           THEN (IF moves THEN tx.value ELSE 0) + price ELSE 0)
    BY <1>1, <1>3 DEF Sent
  <1> HIDE DEF price, tip, fees
  <1>6. /\ sent \in [Accounts -> Int]
        /\ sent[q.coinbase] - q.balance[q.coinbase] =
               (IF moves /\ tx.to = q.coinbase THEN tx.value ELSE 0)
               - (IF moves /\ tx.from = q.coinbase THEN tx.value ELSE 0)
    <2>1. CASE moves
      <3>1. sent = Moved(q.balance, tx.from, tx.to, tx.value) /\ tx.to \in Accounts
        BY <1>3, <2>1
      <3> HIDE DEF sent, moves
      <3> DEFINE b == q.balance
                 less == [b EXCEPT ![tx.from] = @ - tx.value]
      <3>2. sent = [less EXCEPT ![tx.to] = @ + tx.value]
        BY <3>1 DEF Moved
      <3>3. b \in [Accounts -> Int]
        OBVIOUS
      <3> HIDE DEF b
      <3>4. /\ less \in [Accounts -> Int]
            /\ less[q.coinbase] = b[q.coinbase]
                    - (IF tx.from = q.coinbase THEN tx.value ELSE 0)
        BY <1>3, <3>3
      <3> HIDE DEF less
      <3>5. /\ sent \in [Accounts -> Int]
            /\ sent[q.coinbase] = less[q.coinbase]
                    + (IF tx.to = q.coinbase THEN tx.value ELSE 0)
        BY <1>3, <3>1, <3>2, <3>4
      <3>6. b[q.coinbase] \in Int /\ less[q.coinbase] \in Int
        BY <1>3, <3>3, <3>4
      <3>7. QED
        BY <1>3, <2>1, <3>4, <3>5, <3>6 DEF b
    <2>2. CASE ~moves
      BY <1>3, <2>2
    <2>3. QED
      BY <2>1, <2>2
  <1> HIDE DEF sent, moves
  <1>7. /\ after \in [Accounts -> Int]
        /\ after[q.coinbase] = sent[q.coinbase] + tip
                - (IF tx.from = q.coinbase THEN price ELSE 0)
    BY <1>1, <1>3, <1>6
  <1> HIDE DEF after
  <1>8. q.balance[q.coinbase] \in Int /\ sent[q.coinbase] \in Int
    BY <1>3, <1>6
  <1>9. Regular(q) => after[q.coinbase] - q.balance[q.coinbase] - fees = Sent(tx, q)
    BY <1>1, <1>2, <1>3, <1>5, <1>6, <1>7, <1>8
  <1>10. QED
    BY <1>4, <1>7, <1>9 DEF fees

LEMMA SetSentOK ==
  ASSUME SentInv, NEW c \in Calls, NEW q, Set(c, q), q = NoCall \/ SentOK(q),
         store' \in [Slots -> Int]
  PROVE  SentInv'
  <1>1. call' = [x \in Calls |-> IF x = c THEN q ELSE call[x]]
    BY DEF SentInv, Set
  <1>2. ASSUME NEW x \in Calls PROVE call'[x] = NoCall \/ SentOK(call'[x])
    BY <1>1 DEF SentInv
  <1>3. QED
    BY <1>1, <1>2 DEF SentInv, SentOK, HeaderOK, StateOK, PlaceOK, FiguresOK,
       Regular, Fields, Started

(* A reply leaves the results as they are. *)
LEMMA RepliedSentOK ==
  ASSUME NEW q, SentOK(q), NEW reply
  PROVE  SentOK(Replied(q, reply))
  <1> DEFINE n == Replied(q, reply)
  <1>1. /\ DOMAIN n = Fields /\ n.pc = "done"
        /\ n.number = q.number /\ n.coinbase = q.coinbase
        /\ n.givenFee = q.givenFee /\ n.baseFee = q.baseFee
        /\ n.balance = q.balance /\ n.slots = q.slots /\ n.output = q.output
        /\ n.beforeTx = q.beforeTx /\ n.txs = q.txs /\ n.results = q.results
        /\ n.begun = q.begun
    BY DEF Replied, SentOK, Fields, Started
  <1> HIDE DEF n
  <1>2. \A tx : Sent(tx, n) = Sent(tx, q)
    BY <1>1 DEF Sent
  <1>3. HeaderOK(n) /\ StateOK(n) /\ PlaceOK(n)
    BY <1>1 DEF SentOK, HeaderOK, StateOK, PlaceOK
  <1>4. FiguresOK(n)
    BY <1>1, <1>2 DEF SentOK, FiguresOK, Regular
  <1>5. QED
    BY <1>1, <1>3, <1>4 DEF SentOK, n

LEMMA StartedSentOK ==
  ASSUME NEW method, NEW txs \in Bundles, NEW number \in Numbers,
         NEW givenFee \in BaseFees, NEW coinbase \in Accounts
  PROVE  SentOK(Started(method, txs, number, givenFee, coinbase))
  <1> DEFINE n == Started(method, txs, number, givenFee, coinbase)
  <1>1. /\ DOMAIN n = Fields /\ n.pc = "state"
        /\ n.number = number /\ n.coinbase = coinbase
        /\ n.givenFee = givenFee /\ n.baseFee = Nil
        /\ n.balance = Funds /\ n.slots = [k \in Slots |-> Nil] /\ n.output = Nil
        /\ n.beforeTx = 0 /\ n.txs = txs /\ n.results = << >> /\ n.begun = 0
    BY DEF Started, Fields
  <1> HIDE DEF n
  <1>2. HeaderOK(n) /\ StateOK(n)
    BY <1>1, BundleAssumption DEF HeaderOK, StateOK, Nil
  <1>3. PlaceOK(n)
    BY <1>1, BundleAssumption DEF PlaceOK
  <1>4. FiguresOK(n)
    BY <1>1 DEF FiguresOK
  <1>5. QED
    BY <1>1, <1>2, <1>3, <1>4 DEF SentOK, n

(* The base fee is settled before there is a result. *)
LEMMA GetStateSentOK ==
  ASSUME NEW q, SentOK(q), q.pc = "state", NEW before
  PROVE  LET fee == IF q.givenFee # Nil THEN q.givenFee
                    ELSE IF q.number >= London THEN NextBaseFee ELSE Nil
         IN  SentOK([q EXCEPT !.pc = "loop", !.baseFee = fee, !.before = before])
  <1> DEFINE fee == IF q.givenFee # Nil THEN q.givenFee
                    ELSE IF q.number >= London THEN NextBaseFee ELSE Nil
             n == [q EXCEPT !.pc = "loop", !.baseFee = fee, !.before = before]
  <1>1. /\ fee \in Nat \cup {Nil}
        /\ q.number < London /\ q.givenFee = Nil => fee = Nil
    BY BundleAssumption DEF SentOK, HeaderOK
  <1> HIDE DEF fee
  <1>2. /\ DOMAIN n = Fields /\ n.pc = "loop"
        /\ n.number = q.number /\ n.coinbase = q.coinbase
        /\ n.givenFee = q.givenFee /\ n.baseFee = fee
        /\ n.balance = q.balance /\ n.slots = q.slots /\ n.output = q.output
        /\ n.beforeTx = q.beforeTx /\ n.txs = q.txs /\ n.results = q.results
        /\ n.begun = q.begun
    BY DEF SentOK, Fields, Started
  <1> HIDE DEF n
  <1>3. HeaderOK(n) /\ StateOK(n) /\ PlaceOK(n)
    BY <1>1, <1>2 DEF SentOK, HeaderOK, StateOK, PlaceOK
  <1>4. FiguresOK(n)
    <2>1. Len(n.results) = 0
      BY <1>2 DEF SentOK, PlaceOK
    <2>2. QED
      BY <1>2, <2>1 DEF FiguresOK
  <1>5. QED
    BY <1>2, <1>3, <1>4 DEF SentOK, n, fee

LEMMA CheckContextSentOK ==
  ASSUME NEW q, SentOK(q), q.pc = "loop", q.begun < Len(q.txs)
  PROVE  SentOK([q EXCEPT !.pc = "apply", !.beforeTx = q.balance[q.coinbase]])
  <1> DEFINE n == [q EXCEPT !.pc = "apply", !.beforeTx = q.balance[q.coinbase]]
  <1>1. /\ DOMAIN n = Fields /\ n.pc = "apply"
        /\ n.number = q.number /\ n.coinbase = q.coinbase
        /\ n.givenFee = q.givenFee /\ n.baseFee = q.baseFee
        /\ n.balance = q.balance /\ n.slots = q.slots /\ n.output = q.output
        /\ n.beforeTx = q.balance[q.coinbase] /\ n.txs = q.txs
        /\ n.results = q.results /\ n.begun = q.begun
    BY DEF SentOK, Fields, Started
  <1> HIDE DEF n
  <1>2. \A tx : Sent(tx, n) = Sent(tx, q)
    BY <1>1 DEF Sent
  <1>3. HeaderOK(n) /\ StateOK(n) /\ PlaceOK(n)
    BY <1>1 DEF SentOK, HeaderOK, StateOK, PlaceOK
  <1>4. FiguresOK(n)
    BY <1>1, <1>2 DEF SentOK, FiguresOK, Regular
  <1>5. QED
    BY <1>1, <1>3, <1>4 DEF SentOK, n

(* The transaction's result takes the figure that was exact before. *)
LEMMA AccountSentOK ==
  ASSUME NEW q, SentOK(q), q.pc = "account", NEW gasFees,
         NEW value \in {Nil, q.output}
  PROVE  LET tx == LastTx(q)
             diff == q.balance[q.coinbase] - q.beforeTx
             fees == FeesOf(tx, q)
             result == [gasUsed |-> tx.gas, coinbaseDiff |-> diff, gasFees |-> fees,
                        ethSentToCoinbase |-> diff - fees, value |-> value]
         IN  SentOK([q EXCEPT !.pc = "loop", !.gasFees = gasFees,
                              !.results = Append(@, result)])
  <1> DEFINE tx == LastTx(q)
             diff == q.balance[q.coinbase] - q.beforeTx
             fees == FeesOf(tx, q)
             result == [gasUsed |-> tx.gas, coinbaseDiff |-> diff, gasFees |-> fees,
                        ethSentToCoinbase |-> diff - fees, value |-> value]
             n == [q EXCEPT !.pc = "loop", !.gasFees = gasFees,
                            !.results = Append(@, result)]
  <1>1. /\ q.txs \in Seq(Transaction) /\ q.begun \in 1..Len(q.txs)
        /\ q.results \in Seq(Result) /\ Len(q.results) = q.begun - 1
    BY DEF SentOK, PlaceOK
  <1>2. tx \in Transaction
    BY <1>1 DEF LastTx
  <1>3. fees \in Int
    BY <1>2, PriceType DEF FeesOf, SentOK, HeaderOK
  <1>4. diff \in Int /\ tx.gas \in Int /\ value \in Int
    BY <1>2 DEF SentOK, StateOK, HeaderOK, Transaction, Nil
  <1>5. Regular(q) => diff - fees = Sent(tx, q)
    BY DEF SentOK, FiguresOK
  <1> HIDE DEF tx, diff, fees
  <1>6. result \in Result /\ result.ethSentToCoinbase = diff - fees
    BY <1>3, <1>4 DEF Result
  <1> HIDE DEF result
  <1>7. /\ DOMAIN n = Fields /\ n.pc = "loop"
        /\ n.number = q.number /\ n.coinbase = q.coinbase
        /\ n.givenFee = q.givenFee /\ n.baseFee = q.baseFee
        /\ n.balance = q.balance /\ n.slots = q.slots /\ n.output = q.output
        /\ n.beforeTx = q.beforeTx /\ n.txs = q.txs
        /\ n.results = Append(q.results, result) /\ n.begun = q.begun
    BY DEF SentOK, Fields, Started
  <1> HIDE DEF n
  <1>8. \A t : Sent(t, n) = Sent(t, q)
    BY <1>7 DEF Sent
  <1>9. /\ n.results \in Seq(Result) /\ Len(n.results) = q.begun
        /\ \A i \in 1..(q.begun - 1) : n.results[i] = q.results[i]
        /\ n.results[q.begun] = result
    BY <1>1, <1>6, <1>7
  <1>10. HeaderOK(n) /\ StateOK(n) /\ PlaceOK(n)
    BY <1>1, <1>7, <1>9 DEF SentOK, HeaderOK, StateOK, PlaceOK
  <1>11. FiguresOK(n)
    <2>1. ASSUME Regular(q), NEW i \in 1..Len(n.results)
          PROVE  n.results[i].ethSentToCoinbase = Sent(n.txs[i], n)
      <3>1. CASE i = q.begun
        BY <1>5, <1>6, <1>7, <1>8, <1>9, <2>1, <3>1 DEF tx, LastTx
      <3>2. CASE i # q.begun
        <4>1. i \in 1..Len(q.results)
          BY <1>1, <1>9, <3>2
        <4>2. QED
          BY <1>1, <1>7, <1>8, <1>9, <2>1, <4>1 DEF SentOK, FiguresOK
      <3>3. QED
        BY <3>1, <3>2
    <2>2. QED
      BY <1>7, <2>1 DEF FiguresOK, Regular
  <1>12. QED
    BY <1>7, <1>10, <1>11 DEF SentOK, n, result, tx, diff, fees

(* A transaction was applied: its figure is right, and not taken yet. *)
LEMMA AppliedSentOK ==
  ASSUME NEW q, SentOK(q), q.pc = "apply", Applicable(Tx(q), q),
         NEW n, DOMAIN n = Fields, n.pc \in {"root", "account"},
         n.number = q.number, n.coinbase = q.coinbase, n.givenFee = q.givenFee,
         n.baseFee = q.baseFee, n.balance = BalancesAfter(Tx(q), q),
         n.beforeTx = q.beforeTx, n.txs = q.txs, n.results = q.results,
         n.begun = q.begun + 1,
         n.slots \in [Slots -> Int], n.output \in Int
  PROVE  SentOK(n)
  <1> DEFINE tx == Tx(q)
  <1>1. /\ q.txs \in Seq(Transaction) /\ q.begun \in Nat /\ q.begun < Len(q.txs)
        /\ Len(q.results) = q.begun /\ q.beforeTx = q.balance[q.coinbase]
        /\ HeaderOK(q) /\ q.balance \in [Accounts -> Int]
    BY DEF SentOK, PlaceOK, FiguresOK, StateOK
  <1>2. tx \in Transaction
    BY <1>1 DEF Tx
  <1>3. /\ n.balance \in [Accounts -> Int]
        /\ Regular(q) => n.balance[q.coinbase] - q.balance[q.coinbase]
                            - FeesOf(tx, q) = Sent(tx, q)
    BY <1>1, <1>2, PaymentExact
  <1>4. LastTx(n) = tx
    BY DEF LastTx, Tx
  <1> HIDE DEF tx
  <1>5. \A t : Sent(t, n) = Sent(t, q) /\ FeesOf(t, n) = FeesOf(t, q)
    BY DEF Sent, FeesOf
  <1>6. HeaderOK(n) /\ StateOK(n)
    BY <1>3 DEF SentOK, HeaderOK, StateOK
  <1>7. PlaceOK(n)
    BY <1>1 DEF SentOK, PlaceOK
  <1>8. FiguresOK(n)
    BY <1>1, <1>3, <1>4, <1>5 DEF SentOK, FiguresOK, Regular
  <1>9. QED
    BY <1>6, <1>7, <1>8 DEF SentOK

LEMMA ApplySentOK ==
  ASSUME SentInv, NEW c \in Calls, SentOK(call[c]), Apply(c)
  PROVE  SentInv'
  <1> DEFINE q == call[c]
             k == Tx(q).slot
             base == IF store[k] # Nil THEN store[k] ELSE ChainSlot
             old == IF q.slots[k] # Nil THEN q.slots[k] ELSE base
             n == [q EXCEPT !.pc = IF NeedsRoot(q) THEN "root" ELSE "account",
                            !.begun = @ + 1,
                            !.balance = BalancesAfter(Tx(q), q),
                            !.gasUsed = @ + Tx(q).gas]
             slots == [q.slots EXCEPT ![k] = IF Tx(q).reverts THEN old ELSE old + 1]
             called == [n EXCEPT
                            !.output = old,
                            !.slots[k] = IF Tx(q).reverts THEN old ELSE old + 1,
                            !.read[k] = IF q.slots[k] = Nil THEN base ELSE @]
             sent == [n EXCEPT !.output = Nil]
  <1>1. /\ \/ Set(c, sent) /\ store' = store
           \/ Set(c, called) /\ store' \in {store, [store EXCEPT ![k] = base]}
        /\ q.pc = "apply" /\ Applicable(Tx(q), q)
    BY DEF Apply
  <1>2. k \in Slots
    <2>1. q.txs \in Seq(Transaction) /\ q.begun \in Nat /\ q.begun < Len(q.txs)
      BY <1>1 DEF SentOK, PlaceOK
    <2>2. Tx(q) \in Transaction
      BY <2>1 DEF Tx
    <2>3. QED
      BY <2>2 DEF Transaction
  <1>3. base \in Int /\ old \in Int
    BY <1>2 DEF SentInv, ChainSlot, SentOK, StateOK
  <1>4. /\ DOMAIN n = Fields /\ n.pc \in {"root", "account"}
        /\ n.number = q.number /\ n.coinbase = q.coinbase
        /\ n.givenFee = q.givenFee /\ n.baseFee = q.baseFee
        /\ n.balance = BalancesAfter(Tx(q), q)
        /\ n.beforeTx = q.beforeTx /\ n.txs = q.txs /\ n.results = q.results
        /\ n.begun = q.begun + 1 /\ n.slots = q.slots
    BY DEF SentOK, Fields, Started
  <1> HIDE DEF n, base, old, k
  <1>5. slots \in [Slots -> Int]
    BY <1>2, <1>3 DEF SentOK, StateOK
  <1>6. SentOK(sent)
    <2>1. /\ DOMAIN sent = Fields /\ sent.pc = n.pc
          /\ sent.number = q.number /\ sent.coinbase = q.coinbase
          /\ sent.givenFee = q.givenFee /\ sent.baseFee = q.baseFee
          /\ sent.balance = BalancesAfter(Tx(q), q)
          /\ sent.beforeTx = q.beforeTx /\ sent.txs = q.txs
          /\ sent.results = q.results /\ sent.begun = q.begun + 1
          /\ sent.slots = q.slots /\ sent.output = Nil
      BY <1>4 DEF Fields, Started
    <2>2. q.slots \in [Slots -> Int] /\ Nil \in Int
      BY DEF SentOK, StateOK, Nil
    <2> HIDE DEF sent
    <2>3. QED
      BY <1>1, <1>4, <2>1, <2>2, AppliedSentOK
  <1>7. SentOK(called)
    <2>1. /\ DOMAIN called = Fields /\ called.pc = n.pc
          /\ called.number = q.number /\ called.coinbase = q.coinbase
          /\ called.givenFee = q.givenFee /\ called.baseFee = q.baseFee
          /\ called.balance = BalancesAfter(Tx(q), q)
          /\ called.beforeTx = q.beforeTx /\ called.txs = q.txs
          /\ called.results = q.results /\ called.begun = q.begun + 1
          /\ called.slots = slots /\ called.output = old
      BY <1>4 DEF Fields, Started
    <2> HIDE DEF called, slots
    <2>2. QED
      BY <1>1, <1>3, <1>4, <1>5, <2>1, AppliedSentOK
  <1>8. store' \in [Slots -> Int]
    <2> HIDE DEF called, sent
    <2>1. QED
      BY <1>1, <1>2, <1>3 DEF SentInv
  <1> HIDE DEF called, sent
  <1>9. QED
    BY <1>1, <1>6, <1>7, <1>8, SetSentOK

LEMMA StepSentOK ==
  ASSUME SentInv, NEW c \in Calls, Step(c)
  PROVE  SentInv'
  <1> DEFINE q == call[c]
  <1>0. store \in [Slots -> Int]
    BY DEF SentInv
  <1>1. CASE Arrive(c)
    <2>1. PICK method \in {"CallBundle", "EstimateGasBundle"}, txs \in Bundles,
               number \in Numbers, givenFee \in BaseFees, coinbase \in Accounts :
            LET new == Started(method, txs, number, givenFee, coinbase)
            IN  Set(c, IF txs = << >> \/ number = 0 THEN Replied(new, Error)
                       ELSE new)
      BY <1>1 DEF Arrive
    <2>2. SentOK(Started(method, txs, number, givenFee, coinbase))
      BY StartedSentOK
    <2>3. QED
      BY <1>0, <1>1, <2>1, <2>2, RepliedSentOK, SetSentOK DEF Arrive
  <1>2. CASE Respond(c)
    BY <1>0, <1>2, SetSentOK DEF Respond
  <1>3. CASE q.pc # "idle" /\ ~Arrive(c) /\ ~Respond(c)
    <2>0. SentOK(q)
      BY <1>3 DEF NoCall, SentInv
    <2>1. CASE Expire(c)
      <3> DEFINE n == [q EXCEPT !.expired = TRUE, !.expiredAt = q.begun]
      <3>1. /\ DOMAIN n = Fields /\ n.pc = q.pc
            /\ n.number = q.number /\ n.coinbase = q.coinbase
            /\ n.givenFee = q.givenFee /\ n.baseFee = q.baseFee
            /\ n.balance = q.balance /\ n.slots = q.slots /\ n.output = q.output
            /\ n.beforeTx = q.beforeTx /\ n.txs = q.txs
            /\ n.results = q.results /\ n.begun = q.begun
        BY <2>0 DEF SentOK, Fields, Started
      <3>2. Set(c, n) /\ UNCHANGED store
        BY <2>1 DEF Expire
      <3> HIDE DEF n
      <3>3. SentOK(n)
        <4>1. \A t : Sent(t, n) = Sent(t, q) /\ FeesOf(t, n) = FeesOf(t, q)
          BY <3>1 DEF Sent, FeesOf
        <4>2. LastTx(n) = LastTx(q)
          BY <3>1 DEF LastTx
        <4>3. FiguresOK(n)
          BY <2>0, <3>1, <4>1, <4>2 DEF SentOK, FiguresOK, Regular
        <4>4. HeaderOK(n) /\ StateOK(n) /\ PlaceOK(n)
          BY <2>0, <3>1 DEF SentOK, HeaderOK, StateOK, PlaceOK
        <4>5. QED
          BY <3>1, <4>3, <4>4 DEF SentOK
      <3>4. QED
        BY <1>0, <3>2, <3>3, SetSentOK
    <2>2. CASE GetState(c)
      <3>1. q.pc = "state" /\ UNCHANGED store
        BY <2>2 DEF GetState
      <3>2. PICK n : Set(c, n) /\ SentOK(n)
        BY <2>0, <2>2, <3>1, GetStateSentOK DEF GetState
      <3>3. QED
        BY <1>0, <3>1, <3>2, SetSentOK
    <2>3. CASE CheckContext(c)
      <3>1. /\ q.pc = "loop" /\ q.begun < Len(q.txs) /\ UNCHANGED store
            /\ \/ Set(c, Replied(q, Error))
               \/ Set(c, [q EXCEPT !.pc = "apply", !.beforeTx = q.balance[q.coinbase]])
        BY <2>3 DEF CheckContext
      <3>2. SentOK([q EXCEPT !.pc = "apply", !.beforeTx = q.balance[q.coinbase]])
        BY <2>0, <3>1, CheckContextSentOK
      <3>3. QED
        BY <1>0, <2>0, <3>1, <3>2, RepliedSentOK, SetSentOK
    <2>4. CASE Apply(c)
      BY <2>0, <2>4, ApplySentOK
    <2>5. CASE IntermediateRoot(c)
      <3>1. store' \in [Slots -> Int]
        BY <1>0, <2>0, <2>5 DEF IntermediateRoot, SentOK, StateOK
      <3>2. Set(c, Replied(q, Crash))
        BY <2>5 DEF IntermediateRoot
      <3>3. QED
        BY <2>0, <3>1, <3>2, RepliedSentOK, SetSentOK
    <2>6. CASE Account(c)
      <3>1. q.pc = "account" /\ UNCHANGED store
        BY <2>6 DEF Account
      <3>2. PICK n : Set(c, n) /\ SentOK(n)
        <4> DEFINE tx == LastTx(q)
                   diff == q.balance[q.coinbase] - q.beforeTx
                   fees == FeesOf(tx, q)
                   result(value) ==
                        [gasUsed |-> tx.gas, coinbaseDiff |-> diff, gasFees |-> fees,
                         ethSentToCoinbase |-> diff - fees, value |-> value]
                   n(value) == [q EXCEPT !.pc = "loop", !.gasFees = q.gasFees + fees,
                                         !.results = Append(@, result(value))]
        <4>1. Set(c, n(IF tx.reverts THEN Nil ELSE q.output))
          BY <2>6 DEF Account
        <4>2. \A value \in {Nil, q.output} : SentOK(n(value))
          BY <2>0, <3>1, AccountSentOK
        <4>3. QED
          BY <4>1, <4>2
      <3>3. QED
        BY <1>0, <3>1, <3>2, SetSentOK
    <2>7. CASE \/ StateFails(c) \/ CopyState(c) \/ ApplyFails(c)
               \/ HeaderFails(c) \/ TipFails(c) \/ Finish(c)
      <3>1. \E reply : Set(c, Replied(q, reply)) /\ UNCHANGED store
        BY <2>7 DEF StateFails, CopyState, ApplyFails, HeaderFails, TipFails, Finish
      <3>2. QED
        BY <1>0, <2>0, <3>1, RepliedSentOK, SetSentOK
    <2>8. QED
      BY <1>3, <2>1, <2>2, <2>3, <2>4, <2>5, <2>6, <2>7 DEF Step
  <1>4. CASE q.pc = "idle" /\ ~Arrive(c)
    BY <1>4 DEF Step, Expire, StateFails, GetState, CopyState, CheckContext,
       ApplyFails, HeaderFails, Apply, IntermediateRoot, TipFails, Account,
       Finish, Respond
  <1>5. QED
    BY <1>1, <1>2, <1>3, <1>4

(* EthSentExact: for any transactions and fees, what CallBundle reports a
   transaction to have sent the coinbase is what it sent; except in a block
   before London for which the caller gives a base fee. *)
THEOREM SentIsExact == Spec => []EthSentExact
  <1>1. Init => SentInv
    BY DEF Init, SentInv, ChainSlot, Nil
  <1>2. SentInv /\ [Next]_vars => SentInv'
    <2>1. ASSUME SentInv, UNCHANGED vars PROVE SentInv'
      BY <2>1 DEF SentInv, vars
    <2>2. QED
      BY <2>1, StepSentOK DEF Next
  <1>3. SentInv => EthSentExact
    <2> SUFFICES ASSUME SentInv, NEW c \in Calls, Working(c),
                        Regular(call[c]), NEW i \in DOMAIN call[c].results
                 PROVE  call[c].results[i].ethSentToCoinbase
                            = Sent(call[c].txs[i], call[c])
      BY DEF EthSentExact, Regular, Sent
    <2>1. SentOK(call[c])
      BY DEF SentInv, Working
    <2>2. i \in 1..Len(call[c].results)
      BY <2>1 DEF SentOK, PlaceOK
    <2>3. QED
      BY <2>1, <2>2 DEF SentOK, FiguresOK
  <1>4. QED
    BY <1>1, <1>2, <1>3, PTL DEF Spec

-----------------------------------------------------------------------------
(* Sums.  FoldLeft recurses over the sets of indices; what it gives is proved
   by induction. *)

LEMMA NaturalInduction ==
  ASSUME NEW S, 0 \in S, \A n \in Nat : n \in S => n + 1 \in S
  PROVE  Nat \subseteq S
  <1> SUFFICES ASSUME NEW k \in Nat \ S PROVE FALSE
    OBVIOUS
  <1> DEFINE R == { p \in Nat \X Nat : p[1] < p[2] }
  <1>1. IsWellFoundedOn(R, Nat)
    BY NatLessThanWellFounded DEF OpToRel
  <1> HIDE DEF R
  <1>2. PICK x \in Nat \ S : \A y \in Nat \ S : ~(<<y, x>> \in R)
    BY <1>1, WFMin
  <1>3. \A y \in Nat \ S : ~(y < x)
    BY <1>2 DEF R
  <1>4. x # 0 /\ x - 1 \in S
    BY <1>3
  <1>5. QED
    BY <1>4

LEMMA MaxOfInterval ==
  ASSUME NEW n \in Nat, NEW s \in SUBSET (1..(n+1)), n+1 \in s
  PROVE  Max(s) = n + 1
  <1>1. n + 1 \in s /\ \A y \in s : n + 1 >= y
    OBVIOUS
  <1>2. Max(s) \in s /\ \A y \in s : Max(s) >= y
    BY <1>1, Zenon DEF Max
  <1>3. \A x \in s : x >= n + 1 => x = n + 1
    OBVIOUS
  <1>4. QED
    BY <1>1, <1>2, <1>3, Zenon

(* f gives the sum of the values at each set of indices up to n: the recursion
   FoldLeft is defined by. *)
IsSumming(f, n, values) ==
    f = [s \in SUBSET (1..n) |->
            IF s = {} THEN 0 ELSE f[s \ {Max(s)}] + values[Max(s)]]

LEMMA SummingExists ==
  ASSUME NEW n \in Nat, NEW values
  PROVE  \E f : IsSumming(f, n, values)
  <1> DEFINE Has(m) == \E f : IsSumming(f, m, values)
             S == { m \in Nat : Has(m) }
  <1>1. 0 \in S
    <2> DEFINE f == [s \in SUBSET (1..0) |-> 0]
    <2>1. \A s \in SUBSET (1..0) : s = {}
      OBVIOUS
    <2>2. IsSumming(f, 0, values)
      BY <2>1 DEF IsSumming
    <2>3. QED
      BY <2>2
  <1>2. ASSUME NEW m \in Nat, m \in S PROVE m + 1 \in S
    <2>1. PICK g : IsSumming(g, m, values)
      BY <1>2
    <2> DEFINE f == [s \in SUBSET (1..(m+1)) |->
                        IF m+1 \in s THEN g[s \ {m+1}] + values[m+1] ELSE g[s]]
    <2>2. ASSUME NEW s \in SUBSET (1..(m+1))
          PROVE  f[s] = IF s = {} THEN 0 ELSE f[s \ {Max(s)}] + values[Max(s)]
      <3>1. CASE m+1 \in s
        <4>1. Max(s) = m+1 /\ s # {}
          BY <3>1, MaxOfInterval
        <4>2. f[s \ {m+1}] = g[s \ {m+1}]
          OBVIOUS
        <4>3. QED
          BY <3>1, <4>1, <4>2
      <3>2. CASE m+1 \notin s
        <4>1. s \in SUBSET (1..m)
          BY <3>2
        <4>2. f[s] = IF s = {} THEN 0 ELSE g[s \ {Max(s)}] + values[Max(s)]
          BY <2>1, <3>2, <4>1 DEF IsSumming
        <4>3. f[s \ {Max(s)}] = g[s \ {Max(s)}]
          BY <3>2
        <4>4. QED
          BY <4>2, <4>3
      <3>3. QED
        BY <3>1, <3>2
    <2>3. IsSumming(f, m+1, values)
      <3>1. f = [s \in SUBSET (1..(m+1)) |-> f[s]]
        OBVIOUS
      <3> HIDE DEF f
      <3>2. QED
        BY <2>2, <3>1 DEF IsSumming
    <2>4. Has(m+1)
      BY <2>3
    <2>5. QED
      BY <2>4
  <1>3. n \in S
    <2> HIDE DEF S
    <2>1. QED
      BY <1>1, <1>2, NaturalInduction
  <1>4. QED
    BY <1>3

LEMMA SumIsSumming ==
  ASSUME NEW n \in Nat, NEW values, DOMAIN values = 1..n
  PROVE  \E f : IsSumming(f, n, values) /\ Sum(values) = f[1..n]
  <1> DEFINE f == CHOOSE f : IsSumming(f, n, values)
  <1>1. IsSumming(f, n, values)
    BY SummingExists, Zenon
  <1>2. Sum(values) = f[1..n]
    BY Zenon DEF Sum, FoldLeft, MapThenFoldSet, IsSumming
  <1>3. QED
    BY <1>1, <1>2

(* What is summed over the first indices does not depend on the others. *)
LEMMA SummingAgrees ==
  ASSUME NEW n \in Nat, NEW values \in [1..(n+1) -> Int],
         NEW f, IsSumming(f, n + 1, values),
         NEW g, IsSumming(g, n, [i \in 1..n |-> values[i]])
  PROVE  f[1..n] = g[1..n] /\ g[1..n] \in Int
  <1> DEFINE Agree(m) == \A s \in SUBSET (1..m) : f[s] = g[s] /\ g[s] \in Int
             S == { m \in Nat : m <= n => Agree(m) }
             first == [i \in 1..n |-> values[i]]
  <1>1. 0 \in S
    <2>1. \A s \in SUBSET (1..0) : s = {}
      OBVIOUS
    <2>2. {} \in SUBSET (1..n) /\ {} \in SUBSET (1..(n+1))
      OBVIOUS
    <2>3. f[{}] = 0 /\ g[{}] = 0
      BY <2>2 DEF IsSumming
    <2>4. f[{}] = g[{}] /\ g[{}] \in Int
      BY <2>3
    <2>5. Agree(0)
      BY <2>1, <2>4, Zenon
    <2> HIDE DEF Agree
    <2>6. QED
      BY <2>5
  <1>2. ASSUME NEW m \in Nat, m \in S PROVE m + 1 \in S
    <2> SUFFICES ASSUME m + 1 <= n, NEW s \in SUBSET (1..(m+1))
                 PROVE  f[s] = g[s] /\ g[s] \in Int
      OBVIOUS
    <2>1. CASE m+1 \in s
      <3>1. Max(s) = m + 1
        BY <2>1, MaxOfInterval
      <3>2. /\ s \ {m+1} \in SUBSET (1..m)
            /\ s \in SUBSET (1..n) /\ s \in SUBSET (1..(n+1)) /\ s # {}
            /\ m+1 \in 1..n
        BY <2>1
      <3>3. f[s] = f[s \ {m+1}] + values[m+1]
        BY <3>1, <3>2 DEF IsSumming
      <3>4. g[s] = g[s \ {m+1}] + first[m+1]
        BY <3>1, <3>2 DEF IsSumming
      <3>5. first[m+1] = values[m+1] /\ values[m+1] \in Int
        BY <3>2
      <3>6. f[s \ {m+1}] = g[s \ {m+1}] /\ g[s \ {m+1}] \in Int
        BY <1>2, <3>2
      <3>7. QED
        BY <3>3, <3>4, <3>5, <3>6
    <2>2. CASE m+1 \notin s
      <3>1. s \in SUBSET (1..m)
        BY <2>2
      <3>2. QED
        BY <1>2, <3>1
    <2>3. QED
      BY <2>1, <2>2
  <1>3. n \in S
    <2> HIDE DEF S
    <2>1. QED
      BY <1>1, <1>2, NaturalInduction
  <1>4. Agree(n)
    <2> HIDE DEF Agree
    <2>1. QED
      BY <1>3
  <1>5. QED
    BY <1>4

(* A sum is an amount: none of nothing, and one value more is added to it. *)
LEMMA SumOfNone ==
  ASSUME NEW values, DOMAIN values = {}
  PROVE  Sum(values) = 0
  <1>1. 1..0 = {}
    OBVIOUS
  <1>2. PICK f : IsSumming(f, 0, values) /\ Sum(values) = f[1..0]
    BY <1>1, SumIsSumming
  <1>3. QED
    BY <1>1, <1>2 DEF IsSumming

LEMMA SumOfOneMore ==
  ASSUME NEW n \in Nat, NEW values \in [1..(n+1) -> Int]
  PROVE  /\ Sum([i \in 1..n |-> values[i]]) \in Int
         /\ Sum(values) = Sum([i \in 1..n |-> values[i]]) + values[n+1]
  <1> DEFINE first == [i \in 1..n |-> values[i]]
  <1>1. PICK f : IsSumming(f, n + 1, values) /\ Sum(values) = f[1..(n+1)]
    BY SumIsSumming
  <1>2. PICK g : IsSumming(g, n, first) /\ Sum(first) = g[1..n]
    BY SumIsSumming
  <1>3. f[1..n] = g[1..n] /\ g[1..n] \in Int
    BY <1>1, <1>2, SummingAgrees
  <1>4. Max(1..(n+1)) = n + 1
    BY MaxOfInterval
  <1>5. (1..(n+1)) \ {n+1} = 1..n /\ 1..(n+1) # {}
    OBVIOUS
  <1>6. f[1..(n+1)] = f[(1..(n+1)) \ {n+1}] + values[n+1]
    BY <1>1, <1>4, <1>5 DEF IsSumming
  <1>7. QED
    BY <1>1, <1>2, <1>3, <1>5, <1>6

-----------------------------------------------------------------------------
(* What the accounts hold, and what the figures add up to. *)

MaybeSlot == Nat \cup {Nil}

Fee(rs) == Sum([i \in DOMAIN rs |-> rs[i].gasFees])
Diff(rs) == Sum([i \in DOMAIN rs |-> rs[i].coinbaseDiff])
Eth(rs) == Sum([i \in DOMAIN rs |-> rs[i].ethSentToCoinbase])
GasOf(txs, n) == Sum([i \in 1..n |-> txs[i].gas])

(* No account owes anything; from London on there is a base fee. *)
FundsOK(q) ==
    /\ q.balance \in [Accounts -> Nat]
    /\ q.slots \in [Slots -> MaybeSlot]
    /\ q.pc \notin {"state", "done"} /\ q.number >= London => q.baseFee # Nil

(* Gas is counted for the transactions applied. *)
CountOK(q) ==
    /\ q.pc \in Stages \ {"idle"}
    /\ q.begun \in 0..Len(q.txs)
    /\ q.gasUsed = GasOf(q.txs, q.begun)

(* A result's figures are those of its transaction, and sums of theirs are
   kept: gasFees, and what the coinbase has had when the next transaction is
   looked at, which is beforeTx until that one has its result. *)
SumsOK(q) ==
    /\ q.before \in Int
    /\ \A i \in 1..Len(q.results) : q.results[i].gasUsed = q.txs[i].gas
    /\ Eth(q.results) = Diff(q.results) - Fee(q.results)
    /\ q.pc = "state" => q.gasFees = 0
    /\ q.pc \in {"loop", "apply", "account"} => q.gasFees = Fee(q.results)
    /\ q.pc \in {"loop", "apply"} =>
            q.balance[q.coinbase] - q.before = Diff(q.results)
    /\ q.pc = "account" => q.beforeTx - q.before = Diff(q.results)

(* A bundle's result is made of these sums. *)
ReplyOK(q) ==
    /\ q.pc # "done" => q.reply = << >>
    /\ q.pc = "done" =>
        \/ q.reply \in {Error, Crash}
        \/ /\ Len(q.results) = Len(q.txs)
           /\ q.reply = << "results",
                [totalGasUsed |-> GasOf(q.txs, Len(q.txs)),
                 coinbaseDiff |-> Diff(q.results),
                 gasFees |-> Fee(q.results),
                 ethSentToCoinbase |-> Eth(q.results)] >>

TotalOK(q) == FundsOK(q) /\ CountOK(q) /\ SumsOK(q) /\ ReplyOK(q)

TotalInv ==
    /\ SentInv
    /\ store \in [Slots -> MaybeSlot]
    /\ \A c \in Calls : call[c] = NoCall \/ TotalOK(call[c])

LEMMA TimesOrdered ==
  ASSUME NEW g \in Nat, NEW a \in Int, NEW b \in Int, a <= b
  PROVE  g * a \in Int /\ g * b \in Int /\ g * a <= g * b
  <1>1. b - a \in Nat
    OBVIOUS
  <1>2. g * (b - a) \in Nat
    BY <1>1
  <1>3. g * b = g * a + g * (b - a)
    OBVIOUS
  <1>4. QED
    BY <1>2, <1>3

(* What a unit of gas costs is within the transaction's fee cap, and what it
   brings the coinbase is not negative. *)
LEMMA PriceBounds ==
  ASSUME NEW q, HeaderOK(q), q.number >= London => q.baseFee # Nil,
         NEW tx \in Transaction, Applicable(tx, q)
  PROVE  /\ GasPrice(tx, q.baseFee) \in Int /\ GasPrice(tx, q.baseFee) <= tx.cap
         /\ PaidTip(tx, q) \in Nat
  <1>1. tx.tip \in Nat /\ tx.cap \in Nat
    BY DEF Transaction
  <1>2. q.baseFee \in Nat \/ q.baseFee = Nil
    BY DEF HeaderOK
  <1>3. /\ GasPrice(tx, q.baseFee) \in Nat
        /\ GasPrice(tx, q.baseFee) <= tx.cap
    BY <1>1, <1>2 DEF GasPrice, MinOf
  <1>4. CASE q.number >= London
    <2>1. q.baseFee \in Nat /\ tx.cap >= q.baseFee /\ q.baseFee # Nil
      BY <1>2, <1>4 DEF Applicable
    <2>2. EffectiveGasTip(tx, q.baseFee) \in Nat
      BY <1>1, <2>1 DEF EffectiveGasTip, MinOf
    <2>3. QED
      BY <1>3, <1>4, <2>2 DEF PaidTip
  <1>5. CASE ~(q.number >= London)
    BY <1>3, <1>5 DEF PaidTip
  <1>6. QED
    BY <1>4, <1>5

(* The check that the sender can pay for gas at the fee cap and value together
   is enough: no balance falls below zero. *)
LEMMA NobodyOwes ==
  ASSUME NEW q, HeaderOK(q), q.balance \in [Accounts -> Nat],
         q.number >= London => q.baseFee # Nil,
         NEW tx \in Transaction, Applicable(tx, q)
  PROVE  BalancesAfter(tx, q) \in [Accounts -> Nat]
  <1> DEFINE price == tx.gas * GasPrice(tx, q.baseFee)
             tip == tx.gas * PaidTip(tx, q)
             limit == tx.gas * tx.cap
             moves == ~(tx.reverts \/ tx.to = Contract)
             sent == IF moves THEN Moved(q.balance, tx.from, tx.to, tx.value)
                     ELSE q.balance
             paid == [sent EXCEPT ![tx.from] = @ - price]
  <1>1. /\ tx.from \in Accounts /\ tx.to \in Accounts \cup {Contract}
        /\ tx.value \in Nat /\ tx.gas \in Nat /\ tx.cap \in Nat
        /\ q.coinbase \in Accounts
    BY DEF Transaction, HeaderOK
  <1>2. price \in Int /\ limit \in Int /\ price <= limit /\ tip \in Nat
    BY <1>1, PriceBounds, TimesOrdered
  <1>3. q.balance[tx.from] >= limit + tx.value
    BY DEF Applicable
  <1>4. BalancesAfter(tx, q) = [paid EXCEPT ![q.coinbase] = @ + tip]
    BY DEF BalancesAfter
  <1> HIDE DEF price, tip, limit
  <1>5. sent \in [Accounts -> Nat] /\ sent[tx.from] >= limit
    <2>1. CASE moves
      <3>1. tx.to \in Accounts /\ sent = Moved(q.balance, tx.from, tx.to, tx.value)
        BY <1>1, <2>1
      <3> HIDE DEF sent, moves
      <3> DEFINE b == q.balance
                 less == [b EXCEPT ![tx.from] = @ - tx.value]
      <3>2. sent = [less EXCEPT ![tx.to] = @ + tx.value]
        BY <3>1 DEF Moved
      <3>3. b \in [Accounts -> Nat] /\ b[tx.from] \in Nat
        BY <1>1
      <3>4. less \in [Accounts -> Nat] /\ less[tx.from] >= limit
        <4>1. b[tx.from] >= limit + tx.value /\ limit \in Nat
          BY <1>1, <1>2, <1>3 DEF limit
        <4> HIDE DEF b
        <4>2. b[tx.from] - tx.value \in Nat /\ b[tx.from] - tx.value >= limit
          BY <1>1, <3>3, <4>1
        <4>3. QED
          BY <1>1, <3>3, <4>2
      <3> HIDE DEF less, b
      <3>5. less[tx.to] \in Nat /\ less[tx.from] \in Nat
        BY <1>1, <3>1, <3>4
      <3>6. sent \in [Accounts -> Nat]
        BY <1>1, <3>1, <3>2, <3>4, <3>5
      <3>7. sent[tx.from] >= less[tx.from]
        BY <1>1, <3>1, <3>2, <3>4, <3>5
      <3>8. QED
        BY <1>1, <1>2, <3>4, <3>5, <3>6, <3>7
    <2>2. CASE ~moves
      <3>1. q.balance[tx.from] \in Nat
        BY <1>1
      <3>2. QED
        BY <1>1, <1>2, <1>3, <2>2, <3>1
    <2>3. QED
      BY <2>1, <2>2
  <1> HIDE DEF sent, moves
  <1>6. paid \in [Accounts -> Nat]
    <2>1. sent[tx.from] \in Nat
      BY <1>1, <1>5
    <2>2. QED
      BY <1>1, <1>2, <1>5, <2>1
  <1> HIDE DEF paid
  <1>7. QED
    BY <1>1, <1>2, <1>4, <1>6

(* The columns of the results grow with them. *)
LEMMA NoFigures ==
  /\ Fee(<< >>) = 0 /\ Diff(<< >>) = 0 /\ Eth(<< >>) = 0
  /\ \A txs : GasOf(txs, 0) = 0
  <1>1. DOMAIN << >> = {} /\ 1..0 = {}
    OBVIOUS
  <1>2. QED
    BY <1>1, SumOfNone, Zenon DEF Fee, Diff, Eth, GasOf

LEMMA OneMoreFigure ==
  ASSUME NEW rs \in Seq(Result), NEW r \in Result
  PROVE  /\ Fee(rs) \in Int /\ Fee(Append(rs, r)) = Fee(rs) + r.gasFees
         /\ Diff(rs) \in Int /\ Diff(Append(rs, r)) = Diff(rs) + r.coinbaseDiff
         /\ Eth(rs) \in Int /\ Eth(Append(rs, r)) = Eth(rs) + r.ethSentToCoinbase
  <1> DEFINE n == Len(rs)
             more == Append(rs, r)
             fees == [i \in 1..(n+1) |-> more[i].gasFees]
             diffs == [i \in 1..(n+1) |-> more[i].coinbaseDiff]
             eths == [i \in 1..(n+1) |-> more[i].ethSentToCoinbase]
  <1>1. /\ n \in Nat /\ DOMAIN rs = 1..n /\ DOMAIN more = 1..(n+1)
        /\ \A i \in 1..n : more[i] = rs[i]
        /\ \A i \in 1..(n+1) : more[i] \in Result
        /\ more[n+1] = r /\ n + 1 \in 1..(n+1)
    OBVIOUS
  <1> HIDE DEF n, more
  <1>2. /\ fees \in [1..(n+1) -> Int]
        /\ diffs \in [1..(n+1) -> Int]
        /\ eths \in [1..(n+1) -> Int]
    BY <1>1 DEF Result
  <1>3. /\ fees[n+1] = r.gasFees
        /\ diffs[n+1] = r.coinbaseDiff
        /\ eths[n+1] = r.ethSentToCoinbase
    BY <1>1
  <1>4. \A i \in 1..n : i \in 1..(n+1)
    BY <1>1
  <1>5. /\ [i \in 1..n |-> fees[i]] = [i \in DOMAIN rs |-> rs[i].gasFees]
        /\ [i \in 1..n |-> diffs[i]] = [i \in DOMAIN rs |-> rs[i].coinbaseDiff]
        /\ [i \in 1..n |-> eths[i]] = [i \in DOMAIN rs |-> rs[i].ethSentToCoinbase]
    BY <1>1, <1>4
  <1>6. Fee(more) = Sum(fees) /\ Diff(more) = Sum(diffs) /\ Eth(more) = Sum(eths)
    BY <1>1 DEF Fee, Diff, Eth
  <1> HIDE DEF fees, diffs, eths
  <1>7. /\ Sum([i \in 1..n |-> fees[i]]) \in Int
        /\ Sum(fees) = Sum([i \in 1..n |-> fees[i]]) + fees[n+1]
    BY <1>1, <1>2, SumOfOneMore
  <1>8. /\ Sum([i \in 1..n |-> diffs[i]]) \in Int
        /\ Sum(diffs) = Sum([i \in 1..n |-> diffs[i]]) + diffs[n+1]
    BY <1>1, <1>2, SumOfOneMore
  <1>9. /\ Sum([i \in 1..n |-> eths[i]]) \in Int
        /\ Sum(eths) = Sum([i \in 1..n |-> eths[i]]) + eths[n+1]
    BY <1>1, <1>2, SumOfOneMore
  <1>10. /\ Fee(rs) = Sum([i \in 1..n |-> fees[i]])
         /\ Diff(rs) = Sum([i \in 1..n |-> diffs[i]])
         /\ Eth(rs) = Sum([i \in 1..n |-> eths[i]])
    BY <1>5 DEF Fee, Diff, Eth
  <1>11. QED
    BY <1>3, <1>6, <1>7, <1>8, <1>9, <1>10 DEF more

LEMMA OneMoreGas ==
  ASSUME NEW txs \in Seq(Transaction), NEW n \in Nat, n + 1 <= Len(txs)
  PROVE  GasOf(txs, n + 1) = GasOf(txs, n) + txs[n+1].gas
  <1> DEFINE values == [i \in 1..(n+1) |-> txs[i].gas]
  <1>1. \A i \in 1..(n+1) : txs[i] \in Transaction
    OBVIOUS
  <1>2. values \in [1..(n+1) -> Int]
    BY <1>1 DEF Transaction
  <1>3. [i \in 1..n |-> values[i]] = [i \in 1..n |-> txs[i].gas]
    OBVIOUS
  <1>4. values[n+1] = txs[n+1].gas
    OBVIOUS
  <1>5. GasOf(txs, n + 1) = Sum(values)
    BY DEF GasOf
  <1> HIDE DEF values
  <1>6. Sum(values) = Sum([i \in 1..n |-> values[i]]) + values[n+1]
    BY <1>2, SumOfOneMore
  <1>7. QED
    BY <1>3, <1>4, <1>5, <1>6 DEF GasOf

LEMMA SetTotalOK ==
  ASSUME TotalInv, SentInv', NEW c \in Calls, NEW q, Set(c, q),
         q = NoCall \/ TotalOK(q), store' \in [Slots -> MaybeSlot]
  PROVE  TotalInv'
  <1>1. call' = [x \in Calls |-> IF x = c THEN q ELSE call[x]]
    BY DEF TotalInv, SentInv, Set
  <1>2. ASSUME NEW x \in Calls PROVE call'[x] = NoCall \/ TotalOK(call'[x])
    BY <1>1 DEF TotalInv
  <1>3. \A x \in Calls : (call[x] = NoCall \/ TotalOK(call[x]))'
    BY <1>2 DEF TotalOK, FundsOK, CountOK, SumsOK, ReplyOK
  <1>4. QED
    BY <1>3 DEF TotalInv

(* An error or a panic leaves what was counted as it is. *)
LEMMA RefusedTotalOK ==
  ASSUME NEW q, DOMAIN q = Fields, TotalOK(q), NEW reply \in {Error, Crash}
  PROVE  TotalOK(Replied(q, reply))
  <1> DEFINE n == Replied(q, reply)
  <1>1. /\ n.pc = "done" /\ n.reply = reply
        /\ n.number = q.number /\ n.baseFee = q.baseFee
        /\ n.balance = q.balance /\ n.slots = q.slots
        /\ n.before = q.before /\ n.txs = q.txs /\ n.results = q.results
        /\ n.begun = q.begun /\ n.gasUsed = q.gasUsed
    BY DEF Replied, Fields, Started
  <1> HIDE DEF n
  <1>2. FundsOK(n) /\ CountOK(n)
    BY <1>1 DEF TotalOK, FundsOK, CountOK, Stages
  <1>3. SumsOK(n)
    BY <1>1 DEF TotalOK, SumsOK
  <1>4. ReplyOK(n)
    BY <1>1 DEF TotalOK, ReplyOK
  <1>5. QED
    BY <1>2, <1>3, <1>4 DEF TotalOK, n

LEMMA StartedTotalOK ==
  ASSUME NEW method, NEW txs \in Bundles, NEW number \in Numbers,
         NEW givenFee \in BaseFees, NEW coinbase \in Accounts
  PROVE  TotalOK(Started(method, txs, number, givenFee, coinbase))
  <1> DEFINE n == Started(method, txs, number, givenFee, coinbase)
  <1>1. /\ n.pc = "state" /\ n.reply = << >> /\ n.txs = txs
        /\ n.balance = Funds /\ n.slots = [k \in Slots |-> Nil]
        /\ n.before = 0 /\ n.results = << >> /\ n.begun = 0
        /\ n.gasUsed = 0 /\ n.gasFees = 0
    BY DEF Started
  <1> HIDE DEF n
  <1>2. FundsOK(n)
    BY <1>1, BundleAssumption DEF FundsOK, MaybeSlot
  <1>3. CountOK(n)
    <2>1. Len(n.txs) \in Nat
      BY <1>1, BundleAssumption
    <2>2. GasOf(n.txs, 0) = 0
      BY NoFigures, Zenon
    <2>3. QED
      BY <1>1, <2>1, <2>2 DEF CountOK, Stages
  <1>4. SumsOK(n)
    <2>1. Len(n.results) = 0
      BY <1>1
    <2>2. QED
      BY <1>1, <2>1, NoFigures DEF SumsOK
  <1>5. ReplyOK(n)
    BY <1>1 DEF ReplyOK
  <1>6. QED
    BY <1>2, <1>3, <1>4, <1>5 DEF TotalOK, n

LEMMA GetStateTotalOK ==
  ASSUME NEW q, SentOK(q), TotalOK(q), q.pc = "state"
  PROVE  LET fee == IF q.givenFee # Nil THEN q.givenFee
                    ELSE IF q.number >= London THEN NextBaseFee ELSE Nil
         IN  TotalOK([q EXCEPT !.pc = "loop", !.baseFee = fee,
                               !.before = q.balance[q.coinbase]])
  <1> DEFINE fee == IF q.givenFee # Nil THEN q.givenFee
                    ELSE IF q.number >= London THEN NextBaseFee ELSE Nil
             n == [q EXCEPT !.pc = "loop", !.baseFee = fee,
                            !.before = q.balance[q.coinbase]]
  <1>1. q.number >= London => fee # Nil
    BY BundleAssumption DEF Nil
  <1> HIDE DEF fee
  <1>2. /\ n.pc = "loop" /\ n.reply = q.reply /\ n.txs = q.txs
        /\ n.number = q.number /\ n.baseFee = fee /\ n.coinbase = q.coinbase
        /\ n.balance = q.balance /\ n.slots = q.slots
        /\ n.before = q.balance[q.coinbase]
        /\ n.results = q.results /\ n.begun = q.begun
        /\ n.gasUsed = q.gasUsed /\ n.gasFees = q.gasFees
    BY DEF SentOK, Fields, Started
  <1>3. q.results = << >> /\ q.balance[q.coinbase] \in Int
    BY DEF SentOK, PlaceOK, StateOK, HeaderOK
  <1> HIDE DEF n
  <1>4. FundsOK(n) /\ CountOK(n)
    BY <1>1, <1>2 DEF TotalOK, FundsOK, CountOK, Stages
  <1>5. SumsOK(n)
    BY <1>2, <1>3, NoFigures DEF TotalOK, SumsOK
  <1>6. ReplyOK(n)
    BY <1>2 DEF TotalOK, ReplyOK
  <1>7. QED
    BY <1>4, <1>5, <1>6 DEF TotalOK, n, fee

LEMMA CheckContextTotalOK ==
  ASSUME NEW q, SentOK(q), TotalOK(q), q.pc = "loop"
  PROVE  TotalOK([q EXCEPT !.pc = "apply", !.beforeTx = q.balance[q.coinbase]])
  <1> DEFINE n == [q EXCEPT !.pc = "apply", !.beforeTx = q.balance[q.coinbase]]
  <1>1. /\ n.pc = "apply" /\ n.reply = q.reply /\ n.txs = q.txs
        /\ n.number = q.number /\ n.baseFee = q.baseFee /\ n.coinbase = q.coinbase
        /\ n.balance = q.balance /\ n.slots = q.slots /\ n.before = q.before
        /\ n.results = q.results /\ n.begun = q.begun
        /\ n.gasUsed = q.gasUsed /\ n.gasFees = q.gasFees
    BY DEF SentOK, Fields, Started
  <1> HIDE DEF n
  <1>2. FundsOK(n) /\ CountOK(n)
    BY <1>1 DEF TotalOK, FundsOK, CountOK, Stages
  <1>3. SumsOK(n) /\ ReplyOK(n)
    BY <1>1 DEF TotalOK, SumsOK, ReplyOK
  <1>4. QED
    BY <1>2, <1>3 DEF TotalOK, n

(* The balance moves on, and beforeTx stays where the sum of the differences
   has got to. *)
LEMMA AppliedTotalOK ==
  ASSUME NEW q, SentOK(q), TotalOK(q), q.pc = "apply", Applicable(Tx(q), q),
         NEW n, n.pc \in {"root", "account"}, n.reply = q.reply,
         n.number = q.number, n.baseFee = q.baseFee,
         n.balance = BalancesAfter(Tx(q), q), n.before = q.before,
         n.beforeTx = q.beforeTx, n.txs = q.txs, n.results = q.results,
         n.begun = q.begun + 1, n.gasUsed = q.gasUsed + Tx(q).gas,
         n.gasFees = q.gasFees, n.slots \in [Slots -> MaybeSlot]
  PROVE  TotalOK(n)
  <1>1. /\ q.txs \in Seq(Transaction) /\ q.begun \in Nat /\ q.begun < Len(q.txs)
        /\ HeaderOK(q) /\ q.beforeTx = q.balance[q.coinbase]
    BY DEF SentOK, PlaceOK, FiguresOK
  <1>2. Tx(q) \in Transaction /\ Tx(q) = q.txs[q.begun + 1]
    BY <1>1 DEF Tx
  <1>3. /\ q.balance \in [Accounts -> Nat]
        /\ q.number >= London => q.baseFee # Nil
    BY DEF TotalOK, FundsOK
  <1>4. BalancesAfter(Tx(q), q) \in [Accounts -> Nat]
    BY <1>1, <1>2, <1>3, NobodyOwes
  <1>5. FundsOK(n)
    BY <1>3, <1>4 DEF FundsOK
  <1>6. CountOK(n)
    <2>1. GasOf(q.txs, q.begun + 1) = GasOf(q.txs, q.begun) + Tx(q).gas
      BY <1>1, <1>2, OneMoreGas
    <2>2. n.gasUsed = GasOf(n.txs, n.begun)
      BY <2>1 DEF TotalOK, CountOK
    <2>3. n.begun \in 0..Len(n.txs)
      BY <1>1
    <2>4. QED
      BY <2>2, <2>3 DEF CountOK, Stages
  <1>7. SumsOK(n)
    BY <1>1 DEF TotalOK, SumsOK
  <1>8. ReplyOK(n)
    BY DEF TotalOK, ReplyOK
  <1>9. QED
    BY <1>5, <1>6, <1>7, <1>8 DEF TotalOK

LEMMA ApplyTotalOK ==
  ASSUME TotalInv, SentInv', NEW c \in Calls, SentOK(call[c]), TotalOK(call[c]),
         Apply(c)
  PROVE  TotalInv'
  <1> DEFINE q == call[c]
             k == Tx(q).slot
             base == IF store[k] # Nil THEN store[k] ELSE ChainSlot
             old == IF q.slots[k] # Nil THEN q.slots[k] ELSE base
             n == [q EXCEPT !.pc = IF NeedsRoot(q) THEN "root" ELSE "account",
                            !.begun = @ + 1,
                            !.balance = BalancesAfter(Tx(q), q),
                            !.gasUsed = @ + Tx(q).gas]
             slots == [q.slots EXCEPT ![k] = IF Tx(q).reverts THEN old ELSE old + 1]
             called == [n EXCEPT
                            !.output = old,
                            !.slots[k] = IF Tx(q).reverts THEN old ELSE old + 1,
                            !.read[k] = IF q.slots[k] = Nil THEN base ELSE @]
             sent == [n EXCEPT !.output = Nil]
  <1>1. /\ \/ Set(c, sent) /\ store' = store
           \/ Set(c, called) /\ store' \in {store, [store EXCEPT ![k] = base]}
        /\ q.pc = "apply" /\ Applicable(Tx(q), q)
    BY DEF Apply
  <1>2. k \in Slots
    <2>1. q.txs \in Seq(Transaction) /\ q.begun \in Nat /\ q.begun < Len(q.txs)
      BY <1>1 DEF SentOK, PlaceOK
    <2>2. Tx(q) \in Transaction
      BY <2>1 DEF Tx
    <2>3. QED
      BY <2>2 DEF Transaction
  <1>3. base \in Nat /\ old \in Nat
    BY <1>2 DEF TotalInv, ChainSlot, TotalOK, FundsOK, MaybeSlot
  <1>4. /\ DOMAIN n = Fields /\ n.pc \in {"root", "account"}
        /\ n.reply = q.reply /\ n.number = q.number /\ n.baseFee = q.baseFee
        /\ n.balance = BalancesAfter(Tx(q), q) /\ n.before = q.before
        /\ n.beforeTx = q.beforeTx /\ n.txs = q.txs /\ n.results = q.results
        /\ n.begun = q.begun + 1 /\ n.gasUsed = q.gasUsed + Tx(q).gas
        /\ n.gasFees = q.gasFees /\ n.slots = q.slots
    BY DEF SentOK, Fields, Started
  <1> HIDE DEF n, base, old, k
  <1>5. slots \in [Slots -> MaybeSlot]
    BY <1>2, <1>3 DEF TotalOK, FundsOK, MaybeSlot
  <1>6. TotalOK(sent)
    <2>1. /\ sent.pc = n.pc /\ sent.reply = n.reply
          /\ sent.number = n.number /\ sent.baseFee = n.baseFee
          /\ sent.balance = n.balance /\ sent.before = n.before
          /\ sent.beforeTx = n.beforeTx /\ sent.txs = n.txs
          /\ sent.results = n.results /\ sent.begun = n.begun
          /\ sent.gasUsed = n.gasUsed /\ sent.gasFees = n.gasFees
          /\ sent.slots = n.slots
      BY <1>4 DEF Fields, Started
    <2>2. q.slots \in [Slots -> MaybeSlot]
      BY DEF TotalOK, FundsOK
    <2> HIDE DEF sent
    <2>3. QED
      BY <1>1, <1>4, <2>1, <2>2, AppliedTotalOK
  <1>7. TotalOK(called)
    <2>1. /\ called.pc = n.pc /\ called.reply = n.reply
          /\ called.number = n.number /\ called.baseFee = n.baseFee
          /\ called.balance = n.balance /\ called.before = n.before
          /\ called.beforeTx = n.beforeTx /\ called.txs = n.txs
          /\ called.results = n.results /\ called.begun = n.begun
          /\ called.gasUsed = n.gasUsed /\ called.gasFees = n.gasFees
          /\ called.slots = slots
      BY <1>4 DEF Fields, Started
    <2> HIDE DEF called, slots
    <2>2. QED
      BY <1>1, <1>4, <1>5, <2>1, AppliedTotalOK
  <1>8. store' \in [Slots -> MaybeSlot]
    <2> HIDE DEF called, sent
    <2>1. QED
      BY <1>1, <1>2, <1>3 DEF TotalInv, MaybeSlot
  <1> HIDE DEF called, sent
  <1>9. QED
    BY <1>1, <1>6, <1>7, <1>8, SetTotalOK

(* The result's figures are added to the sums, and the sum of the differences
   catches up with the balance. *)
LEMMA AccountTotalOK ==
  ASSUME NEW q, SentOK(q), TotalOK(q), q.pc = "account",
         NEW value \in {Nil, q.output}
  PROVE  LET tx == LastTx(q)
             diff == q.balance[q.coinbase] - q.beforeTx
             fees == FeesOf(tx, q)
             result == [gasUsed |-> tx.gas, coinbaseDiff |-> diff, gasFees |-> fees,
                        ethSentToCoinbase |-> diff - fees, value |-> value]
         IN  TotalOK([q EXCEPT !.pc = "loop", !.gasFees = q.gasFees + fees,
                               !.results = Append(@, result)])
  <1> DEFINE tx == LastTx(q)
             diff == q.balance[q.coinbase] - q.beforeTx
             fees == FeesOf(tx, q)
             result == [gasUsed |-> tx.gas, coinbaseDiff |-> diff, gasFees |-> fees,
                        ethSentToCoinbase |-> diff - fees, value |-> value]
             n == [q EXCEPT !.pc = "loop", !.gasFees = q.gasFees + fees,
                            !.results = Append(@, result)]
  <1>1. /\ q.txs \in Seq(Transaction) /\ q.begun \in 1..Len(q.txs)
        /\ q.results \in Seq(Result) /\ Len(q.results) = q.begun - 1
    BY DEF SentOK, PlaceOK
  <1>2. tx \in Transaction /\ tx = q.txs[q.begun]
    BY <1>1 DEF LastTx
  <1>3. fees \in Int
    BY <1>2, PriceType DEF FeesOf, SentOK, HeaderOK
  <1>4. /\ q.balance[q.coinbase] \in Int /\ q.beforeTx \in Int
        /\ tx.gas \in Int /\ value \in Int
    BY <1>2 DEF SentOK, StateOK, HeaderOK, Transaction, Nil
  <1>5. diff = q.balance[q.coinbase] - q.beforeTx /\ diff \in Int
    BY <1>4
  <1> HIDE DEF tx, diff, fees
  <1>6. /\ result \in Result /\ result.gasUsed = tx.gas
        /\ result.coinbaseDiff = diff /\ result.gasFees = fees
        /\ result.ethSentToCoinbase = diff - fees
    BY <1>3, <1>4, <1>5 DEF Result
  <1> HIDE DEF result
  <1>7. /\ n.pc = "loop" /\ n.reply = q.reply /\ n.txs = q.txs
        /\ n.number = q.number /\ n.baseFee = q.baseFee /\ n.coinbase = q.coinbase
        /\ n.balance = q.balance /\ n.slots = q.slots /\ n.before = q.before
        /\ n.results = Append(q.results, result) /\ n.begun = q.begun
        /\ n.gasUsed = q.gasUsed /\ n.gasFees = q.gasFees + fees
    BY DEF SentOK, Fields, Started
  <1> HIDE DEF n
  <1>8. FundsOK(n) /\ CountOK(n)
    BY <1>7 DEF TotalOK, FundsOK, CountOK, Stages
  <1>9. /\ Fee(q.results) \in Int /\ Fee(n.results) = Fee(q.results) + fees
        /\ Diff(q.results) \in Int /\ Diff(n.results) = Diff(q.results) + diff
        /\ Eth(q.results) \in Int /\ Eth(n.results) = Eth(q.results) + (diff - fees)
    BY <1>1, <1>6, <1>7, OneMoreFigure
  <1>10. SumsOK(n)
    <2>1. n.before \in Int /\ q.before \in Int
      BY <1>7 DEF TotalOK, SumsOK
    <2>2. ASSUME NEW i \in 1..Len(n.results)
          PROVE  n.results[i].gasUsed = n.txs[i].gas
      <3>1. CASE i = q.begun
        BY <1>1, <1>2, <1>6, <1>7, <3>1
      <3>2. CASE i # q.begun
        <4>1. i \in 1..Len(q.results) /\ n.results[i] = q.results[i]
          BY <1>1, <1>6, <1>7, <2>2, <3>2
        <4>2. QED
          BY <1>7, <4>1 DEF TotalOK, SumsOK
      <3>3. QED
        BY <3>1, <3>2
    <2>3. Eth(n.results) = Diff(n.results) - Fee(n.results)
      <3>1. Eth(q.results) = Diff(q.results) - Fee(q.results)
        BY DEF TotalOK, SumsOK
      <3>2. QED
        BY <1>3, <1>5, <1>9, <3>1
    <2>4. n.gasFees = Fee(n.results)
      BY <1>7, <1>9 DEF TotalOK, SumsOK
    <2>5. n.balance[n.coinbase] - n.before = Diff(n.results)
      <3>1. q.beforeTx - q.before = Diff(q.results)
        BY DEF TotalOK, SumsOK
      <3>2. QED
        BY <1>4, <1>5, <1>7, <1>9, <2>1, <3>1
    <2>6. QED
      BY <1>7, <2>1, <2>2, <2>3, <2>4, <2>5 DEF SumsOK
  <1>11. ReplyOK(n)
    BY <1>7 DEF TotalOK, ReplyOK
  <1>12. QED
    BY <1>8, <1>10, <1>11 DEF TotalOK, n, result, tx, diff, fees

(* The bundle's result. *)
LEMMA FinishTotalOK ==
  ASSUME NEW q, SentOK(q), TotalOK(q), q.pc = "loop", q.begun = Len(q.txs)
  PROVE  LET diff == q.balance[q.coinbase] - q.before
         IN  TotalOK(Replied(q,
                << "results",
                   [totalGasUsed |-> q.gasUsed, coinbaseDiff |-> diff,
                    gasFees |-> q.gasFees,
                    ethSentToCoinbase |-> diff - q.gasFees] >>))
  <1> DEFINE diff == q.balance[q.coinbase] - q.before
             reply == << "results",
                         [totalGasUsed |-> q.gasUsed, coinbaseDiff |-> diff,
                          gasFees |-> q.gasFees,
                          ethSentToCoinbase |-> diff - q.gasFees] >>
             n == Replied(q, reply)
  <1>1. /\ Len(q.results) = Len(q.txs)
        /\ q.gasUsed = GasOf(q.txs, Len(q.txs))
        /\ diff = Diff(q.results) /\ q.gasFees = Fee(q.results)
        /\ Eth(q.results) = diff - q.gasFees
    BY DEF SentOK, PlaceOK, TotalOK, SumsOK, CountOK
  <1> HIDE DEF diff
  <1>2. reply = << "results",
                [totalGasUsed |-> GasOf(q.txs, Len(q.txs)),
                 coinbaseDiff |-> Diff(q.results),
                 gasFees |-> Fee(q.results),
                 ethSentToCoinbase |-> Eth(q.results)] >>
    BY <1>1, Zenon
  <1> HIDE DEF reply
  <1>3. /\ n.pc = "done" /\ n.reply = reply
        /\ n.number = q.number /\ n.baseFee = q.baseFee
        /\ n.balance = q.balance /\ n.slots = q.slots
        /\ n.before = q.before /\ n.txs = q.txs /\ n.results = q.results
        /\ n.begun = q.begun /\ n.gasUsed = q.gasUsed
    BY DEF Replied, SentOK, Fields, Started
  <1> HIDE DEF n
  <1>4. FundsOK(n) /\ CountOK(n)
    BY <1>3 DEF TotalOK, FundsOK, CountOK, Stages
  <1>5. SumsOK(n)
    BY <1>3 DEF TotalOK, SumsOK
  <1>6. ReplyOK(n)
    BY <1>1, <1>2, <1>3, Zenon DEF ReplyOK
  <1>7. QED
    BY <1>4, <1>5, <1>6 DEF TotalOK, n, reply, diff

LEMMA StepTotalOK ==
  ASSUME TotalInv, NEW c \in Calls, Step(c)
  PROVE  TotalInv'
  <1> DEFINE q == call[c]
  <1>0. SentInv' /\ store \in [Slots -> MaybeSlot]
    BY StepSentOK DEF TotalInv
  <1>1. CASE Arrive(c)
    <2>1. PICK method \in {"CallBundle", "EstimateGasBundle"}, txs \in Bundles,
               number \in Numbers, givenFee \in BaseFees, coinbase \in Accounts :
            LET new == Started(method, txs, number, givenFee, coinbase)
            IN  Set(c, IF txs = << >> \/ number = 0 THEN Replied(new, Error)
                       ELSE new)
      BY <1>1 DEF Arrive
    <2> DEFINE new == Started(method, txs, number, givenFee, coinbase)
    <2>2. TotalOK(new) /\ DOMAIN new = Fields
      BY StartedTotalOK DEF Started, Fields
    <2>3. TotalOK(Replied(new, Error))
      <3> HIDE DEF new
      <3>1. QED
        BY <2>2, RefusedTotalOK
    <2>4. UNCHANGED store
      BY <1>1 DEF Arrive
    <2> HIDE DEF new
    <2>5. QED
      BY <1>0, <2>1, <2>2, <2>3, <2>4, SetTotalOK DEF new
  <1>2. CASE Respond(c)
    BY <1>0, <1>2, SetTotalOK DEF Respond
  <1>3. CASE q.pc # "idle" /\ ~Arrive(c) /\ ~Respond(c)
    <2>0. SentOK(q) /\ TotalOK(q) /\ DOMAIN q = Fields
      BY <1>3 DEF NoCall, TotalInv, SentInv, SentOK
    <2>1. CASE Expire(c)
      <3> DEFINE n == [q EXCEPT !.expired = TRUE, !.expiredAt = q.begun]
      <3>1. /\ n.pc = q.pc /\ n.reply = q.reply /\ n.txs = q.txs
            /\ n.number = q.number /\ n.baseFee = q.baseFee
            /\ n.coinbase = q.coinbase /\ n.beforeTx = q.beforeTx
            /\ n.balance = q.balance /\ n.slots = q.slots /\ n.before = q.before
            /\ n.results = q.results /\ n.begun = q.begun
            /\ n.gasUsed = q.gasUsed /\ n.gasFees = q.gasFees
        BY <2>0 DEF Fields, Started
      <3>2. Set(c, n) /\ UNCHANGED store
        BY <2>1 DEF Expire
      <3> HIDE DEF n
      <3>3. FundsOK(n) /\ CountOK(n)
        BY <2>0, <3>1 DEF TotalOK, FundsOK, CountOK
      <3>4. SumsOK(n) /\ ReplyOK(n)
        BY <2>0, <3>1 DEF TotalOK, SumsOK, ReplyOK
      <3>5. QED
        BY <1>0, <3>2, <3>3, <3>4, SetTotalOK DEF TotalOK
    <2>2. CASE GetState(c)
      <3>1. q.pc = "state" /\ UNCHANGED store
        BY <2>2 DEF GetState
      <3>2. PICK n : Set(c, n) /\ TotalOK(n)
        BY <2>0, <2>2, <3>1, GetStateTotalOK DEF GetState
      <3>3. QED
        BY <1>0, <3>1, <3>2, SetTotalOK
    <2>3. CASE CheckContext(c)
      <3>1. /\ q.pc = "loop" /\ UNCHANGED store
            /\ \/ Set(c, Replied(q, Error))
               \/ Set(c, [q EXCEPT !.pc = "apply", !.beforeTx = q.balance[q.coinbase]])
        BY <2>3 DEF CheckContext
      <3>2. TotalOK([q EXCEPT !.pc = "apply", !.beforeTx = q.balance[q.coinbase]])
        BY <2>0, <3>1, CheckContextTotalOK
      <3>3. TotalOK(Replied(q, Error))
        BY <2>0, RefusedTotalOK
      <3>4. QED
        BY <1>0, <3>1, <3>2, <3>3, SetTotalOK
    <2>4. CASE Apply(c)
      BY <1>0, <2>0, <2>4, ApplyTotalOK
    <2>5. CASE IntermediateRoot(c)
      <3>1. q.slots \in [Slots -> MaybeSlot]
        BY <2>0 DEF TotalOK, FundsOK
      <3>2. store' \in [Slots -> MaybeSlot]
        BY <1>0, <2>5, <3>1 DEF IntermediateRoot
      <3>3. Set(c, Replied(q, Crash))
        BY <2>5 DEF IntermediateRoot
      <3>4. TotalOK(Replied(q, Crash))
        BY <2>0, RefusedTotalOK
      <3>5. QED
        BY <1>0, <3>2, <3>3, <3>4, SetTotalOK
    <2>6. CASE Account(c)
      <3>1. q.pc = "account" /\ UNCHANGED store
        BY <2>6 DEF Account
      <3>2. PICK n : Set(c, n) /\ TotalOK(n)
        <4> DEFINE tx == LastTx(q)
                   diff == q.balance[q.coinbase] - q.beforeTx
                   fees == FeesOf(tx, q)
                   result(value) ==
                        [gasUsed |-> tx.gas, coinbaseDiff |-> diff, gasFees |-> fees,
                         ethSentToCoinbase |-> diff - fees, value |-> value]
                   n(value) == [q EXCEPT !.pc = "loop", !.gasFees = q.gasFees + fees,
                                         !.results = Append(@, result(value))]
        <4>1. Set(c, n(IF tx.reverts THEN Nil ELSE q.output))
          BY <2>6 DEF Account
        <4>2. \A value \in {Nil, q.output} : TotalOK(n(value))
          BY <2>0, <3>1, AccountTotalOK
        <4>3. QED
          BY <4>1, <4>2
      <3>3. QED
        BY <1>0, <3>1, <3>2, SetTotalOK
    <2>7. CASE Finish(c)
      <3>1. q.pc = "loop" /\ q.begun = Len(q.txs) /\ UNCHANGED store
        BY <2>7 DEF Finish
      <3>2. PICK n : Set(c, n) /\ TotalOK(n)
        BY <2>0, <2>7, <3>1, FinishTotalOK DEF Finish
      <3>3. QED
        BY <1>0, <3>1, <3>2, SetTotalOK
    <2>8. CASE \/ StateFails(c) \/ CopyState(c) \/ ApplyFails(c)
               \/ HeaderFails(c) \/ TipFails(c)
      <3>1. \E reply \in {Error, Crash} : Set(c, Replied(q, reply)) /\ UNCHANGED store
        BY <2>8 DEF StateFails, CopyState, ApplyFails, HeaderFails, TipFails
      <3>2. QED
        BY <1>0, <2>0, <3>1, RefusedTotalOK, SetTotalOK
    <2>9. QED
      BY <1>3, <2>1, <2>2, <2>3, <2>4, <2>5, <2>6, <2>7, <2>8 DEF Step
  <1>4. CASE q.pc = "idle" /\ ~Arrive(c)
    BY <1>4 DEF Step, Expire, StateFails, GetState, CopyState, CheckContext,
       ApplyFails, HeaderFails, Apply, IntermediateRoot, TipFails, Account,
       Finish, Respond
  <1>5. QED
    BY <1>1, <1>2, <1>3, <1>4

LEMMA TotalsInvariant == Spec => []TotalInv
  <1>1. Init => TotalInv
    <2> SUFFICES ASSUME Init PROVE TotalInv
      OBVIOUS
    <2>1. SentInv
      BY DEF Init, SentInv, ChainSlot, Nil
    <2>2. QED
      BY <2>1 DEF Init, TotalInv, MaybeSlot, ChainSlot
  <1>2. TotalInv /\ [Next]_vars => TotalInv'
    <2>1. ASSUME TotalInv, UNCHANGED vars PROVE TotalInv'
      BY <2>1 DEF TotalInv, SentInv, vars
    <2>2. QED
      BY <2>1, StepTotalOK DEF Next
  <1>3. QED
    BY <1>1, <1>2, PTL DEF Spec

(* TypeOK: whatever transactions are sent, no account of a simulation owes
   anything, and gas is counted for the transactions applied. *)
THEOREM BundleTyped == Spec => []TypeOK
  <1>1. TotalInv => TypeOK
    <2> SUFFICES ASSUME TotalInv PROVE TypeOK
      OBVIOUS
    <2>1. store \in [Slots -> Nat \cup {Nil}]
      BY DEF TotalInv, MaybeSlot
    <2>2. ASSUME NEW c \in Calls PROVE call[c].pc \in Stages
      BY DEF TotalInv, TotalOK, CountOK, NoCall, Stages
    <2>3. ASSUME NEW c \in Calls, Working(c)
          PROVE  /\ call[c].balance \in [Accounts -> Nat]
                 /\ call[c].begun \in 0 .. Len(call[c].txs)
                 /\ call[c].gasUsed =
                        Sum([i \in 1 .. call[c].begun |-> call[c].txs[i].gas])
                 /\ call[c].pc \in {"loop", "apply"} =>
                        Len(call[c].results) = call[c].begun
      <3>1. TotalOK(call[c]) /\ SentOK(call[c])
        BY <2>3 DEF TotalInv, SentInv, Working
      <3>2. call[c].gasUsed = Sum([i \in 1 .. call[c].begun |-> call[c].txs[i].gas])
        BY <3>1, Zenon DEF TotalOK, CountOK, GasOf
      <3>3. QED
        BY <3>1, <3>2 DEF TotalOK, FundsOK, CountOK, SentOK, PlaceOK
    <2>4. QED
      BY <2>1, <2>2, <2>3 DEF TypeOK
  <1>2. QED
    BY <1>1, TotalsInvariant, PTL

(* TotalsAddUp: for any bundle, the figures for the whole, taken from balances
   before the first and after the last transaction, are the sums of the figures
   for its transactions. *)
THEOREM TotalsAreSums == Spec => []TotalsAddUp
  <1>1. TotalInv => TotalsAddUp
    <2> SUFFICES ASSUME TotalInv, NEW c \in Calls, Succeeded(c)
                 PROVE  LET q == call[c]
                            total == q.reply[2]
                        IN  /\ Len(q.results) = Len(q.txs)
                            /\ total.coinbaseDiff = Diff(q.results)
                            /\ total.gasFees = Fee(q.results)
                            /\ total.totalGasUsed =
                                Sum([i \in DOMAIN q.results |-> q.results[i].gasUsed])
                            /\ total.ethSentToCoinbase = Eth(q.results)
      BY Zenon DEF TotalsAddUp, SumOf, Diff, Fee, Eth
    <2> DEFINE q == call[c]
               total == [totalGasUsed |-> GasOf(q.txs, Len(q.txs)),
                         coinbaseDiff |-> Diff(q.results),
                         gasFees |-> Fee(q.results),
                         ethSentToCoinbase |-> Eth(q.results)]
    <2>1. SentOK(q) /\ TotalOK(q)
      BY DEF TotalInv, SentInv, Succeeded, Working
    <2>2. q.reply # << >> /\ q.reply[1] = "results"
      BY DEF Succeeded
    <2>3. q.reply \notin {Error, Crash}
      BY <2>2 DEF Error, Crash
    <2>4. Len(q.results) = Len(q.txs) /\ q.reply = << "results", total >>
      BY <2>1, <2>2, <2>3, Zenon DEF TotalOK, ReplyOK
    <2>5. q.reply[2] = total
      BY <2>4
    <2>6. GasOf(q.txs, Len(q.txs)) =
            Sum([i \in DOMAIN q.results |-> q.results[i].gasUsed])
      <3>1. DOMAIN q.results = 1..Len(q.txs)
        BY <2>1, <2>4 DEF SentOK, PlaceOK
      <3>2. \A i \in 1..Len(q.txs) : q.results[i].gasUsed = q.txs[i].gas
        BY <2>1, <2>4 DEF TotalOK, SumsOK
      <3>3. [i \in DOMAIN q.results |-> q.results[i].gasUsed]
                = [i \in 1..Len(q.txs) |-> q.txs[i].gas]
        BY <3>1, <3>2
      <3>4. QED
        BY <3>3, Zenon DEF GasOf
    <2>7. QED
      BY <2>4, <2>5, <2>6
  <1>2. QED
    BY <1>1, TotalsInvariant, PTL
=============================================================================
