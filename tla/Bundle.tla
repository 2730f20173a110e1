-------------------------------- MODULE Bundle --------------------------------
(***************************************************************************)
(* The bundle API (bundleapi/api.go): concurrent calls of CallBundle and   *)
(* EstimateGasBundle, all on the head's state, that is over the one store  *)
(* that StateAtBlock gives them (module LiveDb has what can happen to that *)
(* store otherwise: here the chain stands still).                          *)
(*                                                                         *)
(* A transaction transfers value, or calls the contract, which adds one to *)
(* a storage slot and returns its old value.  What core.ApplyMessage makes *)
(* of it is external, in as much detail as the accounting of fees needs.   *)
(***************************************************************************)
EXTENDS Integers, SequencesExt

CONSTANTS
    Calls,        \* calls of the RPC server under way
    Accounts,     \* senders, receivers and coinbases
    Slots,        \* the contract's storage slots
    Contract,     \* the contract, as receiver of a transaction
    Funds,        \* balances at the head block
    Bundles,      \* what callers send: sequences of transactions...
    Numbers,      \* ...block numbers, negative for "latest" and "pending"...
    BaseFees,     \* ...and base fees, Nil if not given
    Byzantium,    \* first block of the Byzantium fork
    London,       \* first block of the London fork
    MaxStored,    \* bound: slot values the store is given by simulations
    NextBaseFee   \* eip1559.CalcBaseFee of the head block

Nil == -1   \* not given, not read

(* A transaction, with its tip and fee cap (equal in a legacy one) and the gas
   it uses and is limited to.  slot is the one a call of the contract adds to. *)
Transaction ==
    [from : Accounts, to : Accounts \cup {Contract}, value : Nat, tip : Nat,
     cap : Nat, gas : Nat \ {0}, slot : Slots, reverts : BOOLEAN]

ASSUME BundleAssumption ==
    /\ Contract \notin Accounts
    /\ Funds \in [Accounts -> Nat]
    /\ Bundles \subseteq Seq(Transaction)
    /\ Numbers \subseteq Int
    /\ BaseFees \subseteq Nat \cup {Nil}
    /\ Byzantium \in Nat /\ London \in Nat /\ Byzantium <= London
    /\ MaxStored \in Nat
    /\ NextBaseFee \in Nat

VARIABLES
    store,   \* the shared key-value store: the contract's slots, Nil if absent
    call     \* the calls

vars == <<store, call>>

ChainSlot == 1   \* every slot of the contract at the head block

(* The variables of a call: arguments and header (number, baseFee, coinbase),
   StateDB (balance, slots, and read, what it took from the database),
   accumulators, results; expired is the context's, begun counts the
   transactions applied, and expiredAt (history) is begun at the deadline. *)
NoCall == [pc |-> "idle"]

Started(method, txs, number, givenFee, coinbase) ==
    [pc |-> "state", method |-> method, txs |-> txs, number |-> number,
     givenFee |-> givenFee, coinbase |-> coinbase, baseFee |-> Nil,
     balance |-> Funds, slots |-> [k \in Slots |-> Nil],
     read |-> [k \in Slots |-> Nil],
     before |-> 0, beforeTx |-> 0, gasUsed |-> 0, gasFees |-> 0,
     results |-> << >>, output |-> Nil,
     begun |-> 0, expired |-> FALSE, expiredAt |-> 0, reply |-> << >>]

Init ==
    /\ store \in [Slots -> {Nil, ChainSlot}]
    /\ call = [c \in Calls |-> NoCall]

-----------------------------------------------------------------------------
(* core: fees and effects of a transaction *)

MinOf(x, y) == IF x < y THEN x ELSE y

(* core.TransactionToMessage: what a unit of gas costs the sender. *)
GasPrice(tx, baseFee) ==
    IF baseFee = Nil THEN tx.cap ELSE MinOf(tx.tip + baseFee, tx.cap)

(* Transaction.EffectiveGasTip *)
EffectiveGasTip(tx, baseFee) ==
    IF baseFee = Nil THEN tx.tip ELSE MinOf(tx.tip, tx.cap - baseFee)

(* What a unit of gas brings the coinbase: the fork decides, not the header. *)
PaidTip(tx, q) ==
    IF q.number >= London THEN EffectiveGasTip(tx, q.baseFee)
    ELSE GasPrice(tx, q.baseFee)

(* The sender can pay, and the fork knows the transaction's type and finds its
   fee cap sufficient. *)
Applicable(tx, q) ==
    /\ q.balance[tx.from] >= tx.gas * tx.cap + tx.value
    /\ IF q.number >= London THEN tx.cap >= q.baseFee ELSE tx.tip = tx.cap

Moved(balance, from, to, amount) ==
    LET paid == [balance EXCEPT ![from] = @ - amount]
    IN  [paid EXCEPT ![to] = @ + amount]

(* Balances after the transaction: value moves unless it reverts, gas is paid,
   the coinbase gets its part and the rest is burned.  Value sent to the
   contract is left out. *)
BalancesAfter(tx, q) ==
    LET sent == IF tx.reverts \/ tx.to = Contract THEN q.balance
                ELSE Moved(q.balance, tx.from, tx.to, tx.value)
        paid == [sent EXCEPT ![tx.from] = @ - tx.gas * GasPrice(tx, q.baseFee)]
    IN  [paid EXCEPT ![q.coinbase] = @ + tx.gas * PaidTip(tx, q)]

-----------------------------------------------------------------------------
(* The steps both methods begin with *)

Set(c, q) == call' = [call EXCEPT ![c] = q]

Replied(q, reply) == [q EXCEPT !.pc = "done", !.reply = reply]
Error == << "error" >>
Crash == << "crash" >>     \* a panic, which the RPC server turns into an error

(* A call arrives.  Without transactions or block number it is refused. *)
Arrive(c) ==
    /\ call[c] = NoCall
    /\ \E method \in {"CallBundle", "EstimateGasBundle"} :
       \E txs \in Bundles, number \in Numbers :
       \E givenFee \in BaseFees, coinbase \in Accounts :
            LET q == Started(method, txs, number, givenFee, coinbase)
            IN  Set(c, IF txs = << >> \/ number = 0 THEN Replied(q, Error) ELSE q)
    /\ UNCHANGED store

(* The timeout of the call's context passes, or its caller goes away. *)
Expire(c) ==
    /\ call[c].pc \in {"state", "loop", "apply", "root", "account"}
    /\ ~call[c].expired
    /\ Set(c, [call[c] EXCEPT !.expired = TRUE, !.expiredAt = call[c].begun])
    /\ UNCHANGED store

(* A transaction cannot be decoded, or the backend has no such block. *)
StateFails(c) ==
    /\ call[c].pc = "state"
    /\ Set(c, Replied(call[c], Error))
    /\ UNCHANGED store

(* CallBundle gets its StateDB and makes the header.  The base fee is the one
   given, or what follows from the parent, or absent before London. *)
GetState(c) ==
    /\ call[c].pc = "state"
    /\ call[c].method = "CallBundle"
    /\ LET q == call[c]
       IN  Set(c, [q EXCEPT
                !.pc = "loop",
                !.baseFee = IF q.givenFee # Nil THEN q.givenFee
                            ELSE IF q.number >= London THEN NextBaseFee
                            ELSE Nil,
                !.before = q.balance[q.coinbase]])
    /\ UNCHANGED store

(* EstimateGasBundle gets its StateDB and copies it: StateDB.Copy copies the
   trie, db.CopyTrie panics, and what follows is never reached. *)
CopyState(c) ==
    /\ call[c].pc = "state"
    /\ call[c].method = "EstimateGasBundle"
    /\ Set(c, Replied(call[c], Crash))
    /\ UNCHANGED store

-----------------------------------------------------------------------------
(* CallBundle's loop over the transactions *)

Tx(q) == q.txs[q.begun + 1]

(* Mutant: the context is looked at before the loop only. *)
CheckContextOnce(c) ==
    /\ call[c].pc = "loop"
    /\ LET q == call[c]
       IN  /\ q.begun < Len(q.txs)
           /\ Set(c, IF q.expired /\ q.begun = 0 THEN Replied(q, Error)
                     ELSE [q EXCEPT !.pc = "apply",
                                    !.beforeTx = q.balance[q.coinbase]])
    /\ UNCHANGED store

(* Mutant: the coinbase's balance is taken once. *)
CheckContextBeforeOnce(c) ==
    /\ call[c].pc = "loop"
    /\ LET q == call[c]
       IN  /\ q.begun < Len(q.txs)
           /\ Set(c, IF q.expired THEN Replied(q, Error)
                     ELSE [q EXCEPT !.pc = "apply", !.beforeTx = q.before])
    /\ UNCHANGED store

CheckContext(c) ==
    /\ call[c].pc = "loop"
    /\ LET q == call[c]
       IN  /\ q.begun < Len(q.txs)
           /\ Set(c, IF q.expired THEN Replied(q, Error)
                     ELSE [q EXCEPT !.pc = "apply",
                                    !.beforeTx = q.balance[q.coinbase]])
    /\ UNCHANGED store

(* A transaction that cannot be applied ends the call: for want of funds, a
   fee cap or gas; a wrong nonce, too little intrinsic gas and a bad signature
   end it in the same way. *)
ApplyFails(c) ==
    /\ call[c].pc = "apply"
    /\ ~Applicable(Tx(call[c]), call[c])
    /\ Set(c, Replied(call[c], Error))
    /\ UNCHANGED store

(* The transaction asks for the hash of an earlier block, and GetHeader panics
   because the node does not give the header. *)
HeaderFails(c) ==
    /\ call[c].pc = "apply"
    /\ Applicable(Tx(call[c]), call[c])
    /\ Tx(call[c]).to = Contract
    /\ Set(c, Replied(call[c], Crash))
    /\ UNCHANGED store

(* Mutant: the intermediate root is always computed. *)
NeedsRootAlways(q) == TRUE

(* Before Byzantium a receipt has the state root after the transaction. *)
NeedsRoot(q) == q.number < Byzantium

(* ApplyTransactionWithResult: the StateDB reads the slot through the store,
   unless it knows it, and takes the transaction's effects. *)
Apply(c) ==
    LET q    == call[c]
        tx   == Tx(q)
        k    == tx.slot
        base == IF store[k] # Nil THEN store[k] ELSE ChainSlot
        old  == IF q.slots[k] # Nil THEN q.slots[k] ELSE base
        next == [q EXCEPT
                    !.pc = IF NeedsRoot(q) THEN "root" ELSE "account",
                    !.begun = @ + 1,
                    !.balance = BalancesAfter(tx, q),
                    !.gasUsed = @ + tx.gas]
    IN  /\ q.pc = "apply"
        /\ Applicable(tx, q)
        /\ \/ /\ tx.to # Contract
              /\ Set(c, [next EXCEPT !.output = Nil])
              /\ UNCHANGED store
           \/ /\ tx.to = Contract
              /\ Set(c, [next EXCEPT
                    !.output = old,
                    !.slots[k] = IF tx.reverts THEN old ELSE old + 1,
                    !.read[k] = IF q.slots[k] = Nil THEN base ELSE @])
              /\ store' = IF q.slots[k] = Nil THEN [store EXCEPT ![k] = base]
                          ELSE store

(* StateDB.IntermediateRoot hands the slots that changed to db.UpdateStorage,
   whose error it only notes, and then panics in db.Hash or db.UpdateAccount. *)
IntermediateRoot(c) ==
    /\ call[c].pc = "root"
    /\ LET q == call[c]
           changed == { k \in Slots : q.slots[k] # q.read[k] }
       IN  \/ /\ \A k \in changed : q.slots[k] <= MaxStored
              /\ store' = [k \in Slots |-> IF k \in changed THEN q.slots[k]
                                           ELSE store[k]]
           \/ UNCHANGED store
    /\ Set(c, Replied(call[c], Crash))

LastTx(q) == q.txs[q.begun]

(* Mutant: a transaction without an effective tip is passed over. *)
TipFailsSkips(c) ==
    /\ call[c].pc = "account"
    /\ call[c].baseFee # Nil
    /\ LastTx(call[c]).cap < call[c].baseFee
    /\ Set(c, [call[c] EXCEPT !.pc = "loop"])
    /\ UNCHANGED store

(* EffectiveGasTip returns an error although the transaction was applied. *)
TipFails(c) ==
    /\ call[c].pc = "account"
    /\ call[c].baseFee # Nil
    /\ LastTx(call[c]).cap < call[c].baseFee
    /\ Set(c, Replied(call[c], Error))
    /\ UNCHANGED store

(* Mutant: fees are counted at the price the sender pays. *)
FeesOfPrice(tx, q) == tx.gas * GasPrice(tx, q.baseFee)

FeesOf(tx, q) == tx.gas * EffectiveGasTip(tx, q.baseFee)

(* The transaction's result. *)
Account(c) ==
    LET q    == call[c]
        tx   == LastTx(q)
        diff == q.balance[q.coinbase] - q.beforeTx
        fees == FeesOf(tx, q)
    IN  /\ q.pc = "account"
        /\ q.baseFee = Nil \/ tx.cap >= q.baseFee
        /\ Set(c, [q EXCEPT
                !.pc = "loop",
                !.gasFees = @ + fees,
                !.results = Append(@,
                    [gasUsed |-> tx.gas, coinbaseDiff |-> diff, gasFees |-> fees,
                     ethSentToCoinbase |-> diff - fees,
                     value |-> IF tx.reverts THEN Nil ELSE q.output])])
        /\ UNCHANGED store

(* After the last transaction, the whole bundle's result. *)
Finish(c) ==
    LET q    == call[c]
        diff == q.balance[q.coinbase] - q.before
    IN  /\ q.pc = "loop"
        /\ q.begun = Len(q.txs)
        /\ Set(c, Replied(q,
                << "results",
                   [totalGasUsed |-> q.gasUsed, coinbaseDiff |-> diff,
                    gasFees |-> q.gasFees,
                    ethSentToCoinbase |-> diff - q.gasFees] >>))
        /\ UNCHANGED store

(* The reply is sent. *)
Respond(c) ==
    /\ call[c].pc = "done"
    /\ Set(c, NoCall)
    /\ UNCHANGED store

-----------------------------------------------------------------------------
Step(c) ==
    \/ Arrive(c) \/ Expire(c) \/ StateFails(c) \/ GetState(c) \/ CopyState(c)
    \/ CheckContext(c) \/ ApplyFails(c) \/ HeaderFails(c) \/ Apply(c)
    \/ IntermediateRoot(c) \/ TipFails(c) \/ Account(c) \/ Finish(c) \/ Respond(c)

Next == \E c \in Calls : Step(c)

Spec == Init /\ [][Next]_vars

-----------------------------------------------------------------------------
(* Properties *)

Working(c) == call[c] # NoCall
Succeeded(c) == Working(c) /\ call[c].reply # << >> /\ call[c].reply[1] = "results"
Sum(values) == FoldLeft(LAMBDA x, y : x + y, 0, values)
SumOf(q, Field(_)) == Sum([i \in DOMAIN q.results |-> Field(q.results[i])])

Stages == {"idle", "state", "loop", "apply", "root", "account", "done"}

(* The store holds slots or nothing; no sender spends more than it has; gas is
   counted for the transactions applied, and each of them has its result
   before the next one is looked at. *)
TypeOK ==
    /\ store \in [Slots -> Nat \cup {Nil}]
    /\ \A c \in Calls :
        /\ call[c].pc \in Stages
        /\ Working(c) =>
            /\ call[c].balance \in [Accounts -> Nat]
            /\ call[c].begun \in 0 .. Len(call[c].txs)
            /\ call[c].gasUsed =
                    Sum([i \in 1 .. call[c].begun |-> call[c].txs[i].gas])
            /\ call[c].pc \in {"loop", "apply"} =>
                    Len(call[c].results) = call[c].begun

(* The figures CallBundle returns for the bundle are the sums of those it
   returns for its transactions, though the former come from balances before
   the first and after the last and the latter from balances in between; and
   there is a result for every transaction. *)
TotalsAddUp ==
    \A c \in Calls : Succeeded(c) =>
        LET q == call[c]
            total == q.reply[2]
        IN  /\ Len(q.results) = Len(q.txs)
            /\ total.coinbaseDiff = SumOf(q, LAMBDA r : r.coinbaseDiff)
            /\ total.gasFees = SumOf(q, LAMBDA r : r.gasFees)
            /\ total.totalGasUsed = SumOf(q, LAMBDA r : r.gasUsed)
            /\ total.ethSentToCoinbase = SumOf(q, LAMBDA r : r.ethSentToCoinbase)

(* ethSentToCoinbase is what a transaction's value transfer brings the
   coinbase, less what the coinbase spends on it as its sender; unless a base
   fee is given for a block before London, where the coinbase is paid the
   whole gas price and the fees are counted without the base fee. *)
EthSentExact ==
    \A c \in Calls : Working(c) =>
        LET q == call[c]
        IN  q.number >= London \/ q.givenFee = Nil =>
            \A i \in DOMAIN q.results :
                LET tx == q.txs[i]
                    moved == IF tx.reverts \/ tx.to = Contract THEN 0 ELSE tx.value
                    came == IF tx.to = q.coinbase THEN moved ELSE 0
                    went == IF tx.from = q.coinbase
                            THEN moved + tx.gas * GasPrice(tx, q.baseFee) ELSE 0
                IN  q.results[i].ethSentToCoinbase = came - went

(* The deadline is looked at between transactions only, so that one more may
   be applied once it has passed; but not two. *)
DeadlineHonoured ==
    \A c \in Calls :
        Working(c) /\ call[c].expired => call[c].begun <= call[c].expiredAt + 1

(* A bundle is simulated "with the state of another (or the same) block"
   (CallBundle's comment): what a StateDB takes from the store is the state of
   the block, never what another call's transactions made of it. *)
ReadsBlockState ==
    \A c \in Calls : Working(c) =>
        \A k \in Slots : call[c].read[k] \in {Nil, ChainSlot}
=============================================================================
