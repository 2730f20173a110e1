---------------------------- MODULE TransactionArgs --------------------------
(***************************************************************************)
(* The two readings of a caller's transaction arguments                    *)
(* (bundleapi/transaction_args.go): ToMessage makes a message that is      *)
(* executed without a signature, toTransaction a transaction, which core   *)
(* turns into a message when it is executed.  Which of the many optional   *)
(* fields are given decides about both.                                    *)
(*                                                                         *)
(* A field that is not given is Nil; a payload or a list is a number, 0    *)
(* the empty one.  Sender and chain are left out: ToMessage takes the      *)
(* sender from the arguments, a transaction has the one who signs it.      *)
(***************************************************************************)
EXTENDS Integers

CONSTANTS
    Gases,     \* amounts of gas a caller may give
    Amounts,   \* fees a caller may give
    BaseFees,  \* base fees of blocks
    GasCaps,   \* globalGasCap; EstimateGasBundle passes RPCGasCap(), 0
    MaxGas     \* math.MaxUint64 / 2

ASSUME ArgsAssumption ==
    /\ Gases \subseteq Nat
    /\ Amounts \subseteq Nat
    /\ BaseFees \subseteq Nat
    /\ GasCaps \subseteq Nat
    /\ MaxGas \in Nat

Nil == -1
Given(v, default) == IF v = Nil THEN default ELSE v
Opt(S) == S \cup {Nil}

Lists == {0, 1}     \* payloads, access lists, lists of blob hashes

Args == [to : Opt({0}), nonce : Opt({1}),
         gas : Opt(Gases), value : Opt({1}),
         gasPrice : Opt(Amounts), maxFee : Opt(Amounts), maxTip : Opt(Amounts),
         data : Opt({1}), input : Opt({2}), accessList : Opt(Lists),
         blobFeeCap : Opt({1}), blobHashes : Opt(Lists)]

VARIABLES
    args,     \* the arguments in hand, at most one
    cap,      \* globalGasCap
    baseFee,  \* of the block, Nil before London
    message,  \* what ToMessage returns, none for an error
    tx        \* what toTransaction returns, none if it panics

vars == <<args, cap, baseFee, message, tx>>

Init ==
    /\ args = {}
    /\ cap = 0
    /\ baseFee = Nil
    /\ message = {}
    /\ tx = {}

-----------------------------------------------------------------------------
(* ToMessage *)

(* The calldata is the input if there is one. *)
Data(a) == Given(a.input, Given(a.data, 0))

BothStyles(a) == a.gasPrice # Nil /\ (a.maxFee # Nil \/ a.maxTip # Nil)

Smaller(x, y) == IF x < y THEN x ELSE y

Legacy(price) == [price |-> price, feeCap |-> price, tipCap |-> price]

(* Mutant: what is paid is not limited by the fee cap. *)
UncappedDynamic(feeCap, tipCap, base) ==
    [price |-> tipCap + base, feeCap |-> feeCap, tipCap |-> tipCap]

Dynamic(feeCap, tipCap, base) ==
    [price |-> Smaller(tipCap + base, feeCap),
     feeCap |-> feeCap, tipCap |-> tipCap]

(* Without a base fee only gasPrice counts.  With one, gasPrice is both caps,
   and the fields of EIP-1559 count if it is not given; the price is not
   backfilled if both are zero. *)
Fees(a, base) ==
    IF base = Nil \/ a.gasPrice # Nil
    THEN Legacy(Given(a.gasPrice, 0))
    ELSE IF Given(a.maxFee, 0) > 0 \/ Given(a.maxTip, 0) > 0
    THEN Dynamic(Given(a.maxFee, 0), Given(a.maxTip, 0), base)
    ELSE Legacy(0)

(* Mutant: the cap is the default and nothing more. *)
UncappedGas(a, c) == Given(a.gas, IF c = 0 THEN MaxGas ELSE c)

(* The gas given, else the cap, else a default; never more than the cap. *)
Gas(a, c) ==
    LET gas == Given(a.gas, IF c = 0 THEN MaxGas ELSE c)
    IN  IF c # 0 THEN Smaller(c, gas) ELSE gas

BlobFeeCap(a) ==
    Given(a.blobFeeCap, IF a.blobHashes # Nil THEN 0 ELSE Nil)

(* The nonce is not passed on, and core is told not to check the account. *)
Message(a, c, base) ==
    [to |-> a.to, nonce |-> 0, skipAccountChecks |-> TRUE,
     value |-> Given(a.value, 0), gas |-> Gas(a, c),
     fees |-> Fees(a, base), data |-> Data(a),
     accessList |-> Given(a.accessList, 0),
     blobFeeCap |-> BlobFeeCap(a), blobHashes |-> a.blobHashes]

ToMessage(a, c, base) ==
    IF BothStyles(a) THEN {} ELSE {Message(a, c, base)}

-----------------------------------------------------------------------------
(* toTransaction *)

IsEIP4844(a) == a.blobHashes # Nil \/ a.blobFeeCap # Nil

(* Mutant: the fee cap is looked at before the blob hashes. *)
TypeDynamicFirst(a) ==
    IF a.maxFee # Nil THEN "dynamic"
    ELSE IF a.blobHashes # Nil THEN "blob" ELSE "legacy"

Type(a) ==
    CASE a.blobHashes # Nil                      -> "blob"
      [] a.blobHashes = Nil /\ a.maxFee # Nil    -> "dynamic"
      [] a.blobHashes = Nil /\ a.maxFee = Nil    -> "legacy"

(* Nonce and gas are dereferenced for every type, the receiver for a blob
   transaction. *)
Panics(a) ==
    \/ a.nonce = Nil
    \/ a.gas = Nil
    \/ Type(a) = "blob" /\ a.to = Nil

(* types.NewTx copies a missing amount as 0.  A legacy transaction with an
   access list is one of type AccessListTx. *)
ToTransaction(a) ==
    IF Panics(a) THEN {}
    ELSE {[type |-> Type(a), to |-> a.to, nonce |-> a.nonce, gas |-> a.gas,
          value |-> Given(a.value, 0), data |-> Data(a),
          accessList |-> Given(a.accessList, 0),
          feeCap |-> Given(IF Type(a) = "legacy" THEN a.gasPrice ELSE a.maxFee,
                           0),
          tipCap |-> Given(IF Type(a) = "legacy" THEN a.gasPrice ELSE a.maxTip,
                           0),
          blobFeeCap |-> IF Type(a) = "blob" THEN Given(a.blobFeeCap, 0) ELSE Nil,
          blobHashes |-> IF Type(a) = "blob" THEN a.blobHashes ELSE Nil]}

(* core.TransactionToMessage, of a transaction its sender has signed: the price
   is the fee cap, or what the base fee makes of the caps; the account's nonce
   and code will be checked. *)
MessageOf(t, base) ==
    [to |-> t.to, nonce |-> t.nonce, skipAccountChecks |-> FALSE,
     value |-> t.value, gas |-> t.gas,
     fees |-> IF base = Nil
              THEN [price |-> t.feeCap, feeCap |-> t.feeCap, tipCap |-> t.tipCap]
              ELSE [price |-> Smaller(t.tipCap + base, t.feeCap),
                    feeCap |-> t.feeCap, tipCap |-> t.tipCap],
     data |-> t.data, accessList |-> t.accessList,
     blobFeeCap |-> t.blobFeeCap, blobHashes |-> t.blobHashes]

-----------------------------------------------------------------------------
(* A caller gives arguments, for a block with or without a base fee... *)
Receive ==
    /\ args = {}
    /\ cap' \in GasCaps
    /\ baseFee' \in Opt(BaseFees)
    /\ \E a \in Args :
        /\ args' = {a}
        /\ message' = ToMessage(a, cap', baseFee')
        /\ tx' = ToTransaction(a)

(* ...and is done with them. *)
Done ==
    /\ args # {}
    /\ args' = {} /\ message' = {} /\ tx' = {}
    /\ cap' = 0 /\ baseFee' = Nil

Next == Receive \/ Done

Spec == Init /\ [][Next]_vars

-----------------------------------------------------------------------------
(* Properties *)

FeesType == [price : Nat, feeCap : Nat, tipCap : Nat]

(* Arguments come with the message and the transaction made of them, and a
   message always has gas, fees and a value. *)
TypeOK ==
    /\ args \subseteq Args
    /\ cap \in GasCaps \cup {0}
    /\ baseFee \in Opt(BaseFees)
    /\ \A m \in message :
        /\ m.gas \in Nat
        /\ cap # 0 => m.gas <= cap
        /\ m.fees \in FeesType
        /\ m.value \in Nat

(* Arguments in the state in which "setDefaults has been called" leaves them,
   so far as toTransaction tells: nonce and gas are given, fees in one style, a
   tip only beside a fee cap, blob fields only in a blob transaction with a
   receiver and a fee cap. *)
Complete(a) ==
    /\ a.nonce # Nil /\ a.gas # Nil
    /\ ~BothStyles(a)
    /\ a.maxTip # Nil => a.maxFee # Nil
    /\ IsEIP4844(a) => a.blobHashes # Nil /\ a.maxFee # Nil /\ a.to # Nil

(* What is executed for a message. *)
Execution(m) ==
    [to |-> m.to, value |-> m.value, fees |-> m.fees, data |-> m.data,
     accessList |-> m.accessList,
     blobFeeCap |-> m.blobFeeCap, blobHashes |-> m.blobHashes]

(* The two readings of complete arguments ask for the same execution, for any
   block with a base fee, and for any block if the fee is a gas price: the
   message of ToMessage has receiver, value, fees, calldata, access list and
   blob fields of the message core makes of the transaction.  The two messages
   differ where they are meant to: that of ToMessage has its gas cut to the cap,
   skips the checks of the account, and has no nonce to be checked. *)
SameMessage ==
    \A a \in args : Complete(a) /\ (baseFee # Nil \/ a.maxFee = Nil) =>
        \E t \in tx, m \in message :
            LET signed == MessageOf(t, baseFee)
            IN  /\ Execution(m) = Execution(signed)
                /\ m.gas = IF cap # 0 THEN Smaller(cap, signed.gas) ELSE signed.gas
                /\ m.skipAccountChecks /\ m.nonce = 0
                /\ ~signed.skipAccountChecks /\ signed.nonce = a.nonce

(* Whatever is given, a message pays no more than its fee cap, and pays the
   block's base fee if its cap allows it. *)
PricePaid ==
    \A m \in message :
        /\ m.fees.price <= m.fees.feeCap
        /\ baseFee # Nil /\ m.fees.feeCap >= baseFee =>
                m.fees.price >= baseFee
=============================================================================
