------------------------ MODULE TransactionArgsProofs ------------------------
(***************************************************************************)
(* Machine-checked proofs about transaction arguments, for any amounts of  *)
(* gas and fees, any caps and any base fees.                               *)
(***************************************************************************)
EXTENDS TransactionArgs, TLAPS

(* What is returned belongs to the arguments in hand. *)
Results ==
    /\ args = {} => message = {} /\ tx = {}
    /\ \A a \in args : /\ args = {a}
                       /\ a \in Args
                       /\ message = ToMessage(a, cap, baseFee)
                       /\ tx = ToTransaction(a)

IInv == /\ cap \in GasCaps \cup {0}
        /\ baseFee \in Opt(BaseFees)
        /\ Results

LEMMA InitInv == Init => IInv
  BY DEF Init, IInv, Results, Opt

LEMMA NextInv == IInv /\ [Next]_vars => IInv'
  <1> SUFFICES ASSUME IInv, [Next]_vars PROVE IInv'
    OBVIOUS
  <1>1. CASE Receive
    BY <1>1 DEF Receive, IInv, Results
  <1>2. CASE Done
    BY <1>2 DEF Done, IInv, Results, Opt
  <1>3. CASE UNCHANGED vars
    BY <1>3 DEF vars, IInv, Results
  <1>4. QED
    BY <1>1, <1>2, <1>3 DEF Next

LEMMA Invariance == Spec => []IInv
  BY InitInv, NextInv, PTL DEF Spec

-----------------------------------------------------------------------------

(* A field that is given, or its default, is an amount. *)
LEMMA GivenNat ==
  ASSUME NEW S, S \subseteq Nat, NEW v \in S \cup {Nil}, NEW default \in Nat
  PROVE  Given(v, default) \in Nat
  BY DEF Given

(* Fields that are given hold amounts. *)
LEMMA FieldTypes ==
  ASSUME NEW a \in Args
  PROVE  /\ Given(a.gasPrice, 0) \in Nat
         /\ Given(a.maxFee, 0) \in Nat
         /\ Given(a.maxTip, 0) \in Nat
         /\ a.gas # Nil => a.gas \in Nat
         /\ Given(a.value, 0) \in Nat
  <1>1. /\ a.gasPrice \in Amounts \cup {Nil}
        /\ a.maxFee \in Amounts \cup {Nil}
        /\ a.maxTip \in Amounts \cup {Nil}
        /\ a.gas \in Gases \cup {Nil}
        /\ a.value \in {1, Nil}
    BY DEF Args, Opt
  <1>2. a.gas # Nil => a.gas \in Nat
    BY <1>1, ArgsAssumption
  <1>3. {1} \subseteq Nat /\ a.value \in {1} \cup {Nil}
    BY <1>1
  <1>4. QED
    BY <1>1, <1>2, <1>3, ArgsAssumption, GivenNat

(* Fees are amounts; what is paid is within the fee cap and covers the base
   fee if the cap does. *)
LEMMA FeesPaid ==
  ASSUME NEW a \in Args, NEW base \in Opt(BaseFees)
  PROVE  LET f == Fees(a, base)
         IN  /\ f \in FeesType
             /\ f.price <= f.feeCap
             /\ base # Nil /\ f.feeCap >= base => f.price >= base
  <1>1. base # Nil => base \in Nat
    BY ArgsAssumption DEF Opt
  <1>2. CASE base = Nil \/ a.gasPrice # Nil
    BY <1>1, <1>2, FieldTypes DEF Fees, Legacy, FeesType
  <1>3. CASE ~(base = Nil \/ a.gasPrice # Nil)
    <2>1. CASE Given(a.maxFee, 0) > 0 \/ Given(a.maxTip, 0) > 0
      BY <1>1, <1>3, <2>1, FieldTypes
      DEF Fees, Dynamic, Smaller, FeesType
    <2>2. CASE ~(Given(a.maxFee, 0) > 0 \/ Given(a.maxTip, 0) > 0)
      BY <1>1, <1>3, <2>2, FieldTypes DEF Fees, Legacy, FeesType
    <2>3. QED
      BY <2>1, <2>2
  <1>4. QED
    BY <1>2, <1>3

(* A message has gas, within the cap if there is one. *)
LEMMA GasCapped ==
  ASSUME NEW a \in Args, NEW c \in GasCaps \cup {0}
  PROVE  /\ Gas(a, c) \in Nat
         /\ c # 0 => Gas(a, c) <= c
  <1>1. c \in Nat
    BY ArgsAssumption
  <1>2. Given(a.gas, IF c = 0 THEN MaxGas ELSE c) \in Nat
    BY <1>1, FieldTypes, ArgsAssumption DEF Given
  <1>3. QED
    BY <1>1, <1>2 DEF Gas, Smaller

(* Every message that ToMessage returns has its gas within the cap and fees
   and a value that are amounts. *)
THEOREM TypeCorrect == Spec => []TypeOK
  <1>1. ASSUME IInv PROVE TypeOK
    <2>1. ASSUME NEW m \in message
          PROVE  /\ m.gas \in Nat
                 /\ cap # 0 => m.gas <= cap
                 /\ m.fees \in FeesType
                 /\ m.value \in Nat
      <3>1. PICK a \in args : TRUE
        BY <1>1, <2>1 DEF IInv, Results
      <3>2. a \in Args /\ m = Message(a, cap, baseFee)
        BY <1>1, <2>1, <3>1 DEF IInv, Results, ToMessage
      <3>3. QED
        BY <1>1, <3>2, GasCapped, FeesPaid, FieldTypes DEF IInv, Message
    <2>2. QED
      BY <1>1, <2>1 DEF IInv, Results, TypeOK
  <1>2. QED
    BY <1>1, Invariance, PTL

(* Whatever fields are given, a message pays no more than its fee cap, and the
   block's base fee if its cap allows it. *)
THEOREM PriceBounded == Spec => []PricePaid
  <1>1. ASSUME IInv PROVE PricePaid
    <2>1. SUFFICES ASSUME NEW m \in message
                   PROVE  /\ m.fees.price <= m.fees.feeCap
                          /\ baseFee # Nil /\ m.fees.feeCap >= baseFee =>
                                m.fees.price >= baseFee
      BY DEF PricePaid
    <2>2. PICK a \in args : TRUE
      BY <1>1, <2>1 DEF IInv, Results
    <2>3. a \in Args /\ m = Message(a, cap, baseFee)
      BY <1>1, <2>1, <2>2 DEF IInv, Results, ToMessage
    <2>4. m.fees = Fees(a, baseFee)
      BY <2>3 DEF Message
    <2>5. QED
      BY <1>1, <2>3, <2>4, FeesPaid DEF IInv
  <1>2. QED
    BY <1>1, Invariance, PTL

-----------------------------------------------------------------------------

(* The fees core takes from the transaction are those of the message. *)
LEMMA SameFees ==
  ASSUME NEW a \in Args, NEW base \in Opt(BaseFees), Complete(a),
         base # Nil \/ a.maxFee = Nil,
         NEW t \in ToTransaction(a)
  PROVE  MessageOf(t, base).fees = Fees(a, base)
  <1>1. base # Nil => base \in Nat
    BY ArgsAssumption DEF Opt
  <1>2. CASE a.maxFee = Nil
    <2>1. a.maxTip = Nil /\ a.blobHashes = Nil /\ Type(a) = "legacy"
      BY <1>2 DEF Complete, IsEIP4844, Type
    <2>2. /\ t.feeCap = Given(a.gasPrice, 0)
          /\ t.tipCap = Given(a.gasPrice, 0)
      BY <2>1 DEF ToTransaction
    <2>3. Fees(a, base) = Legacy(Given(a.gasPrice, 0))
      BY <1>2, <2>1 DEF Fees, Given, Nil
    <2>4. QED
      BY <1>1, <2>2, <2>3, FieldTypes DEF MessageOf, Legacy, Smaller
  <1>3. CASE a.maxFee # Nil
    <2>1. a.gasPrice = Nil /\ base # Nil /\ Type(a) # "legacy"
      BY <1>3 DEF Complete, BothStyles, Type
    <2>2. /\ t.feeCap = Given(a.maxFee, 0)
          /\ t.tipCap = Given(a.maxTip, 0)
      BY <2>1 DEF ToTransaction
    <2>3. CASE Given(a.maxFee, 0) > 0 \/ Given(a.maxTip, 0) > 0
      BY <1>1, <2>1, <2>2, <2>3 DEF MessageOf, Fees, Dynamic
    <2>4. CASE ~(Given(a.maxFee, 0) > 0 \/ Given(a.maxTip, 0) > 0)
      BY <1>1, <2>1, <2>2, <2>4, FieldTypes
      DEF MessageOf, Fees, Legacy, Smaller
    <2>5. QED
      BY <2>3, <2>4
  <1>4. QED
    BY <1>2, <1>3

(* The message made of complete arguments asks for the execution that core's
   message of their transaction asks for. *)
LEMMA Agreement ==
  ASSUME NEW a \in Args, NEW base \in Opt(BaseFees), NEW c \in GasCaps \cup {0},
         Complete(a), base # Nil \/ a.maxFee = Nil
  PROVE  \E t \in ToTransaction(a), m \in ToMessage(a, c, base) :
            LET signed == MessageOf(t, base)
            IN  /\ Execution(m) = Execution(signed)
                /\ m.gas = IF c # 0 THEN Smaller(c, signed.gas) ELSE signed.gas
                /\ m.skipAccountChecks /\ m.nonce = 0
                /\ ~signed.skipAccountChecks /\ signed.nonce = a.nonce
  <1>1. ~Panics(a)
    BY DEF Complete, Panics, Type, IsEIP4844
  <1>2. PICK t \in ToTransaction(a) : TRUE
    BY <1>1 DEF ToTransaction
  <1> DEFINE m == Message(a, c, base)
             signed == MessageOf(t, base)
  <1>3. /\ t.to = a.to
        /\ t.nonce = a.nonce
        /\ t.gas = a.gas
        /\ t.value = Given(a.value, 0)
        /\ t.data = Data(a)
        /\ t.accessList = Given(a.accessList, 0)
        /\ t.blobFeeCap = BlobFeeCap(a)
        /\ t.blobHashes = a.blobHashes
    BY <1>1, <1>2
    DEF ToTransaction, Complete, IsEIP4844, Type, BlobFeeCap, Given
  <1>4. /\ m.to = t.to /\ m.value = t.value /\ m.data = t.data
        /\ m.fees = Fees(a, base) /\ m.accessList = t.accessList
        /\ m.blobFeeCap = t.blobFeeCap /\ m.blobHashes = t.blobHashes
        /\ m.gas = Gas(a, c) /\ m.nonce = 0 /\ m.skipAccountChecks
    BY <1>3 DEF Message
  <1>5. /\ signed.to = t.to /\ signed.value = t.value /\ signed.data = t.data
        /\ signed.accessList = t.accessList
        /\ signed.blobFeeCap = t.blobFeeCap /\ signed.blobHashes = t.blobHashes
        /\ signed.gas = t.gas /\ signed.nonce = t.nonce
        /\ ~signed.skipAccountChecks
    BY DEF MessageOf
  <1>6. signed.fees = Fees(a, base)
    BY <1>2, SameFees
  <1>7. Gas(a, c) = IF c # 0 THEN Smaller(c, t.gas) ELSE t.gas
    BY <1>3 DEF Gas, Given, Complete
  <1>8. m \in ToMessage(a, c, base)
    BY DEF ToMessage, Complete
  <1> HIDE DEF m, signed
  <1>9. Execution(m) = Execution(signed)
    BY <1>4, <1>5, <1>6 DEF Execution
  <1>10. /\ m.gas = IF c # 0 THEN Smaller(c, signed.gas) ELSE signed.gas
         /\ m.skipAccountChecks /\ m.nonce = 0
         /\ ~signed.skipAccountChecks /\ signed.nonce = a.nonce
    BY <1>3, <1>4, <1>5, <1>7
  <1>11. QED
    BY <1>2, <1>8, <1>9, <1>10 DEF signed

(* For all amounts, caps and base fees, the two readings of complete arguments
   differ in nonce, account checks and gas above the cap only. *)
THEOREM ReadingsAgree == Spec => []SameMessage
  <1>1. IInv => SameMessage
    BY Agreement DEF IInv, Results, SameMessage
  <1>2. QED
    BY <1>1, Invariance, PTL
=============================================================================
