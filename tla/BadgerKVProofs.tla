--------------------------- MODULE BadgerKVProofs ----------------------------
(***************************************************************************)
(* For any accounts, slots, operations and number of goroutines: BadgerKV  *)
(* implements AtomicKV, its entries are such as decodeAccount returns, and *)
(* only fills make it forget.                                              *)
(*                                                                         *)
(* What badger's optimistic transactions do to the store is what atomic    *)
(* operations would.  The argument is that a key no other transaction has  *)
(* committed since a transaction was opened still has the entry of its     *)
(* snapshot, so that a commit which passes the conflict check computes     *)
(* from current entries, and that UpdateAccount computes from none.        *)
(***************************************************************************)
EXTENDS BadgerKV, AccountProofs, TLAPS

(* Operations a transaction can carry. *)
Carried == UNION { Surviving(op) : op \in Ops }

(* Shape of the transactions. *)
TxnShape ==
    /\ txn = [c \in Clients |-> [op    |-> txn[c].op,
                                 snap  |-> txn[c].snap,
                                 stale |-> txn[c].stale]]
    /\ \A c \in Clients : txn[c].op \in Carried \cup {Idle}

(* A key nobody has committed since still has its snapshot's entry. *)
SnapshotValid ==
    \A c \in Open : \A a \in Addrs :
        a \notin txn[c].stale => txn[c].snap[a] = store[a]

IInv == TxnShape /\ SnapshotValid

-----------------------------------------------------------------------------

(* What badger refuses of a block changes neither the kind of an operation
   nor the keys it reads, and a key it sets it has read, unless the operation
   is UpdateAccount. *)
LEMMA CarriedOps ==
  ASSUME NEW op \in Carried
  PROVE  /\ op # Idle
         /\ op.kind \in {"UpdateAccount", "UpdateStorage",
                         "UpdateContractCode", "ProcessState"}
         /\ op.kind # "UpdateAccount" => Writes(op) \subseteq Reads(op)
  <1>1. PICK o \in Ops : op \in Surviving(o)
    BY DEF Carried
  <1>2. o \in Operation /\ op # Idle
    BY <1>1, OpsAssumption
  <1>3. CASE op = o
    BY <1>2, <1>3 DEF Operation, Writes, Reads
  <1>4. CASE op # o
    <2>1. PICK kept : o.kind = "ProcessState" /\ op = [o EXCEPT !.patches = kept]
      BY <1>1, <1>4 DEF Surviving
    <2>2. op.kind = "ProcessState"
      BY <1>2, <2>1 DEF Operation
    <2>3. QED
      BY <1>2, <2>2 DEF Writes, Reads
  <1>5. QED
    BY <1>3, <1>4

(* A commit that passes the conflict check writes what the operation makes of
   the current entries. *)
LEMMA CommitIsCurrent ==
  ASSUME IInv, NEW c \in Open, ~Conflict(c)
  PROVE  Written(txn[c].op, store, txn[c].snap)
            = Written(txn[c].op, store, store)
  <1> DEFINE op == txn[c].op
  <1>1. op \in Carried /\ c \in Clients
    BY DEF IInv, TxnShape, Open
  <1>2. ASSUME NEW a \in Addrs, a \in Writes(op)
        PROVE  NewEntry(op, a, txn[c].snap[a]) = NewEntry(op, a, store[a])
    <2>1. CASE op.kind = "UpdateAccount"
      BY <2>1 DEF NewEntry, Overwritten
    <2>2. CASE op.kind # "UpdateAccount"
      <3>1. a \in Reads(op)
        BY <1>1, <1>2, <2>2, CarriedOps
      <3>2. a \notin txn[c].stale
        BY <1>2, <3>1 DEF Conflict
      <3>3. txn[c].snap[a] = store[a]
        BY <3>2 DEF IInv, SnapshotValid
      <3>4. QED
        BY <3>3
    <2>3. QED
      BY <2>1, <2>2
  <1>3. QED
    BY <1>2 DEF Written

-----------------------------------------------------------------------------

(* Initially no transaction is open. *)
LEMMA InitInv == Init => IInv
  BY DEF Init, IInv, TxnShape, SnapshotValid, Open, NoTransaction, Transaction

(* Every step keeps the snapshots of the open transactions valid. *)
LEMMA NextInv == IInv /\ [Next]_vars => IInv'
  <1> SUFFICES ASSUME IInv, [Next]_vars PROVE IInv'
    OBVIOUS
  <1>1. ASSUME NEW c \in Clients, Begin(c) PROVE IInv'
    <2>1. PICK s \in Carried : txn' = [txn EXCEPT ![c] = Transaction(s, store)]
      BY <1>1 DEF Begin, Carried
    <2>2. store' = store
      BY <1>1 DEF Begin
    <2>3. TxnShape'
      BY <2>1 DEF IInv, TxnShape, Transaction
    <2>4. SnapshotValid'
      <3>1. ASSUME NEW d \in Open', NEW a \in Addrs, a \notin txn'[d].stale
            PROVE  txn'[d].snap[a] = store[a]
        <4>1. CASE d = c
          BY <2>1, <4>1 DEF IInv, TxnShape, Transaction
        <4>2. CASE d # c
          <5>1. txn'[d] = txn[d] /\ d \in Open
            BY <2>1, <4>2 DEF Open, IInv, TxnShape
          <5>2. QED
            BY <3>1, <5>1 DEF IInv, SnapshotValid
        <4>3. QED
          BY <4>1, <4>2
      <3>2. QED
        BY <2>2, <3>1 DEF SnapshotValid
    <2>5. QED
      BY <2>3, <2>4 DEF IInv
  <1>2. ASSUME NEW c \in Clients, Discard(c) \/ Refuse(c) PROVE IInv'
    <2>1. txn' = [txn EXCEPT ![c] = NoTransaction] /\ store' = store
      BY <1>2 DEF Discard, Refuse
    <2>2. TxnShape'
      BY <2>1 DEF IInv, TxnShape, NoTransaction, Transaction
    <2>3. \A d \in Open' : d \in Open /\ txn'[d] = txn[d]
      BY <2>1 DEF IInv, TxnShape, Open, NoTransaction, Transaction
    <2>4. SnapshotValid'
      BY <2>1, <2>3 DEF IInv, SnapshotValid
    <2>5. QED
      BY <2>2, <2>4 DEF IInv
  <1>3. ASSUME NEW c \in Clients, Commit(c) PROVE IInv'
    <2> DEFINE W == Writes(txn[c].op)
    <2>1. ASSUME NEW d \in Clients
          PROVE  IF d \in Open \ {c}
                 THEN /\ txn'[d].op = txn[d].op
                      /\ txn'[d].snap = txn[d].snap
                      /\ txn'[d].stale = txn[d].stale \cup W
                      /\ txn'[d] = [op    |-> txn'[d].op,
                                    snap  |-> txn'[d].snap,
                                    stale |-> txn'[d].stale]
                 ELSE txn'[d] = NoTransaction
      <3>1. txn[d] = [op    |-> txn[d].op,
                      snap  |-> txn[d].snap,
                      stale |-> txn[d].stale]
        BY DEF IInv, TxnShape
      <3>2. txn'[d] = IF d \in Open \ {c}
                      THEN [txn[d] EXCEPT !.stale = txn[d].stale \cup W]
                      ELSE NoTransaction
        BY <1>3 DEF Commit
      <3> HIDE DEF W
      <3>3. [txn[d] EXCEPT !.stale = txn[d].stale \cup W]
              = [op    |-> txn[d].op,
                 snap  |-> txn[d].snap,
                 stale |-> txn[d].stale \cup W]
        BY <3>1
      <3>4. QED
        BY <3>2, <3>3
    <2>2. TxnShape'
      <3>1. txn' = [d \in Clients |-> txn'[d]]
        BY <1>3 DEF Commit
      <3>2. ASSUME NEW d \in Clients
            PROVE  /\ txn'[d] = [op    |-> txn'[d].op,
                                 snap  |-> txn'[d].snap,
                                 stale |-> txn'[d].stale]
                   /\ txn'[d].op \in Carried \cup {Idle}
        BY <2>1 DEF IInv, TxnShape, NoTransaction, Transaction
      <3>3. QED
        BY <3>1, <3>2 DEF TxnShape, Carried
    <2>3. ASSUME NEW d \in Open'
          PROVE  /\ d \in Open
                 /\ txn'[d].snap = txn[d].snap
                 /\ txn'[d].stale = txn[d].stale \cup W
      <3> HIDE DEF W
      <3>1. NoTransaction.op = Idle
        BY DEF NoTransaction, Transaction
      <3>2. d \in Clients /\ txn'[d].op # Idle
        BY DEF Open
      <3>3. d \in Open \ {c}
        BY <2>1, <3>1, <3>2
      <3>4. QED
        BY <2>1, <3>2, <3>3
    <2>4. \A a \in Addrs : a \notin Writes(txn[c].op) => store'[a] = store[a]
      BY <1>3 DEF Commit, Written
    <2>5. SnapshotValid'
      BY <2>3, <2>4 DEF IInv, SnapshotValid
    <2>6. QED
      BY <2>2, <2>5 DEF IInv
  <1>4. CASE UNCHANGED vars
    BY <1>4 DEF vars, IInv, TxnShape, SnapshotValid, Open
  <1>5. QED
    BY <1>1, <1>2, <1>3, <1>4 DEF Next

-----------------------------------------------------------------------------

(* Closing client c's transaction frees it in the abstract store. *)
LEMMA Freed ==
  ASSUME IInv, NEW c \in Open,
         \A d \in Clients : txn'[d].op = IF d = c THEN Idle ELSE txn[d].op
  PROVE  [d \in Clients |-> txn'[d].op]
            = [[d \in Clients |-> txn[d].op] EXCEPT ![c] = Idle]
  BY DEF Open

(* Every step of the transactions is a step of an atomic store or none. *)
LEMMA NextRefines == IInv /\ [Next]_vars => [Atomic!Next]_(Atomic!vars)
  <1> SUFFICES ASSUME IInv, [Next]_vars PROVE [Atomic!Next]_(Atomic!vars)
    OBVIOUS
  <1> DEFINE pending == [c \in Clients |-> txn[c].op]
  <1>1. ASSUME NEW c \in Clients, Begin(c) PROVE Atomic!Start(c)
    <2>1. PICK op \in Ops : \E s \in Surviving(op) :
            txn' = [txn EXCEPT ![c] = Transaction(s, store)]
      BY <1>1 DEF Begin
    <2> PICK s \in Surviving(op) : txn' = [txn EXCEPT ![c] = Transaction(s, store)]
      BY <2>1
    <2>2. pending' = [pending EXCEPT ![c] = s]
      BY <2>1 DEF IInv, TxnShape, Transaction
    <2>3. pending[c] = Idle
      BY <1>1 DEF Begin, Open
    <2>4. QED
      BY <1>1, <2>2, <2>3 DEF Begin, Atomic!Start
  <1>2. ASSUME NEW c \in Clients, Discard(c) \/ Refuse(c) PROVE Atomic!Drop(c)
    <2>1. c \in Open /\ txn[c].op \in Carried
      BY <1>2 DEF Discard, Refuse, IInv, TxnShape, Open
    <2>2. txn[c].op.kind # "UpdateAccount"
      BY <1>2 DEF Discard, Refuse, GivesUp, Conflict, Reads
    <2>3. pending' = [pending EXCEPT ![c] = Idle]
      <3>1. \A d \in Clients : txn'[d].op = IF d = c THEN Idle ELSE txn[d].op
        BY <1>2 DEF Discard, Refuse, IInv, TxnShape, NoTransaction, Transaction
      <3>2. QED
        BY <2>1, <3>1, Freed
    <2>4. QED
      BY <1>2, <2>1, <2>2, <2>3 DEF Atomic!Drop, Discard, Refuse, Open
  <1>3. ASSUME NEW c \in Clients, Commit(c) PROVE Atomic!Apply(c)
    <2>1. c \in Open
      BY <1>3 DEF Commit
    <2>2. store' = Written(txn[c].op, store, store)
      BY <1>3, CommitIsCurrent DEF Commit
    <2>3. pending' = [pending EXCEPT ![c] = Idle]
      <3>1. \A d \in Clients : txn'[d].op = IF d = c THEN Idle ELSE txn[d].op
        BY <1>3 DEF Commit, IInv, TxnShape, Open, NoTransaction, Transaction
      <3>2. QED
        BY <2>1, <3>1, Freed
    <2>4. pending[c] = txn[c].op
      OBVIOUS
    <2>5. QED
      BY <2>1, <2>2, <2>3, <2>4 DEF Atomic!Apply, Open
  <1>4. CASE UNCHANGED vars
    BY <1>4 DEF vars, Atomic!vars
  <1>5. QED
    BY <1>1, <1>2, <1>3, <1>4 DEF Next, Atomic!Next

(* The key-value store is atomic: no update is lost to an interleaving of
   transactions, and UpdateAccount is never refused. *)
THEOREM StoreIsAtomic == Spec => Atomicity
  <1>1. Init => Atomic!Init
    BY DEF Init, Atomic!Init, NoTransaction, Transaction
  <1>2. QED
    BY <1>1, InitInv, NextInv, NextRefines, PTL
    DEF Spec, Atomicity, Atomic!Spec

-----------------------------------------------------------------------------
(* The type of the store: an entry is stored only by way of encodeAccount, and
   what a transaction makes of the entries of its snapshot can be stored. *)

TypeInv ==
    /\ store \in [Addrs -> MaybeStored]
    /\ \A c \in Open : /\ txn[c].op \in Operation
                       /\ txn[c].snap \in [Addrs -> MaybeStored]
                       /\ txn[c].stale \subseteq Addrs

LEMMA CarriedType ==
  ASSUME NEW op \in Carried
  PROVE  op \in Operation /\ Writes(op) \subseteq Addrs
  <1>1. PICK o \in Ops : op \in Surviving(o)
    BY DEF Carried
  <1>2. op \in Operation
    BY <1>1, OpsAssumption, SurvivingType
  <1>3. Writes(op) \subseteq Addrs
    BY <1>2 DEF Operation, Writes
  <1>4. QED
    BY <1>2, <1>3

LEMMA InitTyped == Init => TypeInv
  BY DEF Init, TypeInv, Open, NoTransaction, Transaction, MaybeStored

LEMMA NextTyped == IInv /\ TypeInv /\ [Next]_vars => TypeInv'
  <1> SUFFICES ASSUME IInv, TypeInv, [Next]_vars PROVE TypeInv'
    OBVIOUS
  <1>1. ASSUME NEW c \in Clients, Begin(c) PROVE TypeInv'
    <2>1. PICK s \in Carried : txn' = [txn EXCEPT ![c] = Transaction(s, store)]
      BY <1>1 DEF Begin, Carried
    <2>2. store' = store
      BY <1>1 DEF Begin
    <2>3. s \in Operation
      BY CarriedType
    <2>4. ASSUME NEW d \in Open'
          PROVE  /\ txn'[d].op \in Operation
                 /\ txn'[d].snap \in [Addrs -> MaybeStored]
                 /\ txn'[d].stale \subseteq Addrs
      <3>1. CASE d = c
        BY <2>1, <2>3, <3>1 DEF IInv, TxnShape, Transaction, TypeInv
      <3>2. CASE d # c
        <4>1. txn'[d] = txn[d] /\ d \in Open
          BY <2>1, <3>2 DEF Open, IInv, TxnShape
        <4>2. QED
          BY <4>1 DEF TypeInv
      <3>3. QED
        BY <3>1, <3>2
    <2>5. QED
      BY <2>2, <2>4 DEF TypeInv
  <1>2. ASSUME NEW c \in Clients, Discard(c) \/ Refuse(c) PROVE TypeInv'
    <2>1. txn' = [txn EXCEPT ![c] = NoTransaction] /\ store' = store
      BY <1>2 DEF Discard, Refuse
    <2>2. \A d \in Open' : d \in Open /\ txn'[d] = txn[d]
      BY <2>1 DEF IInv, TxnShape, Open, NoTransaction, Transaction
    <2>3. QED
      BY <2>1, <2>2 DEF TypeInv
  <1>3. ASSUME NEW c \in Clients, Commit(c) PROVE TypeInv'
    <2> DEFINE op == txn[c].op
               W == Writes(op)
    <2>1. c \in Open /\ store' = Written(op, store, txn[c].snap)
      BY <1>3 DEF Commit
    <2>2. op \in Operation /\ W \subseteq Addrs
      BY <2>1, CarriedType DEF IInv, TxnShape, Open
    <2>3. store' \in [Addrs -> MaybeStored]
      <3>1. ASSUME NEW a \in Addrs
            PROVE  (IF a \in W THEN NewEntry(op, a, txn[c].snap[a]) ELSE store[a])
                        \in MaybeStored
        <4>1. txn[c].snap[a] \in MaybeStored /\ store[a] \in MaybeStored
          BY <2>1 DEF TypeInv
        <4>2. NewEntry(op, a, txn[c].snap[a]) \in MaybeStored
          BY <2>2, <4>1, NewEntryType
        <4>3. QED
          BY <4>1, <4>2
      <3>2. QED
        BY <2>1, <3>1 DEF Written
    <2> HIDE DEF W
    <2>4. ASSUME NEW d \in Open'
          PROVE  /\ txn'[d].op \in Operation
                 /\ txn'[d].snap \in [Addrs -> MaybeStored]
                 /\ txn'[d].stale \subseteq Addrs
      <3>1. txn'[d] = IF d \in Open \ {c}
                      THEN [txn[d] EXCEPT !.stale = @ \cup W]
                      ELSE NoTransaction
        BY <1>3 DEF Commit, Open, W
      <3>2. NoTransaction.op = Idle /\ txn'[d].op # Idle
        BY DEF NoTransaction, Transaction, Open
      <3>3. d \in Open \ {c} /\ txn'[d] = [txn[d] EXCEPT !.stale = @ \cup W]
        BY <3>1, <3>2
      <3>4. txn[d] = [op    |-> txn[d].op,
                      snap  |-> txn[d].snap,
                      stale |-> txn[d].stale]
        BY DEF IInv, TxnShape, Open
      <3>5. /\ txn'[d].op = txn[d].op
            /\ txn'[d].snap = txn[d].snap
            /\ txn'[d].stale = txn[d].stale \cup W
        BY <3>3, <3>4
      <3>6. QED
        BY <2>2, <3>3, <3>5 DEF TypeInv, W
    <2>5. QED
      BY <2>3, <2>4 DEF TypeInv
  <1>4. CASE UNCHANGED vars
    BY <1>4 DEF vars, TypeInv, Open
  <1>5. QED
    BY <1>1, <1>2, <1>3, <1>4 DEF Next

(* TypeOK: whatever the goroutines do, an entry read back from the store is
   one that survived encodeAccount. *)
THEOREM StoreTyped == Spec => []TypeOK
  <1>1. TypeInv => TypeOK
    BY MissingAssumption DEF TypeInv, TypeOK, MaybeStored, StoredEntry
  <1>2. QED
    BY InitInv, NextInv, InitTyped, NextTyped, <1>1, PTL DEF Spec

(* LostOnlyToFill: a balance or a slot that the store has is lost only to a
   read-through fill, never to a block, a patch or a conflict. *)
THEOREM OnlyFillsForget == Spec => LostOnlyToFill
  <1> DEFINE Kept(a) ==
        \/ /\ store'[a] # Missing
           /\ store[a].balance # Nil => store'[a].balance # Nil
           /\ \A k \in Slots : store[a].storage[k] # Nil =>
                                    store'[a].storage[k] # Nil
        \/ \E c \in Open : /\ txn[c].op.kind = "UpdateAccount"
                           /\ txn[c].op.addr = a
                           /\ txn'[c] = NoTransaction
  <1>1. ASSUME IInv, TypeInv, Next, NEW a \in Addrs, store[a] # Missing
        PROVE  Kept(a)
    <2>1. CASE store'[a] = store[a]
      BY <1>1, <2>1
    <2>2. ASSUME NEW c \in Clients, Commit(c) PROVE Kept(a)
      <3> DEFINE op == txn[c].op
      <3>1. c \in Open /\ store' = Written(op, store, store)
        BY <1>1, <2>2, CommitIsCurrent DEF Commit
      <3>2. op \in Operation /\ txn'[c] = NoTransaction
        <4>1. op \in Operation
          BY <1>1, <3>1 DEF TypeInv
        <4>2. QED
          BY <2>2, <4>1 DEF Commit
      <3>3. store[a] \in StoredEntry
        BY <1>1 DEF TypeInv, MaybeStored
      <3>4. CASE a \notin Writes(op)
        BY <1>1, <2>1, <3>1, <3>4 DEF Written
      <3>5. CASE a \in Writes(op) /\ op.kind = "UpdateAccount"
        BY <3>1, <3>2, <3>5 DEF Writes
      <3>6. CASE a \in Writes(op) /\ op.kind # "UpdateAccount"
        <4>1. store'[a] = NewEntry(op, a, store[a])
          BY <3>1, <3>6 DEF Written
        <4>2. store'[a] \in StoredEntry /\ Keeping(store[a], store'[a])
          BY <3>2, <3>3, <3>6, <4>1, NewEntryKeeps
        <4>3. store'[a] # Missing
          BY <4>2, MissingAssumption DEF StoredEntry
        <4>4. QED
          BY <4>2, <4>3 DEF Keeping
      <3>7. QED
        BY <3>4, <3>5, <3>6
    <2>3. ASSUME NEW c \in Clients, Begin(c) \/ Discard(c) \/ Refuse(c)
          PROVE  Kept(a)
      BY <2>1, <2>3 DEF Begin, Discard, Refuse
    <2> HIDE DEF Kept
    <2>4. QED
      BY <1>1, <2>2, <2>3 DEF Next
  <1>2. IInv /\ TypeInv /\ [Next]_vars =>
            [\A a \in Addrs : store[a] # Missing => Kept(a)]_vars
    <2> HIDE DEF Kept
    <2>1. QED
      BY <1>1
  <1>3. QED
    BY InitInv, NextInv, InitTyped, NextTyped, <1>2, PTL
    DEF Spec, LostOnlyToFill
=============================================================================
