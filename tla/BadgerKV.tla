------------------------------- MODULE BadgerKV ------------------------------
(***************************************************************************)
(* The key-value store of w3backend/kv.go at the grain of badger's         *)
(* transactions.  Each writing operation is a closure given to             *)
(* badger.DB.Update: it works on the snapshot taken when the transaction   *)
(* was opened, its writes are kept aside, and the commit is refused        *)
(* (ErrConflict) if another transaction has since committed a key it read. *)
(* Badger itself is external.                                              *)
(***************************************************************************)
EXTENDS KVOperations

CONSTANTS
    Clients,   \* goroutines that use the store: requests and updateState
    Ops,       \* the operations they ask for
    Idle       \* a goroutine with no transaction open

ASSUME OpsAssumption ==
    /\ Ops \subseteq Operation
    /\ BigBlocks \subseteq Ops
    /\ \A op \in Ops : Idle \notin Surviving(op)

VARIABLES
    store,     \* the committed entries
    txn        \* each goroutine's transaction

vars == <<store, txn>>

(* The operation, the entries it sees, and the keys others committed since. *)
Transaction(op, snap) == [op |-> op, snap |-> snap, stale |-> {}]

NoTransaction == Transaction(Idle, [a \in Addrs |-> Missing])

Open == { c \in Clients : txn[c].op # Idle }

Init == /\ store = [a \in Addrs |-> Missing]
        /\ txn = [c \in Clients |-> NoTransaction]

(* badger.DB.Update opens a transaction and runs the closure on it. *)
Begin(c) ==
    /\ c \notin Open
    /\ \E op \in Ops : \E s \in Surviving(op) :
            txn' = [txn EXCEPT ![c] = Transaction(s, store)]
    /\ UNCHANGED store

(* Mutant: the store is opened with conflict detection switched off. *)
NoConflictDetection(c) == FALSE

(* Badger's check at commit; a transaction without writes skips it. *)
Conflict(c) ==
    /\ Writes(txn[c].op) # {}
    /\ Reads(txn[c].op) \cap txn[c].stale # {}

(* The closure returned an error: the transaction is discarded. *)
Discard(c) ==
    /\ c \in Open
    /\ GivesUp(txn[c].op, txn[c].snap)
    /\ txn' = [txn EXCEPT ![c] = NoTransaction]
    /\ UNCHANGED store

(* Update returns ErrConflict and the writes are lost. *)
Refuse(c) ==
    /\ c \in Open
    /\ ~GivesUp(txn[c].op, txn[c].snap)
    /\ Conflict(c)
    /\ txn' = [txn EXCEPT ![c] = NoTransaction]
    /\ UNCHANGED store

(* The writes become visible together, and stale to the transactions open. *)
Commit(c) ==
    /\ c \in Open
    /\ ~GivesUp(txn[c].op, txn[c].snap)
    /\ ~Conflict(c)
    /\ store' = Written(txn[c].op, store, txn[c].snap)
    /\ txn' = [d \in Clients |->
                IF d \in Open \ {c}
                THEN [txn[d] EXCEPT !.stale = @ \cup Writes(txn[c].op)]
                ELSE NoTransaction]

Next == \E c \in Clients : Begin(c) \/ Discard(c) \/ Refuse(c) \/ Commit(c)

Spec == Init /\ [][Next]_vars

-----------------------------------------------------------------------------
(* Properties *)

(* Every stored entry is one that decodeAccount can return, and transactions
   hold operations and snapshots of such entries. *)
TypeOK ==
    /\ store \in [Addrs -> Entry \cup {Missing}]
    /\ \A a \in Addrs : store[a] # Missing =>
            /\ store[a].nonce # 0
            /\ store[a].code # 0
    /\ \A c \in Open :
            /\ txn[c].op \in Operation
            /\ txn[c].snap \in [Addrs -> Entry \cup {Missing}]
            /\ txn[c].stale \subseteq Addrs

(* No update is lost inside the store: what the transactions do to it is what
   atomic operations would, of which some are dropped but no UpdateAccount. *)
Atomic == INSTANCE AtomicKV WITH
    pending <- [c \in Clients |-> txn[c].op]

Atomicity == Atomic!Spec

(* A slot or a balance the store has is forgotten only when a read-through
   fill replaces the whole entry (db.GetAccount calling UpdateAccount); no
   patch, fill of a slot or conflict between them loses it. *)
LostOnlyToFill ==
    [][\A a \in Addrs : store[a] # Missing =>
        \/ /\ store'[a] # Missing
           /\ store[a].balance # Nil => store'[a].balance # Nil
           /\ \A k \in Slots : store[a].storage[k] # Nil =>
                                    store'[a].storage[k] # Nil
        \/ \E c \in Open : /\ txn[c].op.kind = "UpdateAccount"
                           /\ txn[c].op.addr = a
                           /\ txn'[c] = NoTransaction]_vars
=============================================================================
