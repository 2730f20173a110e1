---------------------------- MODULE KVOperations -----------------------------
(***************************************************************************)
(* The writing operations of BadgerKV (w3backend/kv.go) and what each one  *)
(* makes of a single entry.                                                *)
(*                                                                         *)
(* ProcessState is given by the accounts its block touched and the patches *)
(* it applies to each of them (none to the others).  Its loops treat every *)
(* account on its own, so the order in which Go ranges over the Pre and    *)
(* Post maps does not matter; the order of Pre and Post, and of the        *)
(* block's transactions, does, and is that of the patches.                 *)
(***************************************************************************)
EXTENDS Account

CONSTANT BigBlocks   \* blocks whose transaction may outgrow badger's size limit

Operation ==
         [kind : {"UpdateAccount"}, addr : Addrs, entry : Entry]
    \cup [kind : {"UpdateStorage"}, addr : Addrs, slot : Slots, value : Value]
    \cup [kind : {"UpdateContractCode"}, addr : Addrs, code : Value]
    \cup [kind : {"ProcessState"}, touched : SUBSET Addrs,
          patches : [Addrs -> Seq(Entry)]]

(* Keys passed to txn.Get: a transaction that only sets a key does not
   conflict over it. *)
Reads(op) ==
    CASE op.kind = "UpdateAccount" -> {}
      [] op.kind = "ProcessState"  -> op.touched
      [] OTHER                     -> {op.addr}

(* Keys passed to txn.Set. *)
Writes(op) ==
    IF op.kind = "ProcessState"
    THEN { a \in op.touched : op.patches[a] # << >> }
    ELSE {op.addr}

(* The entry an operation leaves at key a when it found e there. *)
NewEntry(op, a, e) ==
    CASE op.kind = "UpdateAccount"      -> Overwritten(e, op.entry)
      [] op.kind = "UpdateStorage"      -> WithStorage(e, op.slot, op.value)
      [] op.kind = "UpdateContractCode" -> WithCode(e, op.code)
      [] op.kind = "ProcessState"       -> PatchedAll(e, op.patches[a])

(* Whether an operation that found the entries s gives up: txn.Get returned
   ErrKeyNotFound. *)
GivesUp(op, s) ==
    /\ op.kind \in {"UpdateStorage", "UpdateContractCode"}
    /\ s[op.addr] = Missing

(* The store after an operation that found the entries seen. *)
Written(op, s, seen) ==
    [a \in Addrs |-> IF a \in Writes(op) THEN NewEntry(op, a, seen[a]) ELSE s[a]]

(* What may be left of a sequence when elements are dropped: those at some
   indices, in the order they had. *)
Subsequences(s) ==
    { [i \in DOMAIN f |-> s[f[i]]] :
        f \in { f \in UNION { [1..n -> DOMAIN s] : n \in 0..Len(s) } :
                    \A i, j \in DOMAIN f : i < j => f[i] < f[j] } }

(* ProcessState ignores the error of txUpdateAccount: patches whose txn.Set
   badger refuses as ErrTxnTooBig are left out and the others committed. *)
Surviving(op) ==
    IF op.kind = "ProcessState" /\ op \in BigBlocks
    THEN { [op EXCEPT !.patches = kept] :
            kept \in { q \in [Addrs -> UNION { Subsequences(op.patches[a]) :
                                                a \in Addrs }] :
                        \A a \in Addrs : q[a] \in Subsequences(op.patches[a]) } }
    ELSE {op}
=============================================================================
