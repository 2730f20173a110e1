------------------------------- MODULE AtomicKV ------------------------------
(***************************************************************************)
(* What callers may rely on when they use BadgerKV from several goroutines *)
(* and ignore its errors, as w3backend/db.go does: an operation takes      *)
(* effect at one instant, on the entries of that instant, or not at all;   *)
(* and UpdateAccount always takes effect.  Module BadgerKV implements it.  *)
(***************************************************************************)
CONSTANTS
    Addrs,            \* the keys
    Missing,          \* the entry of a key never set
    Clients,          \* goroutines that use the store
    Ops,              \* the operations they ask for
    Idle,             \* a goroutine with no operation under way
    Surviving(_),     \* what may be left of an operation
    Written(_, _, _)  \* the store after an operation that saw given entries

VARIABLES
    store,     \* the committed entries
    pending    \* each goroutine's operation

vars == <<store, pending>>

Init == /\ store = [a \in Addrs |-> Missing]
        /\ pending = [c \in Clients |-> Idle]

Start(c) ==
    /\ pending[c] = Idle
    /\ \E op \in Ops : \E s \in Surviving(op) :
            pending' = [pending EXCEPT ![c] = s]
    /\ UNCHANGED store

Apply(c) ==
    /\ pending[c] # Idle
    /\ store' = Written(pending[c], store, store)
    /\ pending' = [pending EXCEPT ![c] = Idle]

(* Errors are ignored, so an operation may come to nothing. *)
Drop(c) ==
    /\ pending[c] # Idle
    /\ pending[c].kind # "UpdateAccount"
    /\ pending' = [pending EXCEPT ![c] = Idle]
    /\ UNCHANGED store

Next == \E c \in Clients : Start(c) \/ Apply(c) \/ Drop(c)

Spec == Init /\ [][Next]_vars
=============================================================================
