----------------------------- MODULE MCBadgerKV ------------------------------
(* Instances of BadgerKV for TLC: two accounts with one slot, and operations
   of every kind on the first of them, chosen so that any two orders give
   different entries. *)
EXTENDS BadgerKV

CONSTANTS a1, a2, k1

MCAddrs == {a1, a2}
MCSlots == {k1}

EntryOf(balance, nonce, code, v) ==
    [balance |-> balance, nonce |-> nonce, code |-> code,
     storage |-> [k \in Slots |-> v]]

(* A read-through fill of an account without nonce or code. *)
Fill == [kind |-> "UpdateAccount", addr |-> a1, entry |-> EntryOf(1, 0, 0, Nil)]
FillSlot == [kind |-> "UpdateStorage", addr |-> a1, slot |-> k1, value |-> 1]
FillCode == [kind |-> "UpdateContractCode", addr |-> a1, code |-> 2]

(* A block of two transactions any part of which badger may refuse: the first
   touches both accounts, the second only a1. *)
Block == [kind |-> "ProcessState", touched |-> {a1, a2},
          patches |-> (a1 :> << EntryOf(1, Nil, Nil, 1), EntryOf(2, 1, 3, Nil) >>)
                   @@ (a2 :> << EntryOf(4, 1, Nil, Nil) >>)]

(* Its successor touches a2 only. *)
NextBlock == [kind |-> "ProcessState", touched |-> {a2},
              patches |-> (a1 :> << >>) @@ (a2 :> << EntryOf(Nil, 1, 4, Nil) >>)]

MCOps == {Fill, FillSlot, FillCode, Block, NextBlock}
MCBigBlocks == {Block}
=============================================================================
