------------------------------ MODULE MCLiveDb -------------------------------
(* Instances of LiveDb for TLC. *)
EXTENDS LiveDb

CONSTANTS a1, k1

MCAddrs == {a1}
MCSlots == {k1}

AccountOf(balance, nonce, code, v) ==
    [balance |-> balance, nonce |-> nonce, code |-> code,
     storage |-> [k \in Slots |-> v]]

(* A contract with a used slot, an account that never sent a transaction, and
   an unused address. *)
Contract == AccountOf(1, 1, 1, 1)
Receiver == AccountOf(1, 0, 0, 0)

MCAccounts == {Contract, Receiver, EmptyAccount}
MCContracts == {Contract}

(* Blocks that change the balance of a1, and so perhaps other things of it. *)
MCBigBlocks ==
    { op \in [kind : {"ProcessState"}, touched : SUBSET Addrs,
              patches : [Addrs -> Seq(Entry)]] :
        \E i \in 2..Len(op.patches[a1]) : op.patches[a1][i].balance # Nil }

Symmetry == Permutations(Requests)
=============================================================================
