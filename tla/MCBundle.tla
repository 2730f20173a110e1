------------------------------- MODULE MCBundle -------------------------------
(* Instances of Bundle for TLC: two accounts, the contract, one slot. *)
EXTENDS Bundle, TLC

CONSTANTS alice, miner, contract, slot

MCFunds == (alice :> 9) @@ (miner :> 3)

TxOf(from, to, value, tip, cap, reverts) ==
    [from |-> from, to |-> to, value |-> value, tip |-> tip, cap |-> cap,
     gas |-> 2, slot |-> slot, reverts |-> reverts]

(* Legacy and 1559 transfers to and from the coinbase, contract calls, one
   that reverts, and one whose fee cap is below the base fee. *)
MCTransactions ==
    { TxOf(alice, miner, 1, 2, 2, FALSE), TxOf(alice, miner, 2, 1, 3, FALSE),
      TxOf(alice, miner, 1, 1, 2, TRUE), TxOf(miner, alice, 1, 1, 1, FALSE),
      TxOf(alice, contract, 0, 1, 1, FALSE), TxOf(alice, contract, 0, 2, 2, TRUE) }

UpTo(n, txs) == UNION { [1..m -> txs] : m \in 0..n }

MCBundles == UpTo(3, MCTransactions)
ContractBundles ==
    UpTo(2, { TxOf(alice, contract, 0, 2, 2, FALSE),
              TxOf(miner, contract, 0, 1, 1, FALSE) })

MCNumbers == {-2, 0, 2, 3}
MCBaseFees == {Nil, 1, 3}
NoBaseFee == {Nil}

Symmetry == Permutations(Calls)
=============================================================================
