------------------------------- MODULE Account -------------------------------
(***************************************************************************)
(* Account data: what the chain says of an account, what the key-value     *)
(* store keeps of it (fetcher.Account, through the gob encoding of         *)
(* w3backend/kv.go), how an entry is patched, and what the node's          *)
(* prestateTracer reports of a transaction.                                *)
(*                                                                         *)
(* A value is a natural number; 0 is the zero balance, the zero nonce, the *)
(* empty code and the empty storage slot.                                  *)
(***************************************************************************)
EXTENDS Integers, SequencesExt

CONSTANTS
    Addrs,    \* account addresses
    Slots,    \* storage keys
    Missing   \* badger.ErrKeyNotFound: the store has no such key

(* A nil pointer field of fetcher.Account, an absent key of its Storage map;
   no value is negative. *)
Nil == -1

Value == Nat
MaybeValue == Value \cup {Nil}

(* An account on the chain. *)
ChainAccount == [balance : Value, nonce : Value, code : Value,
                 storage : [Slots -> Value]]

(* fetcher.Account, in memory or decoded from the store. *)
Entry == [balance : MaybeValue, nonce : MaybeValue, code : MaybeValue,
          storage : [Slots -> MaybeValue]]

NoEntry == [balance |-> Nil, nonce |-> Nil, code |-> Nil,
            storage |-> [k \in Slots |-> Nil]]

EmptyAccount == [balance |-> 0, nonce |-> 0, code |-> 0,
                 storage |-> [k \in Slots |-> 0]]

ASSUME MissingAssumption == Missing \notin Entry

-----------------------------------------------------------------------------
(* kv.go: encoding and merging *)

(* gob and encoding/json both leave out a zero number and an empty string of
   bytes. *)
OmitZero(v) == IF v = 0 THEN Nil ELSE v

(* Mutant: the encoding keeps zeros. *)
EncodedAsIs(e) == e

(* encodeAccount then decodeAccount.  *uint64 Nonce and []byte Code lose a
   zero, which comes back as nil; *big.Int and the elements of the map keep
   theirs. *)
Encoded(e) ==
    [balance |-> e.balance,
     nonce   |-> OmitZero(e.nonce),
     code    |-> OmitZero(e.code),
     storage |-> e.storage]

Or(new, old) == IF new # Nil THEN new ELSE old

(* Mutant: storage is taken from the new entry only. *)
MergeAccountNewStorage(o, n) ==
    [balance |-> Or(n.balance, o.balance),
     nonce   |-> Or(n.nonce, o.nonce),
     code    |-> Or(n.code, o.code),
     storage |-> n.storage]

(* mergeAccount: what n has replaces what o has. *)
MergeAccount(o, n) ==
    [balance |-> Or(n.balance, o.balance),
     nonce   |-> Or(n.nonce, o.nonce),
     code    |-> Or(n.code, o.code),
     storage |-> [k \in Slots |-> Or(n.storage[k], o.storage[k])]]

(* The body of ProcessState's loops for one account of one Pre or Post map:
   txGetAccount, mergeAccount if there was an entry, txUpdateAccount. *)
Patched(e, patch) ==
    Encoded(IF e = Missing THEN patch ELSE MergeAccount(e, patch))

(* The loops over the transactions, for one account. *)
PatchedAll(e, patches) == FoldLeft(Patched, e, patches)

(* UpdateAccount stores a new entry without looking at the old one. *)
Overwritten(e, new) == Encoded(new)

(* UpdateStorage and UpdateContractCode return an error on a missing key. *)
WithStorage(e, k, v) ==
    IF e = Missing THEN Missing ELSE Encoded([e EXCEPT !.storage[k] = v])

WithCode(e, code) ==
    IF e = Missing THEN Missing ELSE Encoded([e EXCEPT !.code = code])

-----------------------------------------------------------------------------
(* The node's prestateTracer in diff mode, for one transaction that takes an
   account from s to t without destroying it. *)

Exists(s) == s # EmptyAccount
Changed(s, t, k) == s.storage[k] # t.storage[k]

(* An account the transaction created is left out of Pre. *)
InPre(s, t) == Exists(s) \/ t.code = 0

(* Pre: the whole account, and the non-empty slots that change. *)
TracePre(s, t) ==
    [balance |-> s.balance,
     nonce   |-> OmitZero(s.nonce),
     code    |-> OmitZero(s.code),
     storage |-> [k \in Slots |->
                    IF Changed(s, t, k) THEN OmitZero(s.storage[k]) ELSE Nil]]

(* Post: the fields that change and the slots that change to something. *)
TracePost(s, t) ==
    [balance |-> IF t.balance # s.balance THEN t.balance ELSE Nil,
     nonce   |-> IF t.nonce # s.nonce THEN OmitZero(t.nonce) ELSE Nil,
     code    |-> IF t.code # s.code THEN OmitZero(t.code) ELSE Nil,
     storage |-> [k \in Slots |->
                    IF Changed(s, t, k) THEN OmitZero(t.storage[k]) ELSE Nil]]

(* Mutant: ProcessState applies the Post maps only. *)
PostPatches(s, t) == IF s = t THEN << >> ELSE << TracePost(s, t) >>

(* What one transaction contributes to its account's patches; an untouched
   account is in neither map. *)
TracePatches(s, t) ==
    IF s = t THEN << >>
    ELSE IF InPre(s, t) THEN << TracePre(s, t), TracePost(s, t) >>
    ELSE << TracePost(s, t) >>

(* A destroyed account is in Pre only, as it was before, with the slots the
   transaction touched. *)
DestroyPatches(s, touched) ==
    << [balance |-> s.balance,
        nonce   |-> OmitZero(s.nonce),
        code    |-> OmitZero(s.code),
        storage |-> [k \in Slots |->
                        IF k \in touched THEN s.storage[k] ELSE Nil]] >>

-----------------------------------------------------------------------------
(* Reading an entry as db.GetAccount and db.GetStorage do. *)

(* Mutant: any entry is answered. *)
AnswersAny(e) == e # Missing

(* db.GetAccount answers from the store only then. *)
Answers(e) == e # Missing /\ e.nonce # Nil /\ e.balance # Nil

(* Account.CodeHash and ContractCode read a nil code as the empty code. *)
CodeOf(e) == IF e.code = Nil THEN 0 ELSE e.code

(* Whether the entry says of the account itself what the chain says. *)
SameFields(e, s) ==
    /\ e.balance = s.balance
    /\ e.nonce = OmitZero(s.nonce)
    /\ CodeOf(e) = s.code

=============================================================================
