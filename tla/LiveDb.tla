-------------------------------- MODULE LiveDb -------------------------------
(***************************************************************************)
(* What a request is answered with: w3backend's W3Backend chooses a block  *)
(* and a database for it, and db (db.go) answers account, code and storage *)
(* reads from the key-value store, or from the node on a miss, storing the *)
(* answer.  Meanwhile updateState (main.go) commits the diffs of new       *)
(* blocks to the store that requests on the head block share.              *)
(*                                                                         *)
(* A chain without reorganisations; a block touches an account in at most  *)
(* one transaction.  Every change writes a value the chain has not had     *)
(* before, so a value tells how old it is.  The feed is the pipeline of    *)
(* module Feed, which StateStream implements, and an operation on the      *)
(* store is one step, as module BadgerKV shows it to be.                   *)
(***************************************************************************)
EXTENDS KVOperations

CONSTANTS
    Requests,         \* calls of the RPC server under way
    Live,             \* the key-value store of main.go
    MaxHeight,        \* bound: highest block number
    InitialAccounts,  \* accounts the chain may start with
    Changes,          \* what transactions do (kinds of Effects)
    Failures          \* whether a call to the node or a commit may fail

ASSUME LiveDbAssumption ==
    /\ MaxHeight \in Nat
    /\ InitialAccounts \subseteq ChainAccount
    /\ Changes \subseteq {"transfer", "send", "create", "spawn", "set", "clear",
                         "destroy"}
    /\ Live \notin Requests
    /\ Failures \in BOOLEAN

None == -1      \* no head yet
Latest == -2    \* rpc.LatestBlockNumber

VARIABLES
    chain,      \* node: the accounts after each block
    height,     \* node: number of its latest block
    blockHead,  \* rpcFetcher.blockHead
    waiting,    \* whether the poller is still to hand over that block's update
    work,       \* what updateState is doing
    head,       \* number of W3Backend.head
    kv,         \* the stores: Live, and one for each request on an older block
    req         \* the requests

Feed == INSTANCE Feed WITH Numbers <- 1..MaxHeight, NoHead <- None

feedVars == <<blockHead, waiting, work, head>>
vars == <<chain, height, feedVars, kv, req>>

NoStore == [a \in Addrs |-> Missing]

(* What a request's StateDB has read: nothing (Nil), or the answer; hash
   stands for the code hash that comes with an account. *)
Unread == [balance |-> Nil, nonce |-> Nil, hash |-> Nil, code |-> Nil,
           storage |-> [k \in Slots |-> Nil]]

NoRequest == [pc |-> "idle", want |-> Latest, block |-> None, db |-> Live,
              op |-> [kind |-> "none"], failed |-> FALSE,
              seen |-> [a \in Addrs |-> Unread]]

Init ==
    /\ \E world \in [Addrs -> InitialAccounts] :
            chain = [n \in 0..MaxHeight |-> world]
    /\ height = 0
    /\ Feed!Init
    /\ kv = [d \in Requests \cup {Live} |-> NoStore]
    /\ req = [r \in Requests |-> NoRequest]

-----------------------------------------------------------------------------
(* The node *)

(* What a transaction of each kind makes of an account in a block whose changes
   all write v.  An account's nonce counts what it sends or, if it is a contract,
   the contracts it creates (spawn). *)
Effects(s, v) ==
    [transfer |-> { [s EXCEPT !.balance = v] },
     send     |-> { t \in { [s EXCEPT !.nonce = v, !.balance = v] } : s.code = 0 },
     create   |-> { t \in { [s EXCEPT !.nonce = v, !.code = v] } :
                        s.nonce = 0 /\ s.code = 0 },
     spawn    |-> { t \in { [s EXCEPT !.nonce = v, !.balance = v] } : s.code # 0 },
     set      |-> { [s EXCEPT !.storage[k] = v] :
                        k \in { k \in Slots : s.code # 0 } },
     clear    |-> { [s EXCEPT !.storage[k] = 0] :
                        k \in { k \in Slots : s.storage[k] # 0 } },
     destroy  |-> { t \in { EmptyAccount } : s.code # 0 }]

Successors(s, v) == UNION { Effects(s, v)[c] : c \in Changes }

(* Entries above height repeat the latest block's until they are made. *)
NewBlock ==
    /\ height < MaxHeight
    /\ \E touched \in (SUBSET Addrs) \ {{}} :
       \E world \in [touched -> UNION { Successors(chain[height][a], height + 2) :
                                            a \in touched }] :
            /\ \A a \in touched :
                    world[a] \in Successors(chain[height][a], height + 2)
            /\ chain' = [n \in 0..MaxHeight |->
                            IF n <= height THEN chain[n]
                            ELSE [a \in Addrs |-> IF a \in touched THEN world[a]
                                                  ELSE chain[height][a]]]
    /\ height' = height + 1
    /\ UNCHANGED <<feedVars, kv, req>>

Destroyed(n, a) ==
    chain[n - 1][a] # EmptyAccount /\ chain[n][a] = EmptyAccount

(* The traced block n, as the operation ProcessState makes of it. *)
TraceOf(n, touched) ==
    [kind |-> "ProcessState",
     touched |-> { a \in Addrs : chain[n - 1][a] # chain[n][a] },
     patches |-> [a \in Addrs |->
                    IF Destroyed(n, a)
                    THEN DestroyPatches(chain[n - 1][a], touched)
                    ELSE TracePatches(chain[n - 1][a], chain[n][a])]]

-----------------------------------------------------------------------------
(* updateState *)

(* The trace of the block a poll found comes in.  Blocks in between are
   skipped, and the node may have made more since the poll. *)
Poll ==
    /\ \E n \in 1..height : Feed!Count(n)
    /\ UNCHANGED <<chain, height, kv, req>>

Receive == Feed!Hand /\ UNCHANGED <<chain, height, kv, req>>

(* kvDB.ProcessState commits, or returns an error that is only logged. *)
Process ==
    /\ Feed!Commit
    /\ \/ \E touched \in SUBSET Slots :
          \E op \in Surviving(TraceOf(work.num, touched)) :
              kv' = [kv EXCEPT ![Live] = Written(op, kv[Live], kv[Live])]
       \/ /\ Failures
          /\ UNCHANGED kv
    /\ UNCHANGED <<chain, height, req>>

SetHead == Feed!Publish /\ UNCHANGED <<chain, height, kv, req>>

-----------------------------------------------------------------------------
(* W3Backend.StateAndHeaderByNumberOrHash *)

Goto(r, pc) == req' = [req EXCEPT ![r].pc = pc]
Keeps == UNCHANGED <<chain, height, feedVars>>

(* A request for a block by number, or for the latest. *)
Ask(r) ==
    /\ req[r].pc = "idle"
    /\ \E want \in {Latest} \cup 0..height :
            req' = [req EXCEPT ![r].pc = "check", ![r].want = want]
    /\ Keeps /\ UNCHANGED kv

(* A request for a block by its hash, which is always put to the node. *)
AskByHash(r) ==
    /\ req[r].pc = "idle"
    /\ \E n \in 0..height :
            req' = [req EXCEPT ![r].pc = "route", ![r].want = n, ![r].block = n]
    /\ Keeps /\ UNCHANGED kv

(* Mutant: the head serves every number it has not passed. *)
HeadMatchesFromHead(r) ==
    /\ req[r].pc = "check"
    /\ head # None
    /\ req[r].want = Latest \/ req[r].want >= head
    /\ Goto(r, "return")
    /\ Keeps /\ UNCHANGED kv

(* BlockByNumber finds that the head is the block asked for... *)
HeadMatches(r) ==
    /\ req[r].pc = "check"
    /\ head # None
    /\ req[r].want \in {Latest, head}
    /\ Goto(r, "return")
    /\ Keeps /\ UNCHANGED kv

(* ...and then returns the head, which it reads again. *)
ReturnHead(r) ==
    /\ req[r].pc = "return"
    /\ req' = [req EXCEPT ![r].pc = "route", ![r].block = head]
    /\ Keeps /\ UNCHANGED kv

(* Otherwise it asks the node. *)
AskNode(r) ==
    /\ req[r].pc = "check"
    /\ head = None \/ req[r].want \notin {Latest, head}
    /\ req' = [req EXCEPT
          ![r].pc = "route",
          ![r].block = IF req[r].want = Latest THEN height ELSE req[r].want]
    /\ Keeps /\ UNCHANGED kv

(* The node does not answer: the request ends with the error. *)
AskFails(r) ==
    /\ Failures
    /\ req[r].pc = "check"
    /\ head = None \/ req[r].want \notin {Latest, head}
    /\ req' = [req EXCEPT ![r] = NoRequest]
    /\ Keeps /\ UNCHANGED kv

(* StateAtBlock: an older block, and any block before the first head, gets a
   store and a fetcher of its own; the head block and later ones get b.db. *)
Route(r) ==
    /\ req[r].pc = "route"
    /\ req' = [req EXCEPT
          ![r].pc = "ready",
          ![r].db = IF head = None \/ req[r].block < head THEN r ELSE Live]
    /\ Keeps /\ UNCHANGED kv

-----------------------------------------------------------------------------
(* db.go.  A StateDB reads each account and slot once and keeps it. *)

EntryAt(r, a) == kv[req[r].db][a]

(* Mutant: a fetcher made for a block asks for the latest block. *)
NodeLatest(r) == chain[height]

(* What the node answers a request's fetcher: its block if it was made for
   one, else the latest. *)
NodeAt(r) == IF req[r].db = Live THEN chain[height] ELSE chain[req[r].block]

(* The request q once its StateDB has the account. *)
AccountRead(q, a, balance, nonce, code) ==
    [q EXCEPT !.pc = "ready",
              !.op = [kind |-> "none"],
              !.seen[a].balance = balance,
              !.seen[a].nonce = nonce,
              !.seen[a].hash = code]

(* GetAccount answers from the store only an entry with nonce and balance. *)
AccountHit(r, a) ==
    /\ req[r].pc = "ready"
    /\ req[r].seen[a].hash = Nil
    /\ Answers(EntryAt(r, a))
    /\ LET e == EntryAt(r, a)
       IN  req' = [req EXCEPT
              ![r] = AccountRead(@, a, e.balance, e.nonce, CodeOf(e))]
    /\ Keeps /\ UNCHANGED kv

(* On a miss it fetches nonce, balance and code, each with a call of its own,
   and stores a new entry. *)
AccountMiss(r, a) ==
    /\ req[r].pc = "ready"
    /\ req[r].seen[a].hash = Nil
    /\ ~Answers(EntryAt(r, a))
    /\ req' = [req EXCEPT
          ![r].pc = "nonce",
          ![r].op = [kind |-> "UpdateAccount", addr |-> a, entry |-> NoEntry]]
    /\ Keeps /\ UNCHANGED kv

FetchNonce(r) ==
    /\ req[r].pc = "nonce"
    /\ req' = [req EXCEPT
          ![r].pc = "balance",
          ![r].op.entry.nonce = NodeAt(r)[req[r].op.addr].nonce]
    /\ Keeps /\ UNCHANGED kv

FetchBalance(r) ==
    /\ req[r].pc = "balance"
    /\ req' = [req EXCEPT
          ![r].pc = "code",
          ![r].op.entry.balance = NodeAt(r)[req[r].op.addr].balance]
    /\ Keeps /\ UNCHANGED kv

FetchCode(r) ==
    /\ req[r].pc = "code"
    /\ req' = [req EXCEPT
          ![r].pc = "storeAccount",
          ![r].op.entry.code = NodeAt(r)[req[r].op.addr].code]
    /\ Keeps /\ UNCHANGED kv

StoreIn(r, op) == [kv EXCEPT ![req[r].db] = Written(op, @, @)]

StoreAccount(r) ==
    /\ req[r].pc = "storeAccount"
    /\ LET op == req[r].op
       IN  /\ kv' = StoreIn(r, op)
           /\ req' = [req EXCEPT
                 ![r] = AccountRead(@, op.addr, op.entry.balance, op.entry.nonce,
                                    op.entry.code)]
    /\ Keeps

(* ContractCode, called for an account with a code hash: its entry is in the
   store by then, so that fetching the code anew is never needed. *)
ReadCode(r, a) ==
    /\ req[r].pc = "ready"
    /\ req[r].seen[a].hash \notin {Nil, 0}
    /\ req[r].seen[a].code = Nil
    /\ req' = [req EXCEPT ![r].seen[a].code = CodeOf(EntryAt(r, a))]
    /\ Keeps /\ UNCHANGED kv

SlotUnread(r, a, k) ==
    /\ req[r].pc = "ready"
    /\ req[r].seen[a].hash \notin {Nil, 0}
    /\ req[r].seen[a].storage[k] = Nil

SlotKnown(e, k) == e # Missing /\ e.storage[k] # Nil

(* GetStorage answers from the store a slot it has. *)
SlotHit(r, a, k) ==
    /\ SlotUnread(r, a, k)
    /\ SlotKnown(EntryAt(r, a), k)
    /\ req' = [req EXCEPT ![r].seen[a].storage[k] = EntryAt(r, a).storage[k]]
    /\ Keeps /\ UNCHANGED kv

(* Otherwise it fetches the slot. *)
SlotMiss(r, a, k) ==
    /\ SlotUnread(r, a, k)
    /\ ~SlotKnown(EntryAt(r, a), k)
    /\ req' = [req EXCEPT
          ![r].pc = "slot",
          ![r].op = [kind |-> "UpdateStorage", addr |-> a, slot |-> k,
                     value |-> 0]]
    /\ Keeps /\ UNCHANGED kv

FetchSlot(r) ==
    /\ req[r].pc = "slot"
    /\ LET op == req[r].op
       IN  req' = [req EXCEPT
              ![r].pc = "storeSlot",
              ![r].op.value = NodeAt(r)[op.addr].storage[op.slot]]
    /\ Keeps /\ UNCHANGED kv

(* The request q once its StateDB has the slot. *)
SlotRead(q) ==
    [q EXCEPT !.pc = "ready",
              !.op = [kind |-> "none"],
              !.seen[q.op.addr].storage[q.op.slot] = q.op.value]

(* The slot is stored; an error of the commit is ignored. *)
StoreSlot(r) ==
    /\ req[r].pc = "storeSlot"
    /\ \/ kv' = StoreIn(r, req[r].op)
       \/ Failures /\ UNCHANGED kv
    /\ req' = [req EXCEPT ![r] = SlotRead(@)]
    /\ Keeps

(* Mutant: the zero of a failed fetch is stored like an answer. *)
FetchFailsStored(r) ==
    /\ Failures
    /\ req[r].pc = "slot"
    /\ req' = [req EXCEPT ![r].pc = "storeSlot"]
    /\ Keeps /\ UNCHANGED kv

(* The node does not answer: the StateDB notes the error, in a field nothing
   looks at, and goes on with an empty account or slot.  It keeps that only if
   the transaction makes an object of the account, or writes the slot; else
   the next read of either asks again. *)
FetchFails(r) ==
    /\ Failures
    /\ LET q == [req[r] EXCEPT !.failed = TRUE]
       IN  \/ /\ q.pc \in {"nonce", "balance", "code"}
              /\ req' = [req EXCEPT ![r] = AccountRead(q, q.op.addr, 0, 0, 0)]
           \/ /\ q.pc = "slot"
              /\ req' = [req EXCEPT ![r] = SlotRead(q)]
           \/ /\ q.pc \in {"nonce", "balance", "code", "slot"}
              /\ req' = [req EXCEPT
                    ![r] = [q EXCEPT !.pc = "ready", !.op = [kind |-> "none"]]]
    /\ Keeps /\ UNCHANGED kv

(* The answer is sent; a store of the request's own is left behind, open. *)
Finish(r) ==
    /\ req[r].pc = "ready"
    /\ req' = [req EXCEPT ![r] = NoRequest]
    /\ kv' = [kv EXCEPT ![r] = NoStore]
    /\ Keeps

-----------------------------------------------------------------------------
UpdateState == Poll \/ Receive \/ Process \/ SetHead

Serve(r) ==
    \/ Ask(r) \/ AskByHash(r) \/ HeadMatches(r) \/ ReturnHead(r) \/ AskNode(r) \/ AskFails(r)
    \/ Route(r)
    \/ FetchNonce(r) \/ FetchBalance(r) \/ FetchCode(r) \/ StoreAccount(r)
    \/ FetchSlot(r) \/ StoreSlot(r) \/ FetchFails(r) \/ Finish(r)
    \/ \E a \in Addrs :
        \/ AccountHit(r, a) \/ AccountMiss(r, a) \/ ReadCode(r, a)
        \/ \E k \in Slots : SlotHit(r, a, k) \/ SlotMiss(r, a, k)

Next == NewBlock \/ UpdateState \/ \E r \in Requests : Serve(r)

Spec == Init /\ [][Next]_vars

-----------------------------------------------------------------------------
(* Properties *)

Pcs == {"idle", "check", "return", "route", "ready", "nonce", "balance",
        "code", "storeAccount", "slot", "storeSlot"}

(* The chain, the stores and the requests hold values of their types; stored
   entries are as decodeAccount returns them; and a request that has read an
   account finds an entry for it, so ContractCode never misses. *)
TypeOK ==
    /\ chain \in [0..MaxHeight -> [Addrs -> ChainAccount]]
    /\ height \in 0..MaxHeight
    /\ blockHead \in 0..height
    /\ waiting \in BOOLEAN
    /\ work \in [pc : {"recv", "process", "setHead"}, num : 0..blockHead]
    /\ head \in {None} \cup 0..height
    /\ kv \in [Requests \cup {Live} -> [Addrs -> Entry \cup {Missing}]]
    /\ \A d \in Requests \cup {Live} : \A a \in Addrs :
            kv[d][a] # Missing => kv[d][a].nonce # 0 /\ kv[d][a].code # 0
    /\ \A r \in Requests :
        /\ req[r].pc \in Pcs
        /\ req[r].want \in {Latest} \cup 0..height
        /\ req[r].block \in {None} \cup 0..height
        /\ req[r].db \in {r, Live}
        /\ \A a \in Addrs :
            req[r].seen[a].hash \notin {Nil, 0} => EntryAt(r, a) # Missing

(* What a request has read of an account is what s says of it. *)
SeenAs(seen, s) ==
    /\ seen.hash # Nil => /\ seen.balance = s.balance
                          /\ seen.nonce = s.nonce
                          /\ seen.hash = s.code
    /\ seen.code \in {Nil, s.code}
    /\ \A k \in Slots : seen.storage[k] \in {Nil, s.storage[k]}

StoredAs(e, s) ==
    e # Missing => /\ SameFields(e, s)
                   /\ \A k \in Slots : e.storage[k] \in {Nil, s.storage[k]}

(* A request on a block older than the head, or made before there was a head,
   sees exactly the state after that block, whatever the feed and the other
   requests do meanwhile, in any order of reads, through the store and its
   encoding: unless a call to the node failed. *)
PinnedExact ==
    \A r \in Requests : req[r].db = r =>
        \A a \in Addrs :
            /\ StoredAs(kv[r][a], chain[req[r].block][a])
            /\ ~req[r].failed => SeenAs(req[r].seen[a], chain[req[r].block][a])

(* Each value a request on the live store is answered with was on the chain
   after some block: races, stale fills, skipped blocks, failed commits and
   the store's treatment of zeros may make it old, but never make it up; unless
   badger has refused a part of a block as too big. *)
NothingInvented ==
    \A r \in Requests : ~req[r].failed =>
        \A a \in Addrs :
            LET seen == req[r].seen[a]
                past == { chain[n][a] : n \in 0..height }
            IN  /\ seen.hash # Nil =>
                    /\ \E s \in past : seen.balance = s.balance
                    /\ \E s \in past : seen.nonce = s.nonce
                    /\ \E s \in past : seen.hash = s.code
                /\ seen.code # Nil => \E s \in past : seen.code = s.code
                /\ \A k \in Slots : seen.storage[k] # Nil =>
                        \E s \in past : seen.storage[k] = s.storage[k]

(* Whether all that block n changes fits in one transaction of badger. *)
Whole(n) == \A touched \in SUBSET Slots : TraceOf(n, touched) \notin BigBlocks

(* Committing block n, if it fits in a transaction, brings the entries of the
   accounts it touched to the state after n, whatever blocks before it were
   skipped or lost, accounts destroyed, and older or newer values left there by
   fills.  Except what the trace does not mention: slots the block cleared, a
   nonce or code that is zero after it, the balance of an account it destroyed
   and the unchanged balance of one it created. *)
BlockWritesFresh ==
    [][/\ work.pc = "process" /\ work'.pc = "setHead"
       /\ kv' # kv
       /\ Whole(work.num)
       => \A a \in Addrs :
            LET s == chain[work.num - 1][a]
                t == chain[work.num][a]
                e == kv'[Live][a]
            IN  s # t =>
                /\ t.nonce # 0 => e.nonce = t.nonce
                /\ t.code # 0 => e.code = t.code
                /\ InPre(s, t) /\ ~Destroyed(work.num, a) =>
                        e.balance = t.balance
                /\ \A k \in Slots : Changed(s, t, k) /\ t.storage[k] # 0 =>
                        e.storage[k] = t.storage[k]]_vars

(* Whatever the node fails to answer and badger to commit, requests on the
   live store leave nothing in it that the chain never had: a read that fails
   spoils the request that made it and no other. *)
StoreHonest ==
    \A a \in Addrs :
        LET e == kv[Live][a]
            past == { chain[n][a] : n \in 0..height }
        IN  e # Missing =>
                /\ e.balance = Nil \/ \E s \in past : e.balance = s.balance
                /\ e.nonce = Nil \/ \E s \in past : e.nonce = s.nonce
                /\ e.code = Nil \/ \E s \in past : e.code = s.code
                /\ \A k \in Slots : e.storage[k] = Nil \/
                        \E s \in past : e.storage[k] = s.storage[k]

(* The head may move between BlockByNumber's test of it and its return, so a
   request may get a later block than it asked for, but never an earlier
   one. *)
BlockNotOlder ==
    \A r \in Requests :
        req[r].block # None /\ req[r].want # Latest =>
            req[r].block >= req[r].want

(* CallBundle's comment: a bundle is simulated "with the state of another (or
   the same) block", that is of one block. *)
ReadsOneBlock ==
    \A r \in Requests : ~req[r].failed =>
        \E n \in 0..height : \A a \in Addrs : SeenAs(req[r].seen[a], chain[n][a])
=============================================================================
