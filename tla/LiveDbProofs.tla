----------------------------- MODULE LiveDbProofs -----------------------------
(***************************************************************************)
(* Machine-checked proofs about the block and the state a request gets,    *)
(* for any number of requests, blocks, accounts and slots, with failing    *)
(* calls and commits, beside a feed that commits and publishes blocks.     *)
(* A first invariant is about requests on older blocks, a second one, on   *)
(* top of it, about the store that the others share; the last part is      *)
(* about what the commit of a block leaves in it.                          *)
(***************************************************************************)
EXTENDS LiveDb, AccountProofs, TLAPS

(* Of the feed: the head only moves to blocks that exist, and up. *)
FeedOK ==
    /\ blockHead \in 0..height
    /\ work.num \in 0..blockHead
    /\ head \in {None} \cup 0..work.num

ChainOK ==
    /\ height \in 0..MaxHeight
    /\ chain \in [0..MaxHeight -> [Addrs -> ChainAccount]]

Fields == DOMAIN NoRequest

Undecided == {"idle", "check", "return"}

(* The block of a request is chosen once, and is not older than asked for. *)
BlockOK(q) ==
    /\ q.want \in {Latest} \cup 0..height
    /\ q.pc \in Undecided => q.block = None
    /\ q.pc \notin Undecided => q.block \in 0..height
    /\ q.pc = "return" => /\ head # None
                          /\ q.want # Latest => head >= q.want
    /\ q.block # None /\ q.want # Latest => q.block >= q.want

(* Until it is given a database it has read nothing. *)
FreshOK(q) ==
    q.pc \in Undecided \cup {"route"} =>
        /\ q.db = Live
        /\ q.failed = FALSE
        /\ q.seen = [a \in Addrs |-> Unread]

SeenAccount == [balance : MaybeValue, nonce : MaybeValue, hash : MaybeValue,
                code : MaybeValue, storage : [Slots -> MaybeValue]]

AccountPcs == {"nonce", "balance", "code", "storeAccount"}
SlotPcs == {"slot", "storeSlot"}

(* The write op of a request on the state s holds what the node has answered
   so far. *)
OpOK(pc, op, s) ==
    /\ pc \in AccountPcs =>
        /\ op \in [kind : {"UpdateAccount"}, addr : Addrs, entry : Entry]
        /\ \A k \in Slots : op.entry.storage[k] = Nil
        /\ pc # "nonce" => op.entry.nonce = s[op.addr].nonce
        /\ pc \notin {"nonce", "balance"} => op.entry.balance = s[op.addr].balance
        /\ pc = "storeAccount" => op.entry.code = s[op.addr].code
    /\ pc \in SlotPcs =>
        /\ op \in [kind : {"UpdateStorage"}, addr : Addrs, slot : Slots,
                   value : Value]
        /\ pc = "storeSlot" => op.value = s[op.addr].storage[op.slot]

StoreOK(store, s) ==
    /\ store \in [Addrs -> Entry \cup {Missing}]
    /\ \A a \in Addrs : StoredAs(store[a], s[a])

(* No fetch has failed. *)
Clean(failed) == failed = FALSE

(* It has read the state s, and accounts with code are in its store. *)
SeenOK(seen, failed, store, s) ==
    /\ seen \in [Addrs -> SeenAccount]
    /\ \A a \in Addrs :
        /\ Clean(failed) => SeenAs(seen[a], s[a])
        /\ seen[a].hash \notin {Nil, 0} => store[a] # Missing

PinnedOK(q, store, s) ==
    /\ OpOK(q.pc, q.op, s)
    /\ StoreOK(store, s)
    /\ q.failed \in BOOLEAN
    /\ SeenOK(q.seen, q.failed, store, s)

RequestOK(r) ==
    /\ DOMAIN req[r] = Fields
    /\ req[r].db \in {r, Live}
    /\ BlockOK(req[r])
    /\ FreshOK(req[r])
    /\ req[r].db = Live => kv[r] = NoStore
    /\ req[r].db = r => PinnedOK(req[r], kv[r], chain[req[r].block])

IInv ==
    /\ ChainOK
    /\ FeedOK
    /\ req = [r \in Requests |-> req[r]]
    /\ kv = [d \in Requests \cup {Live} |-> kv[d]]
    /\ \A r \in Requests : RequestOK(r)

-----------------------------------------------------------------------------
(* The node and the feed *)

LEMMA SuccessorsType ==
  ASSUME NEW s \in ChainAccount, NEW v \in Nat
  PROVE  Successors(s, v) \subseteq ChainAccount
  <1>1. /\ [s EXCEPT !.balance = v] \in ChainAccount
        /\ [s EXCEPT !.nonce = v, !.balance = v] \in ChainAccount
        /\ [s EXCEPT !.nonce = v, !.code = v] \in ChainAccount
        /\ \A k \in Slots : /\ [s EXCEPT !.storage[k] = v] \in ChainAccount
                            /\ [s EXCEPT !.storage[k] = 0] \in ChainAccount
        /\ EmptyAccount \in ChainAccount
    BY DEF ChainAccount, EmptyAccount, Value
  <1>2. SUFFICES ASSUME NEW t \in Successors(s, v) PROVE t \in ChainAccount
    OBVIOUS
  <1>3. \/ t \in { [s EXCEPT !.balance = v], [s EXCEPT !.nonce = v, !.balance = v],
                   [s EXCEPT !.nonce = v, !.code = v], EmptyAccount }
        \/ \E k \in Slots : \/ t = [s EXCEPT !.storage[k] = v]
                            \/ t = [s EXCEPT !.storage[k] = 0]
    <2>1. PICK c \in Changes : t \in Effects(s, v)[c]
      BY DEF Successors
    <2>2. c \in {"transfer", "send", "create", "spawn", "set", "clear", "destroy"}
      BY LiveDbAssumption
    <2>3. CASE c = "transfer"
      BY <2>1, <2>3 DEF Effects
    <2>4. CASE c = "send"
      BY <2>1, <2>4 DEF Effects
    <2>5. CASE c = "create"
      BY <2>1, <2>5 DEF Effects
    <2>6. CASE c = "set"
      BY <2>1, <2>6 DEF Effects
    <2>7. CASE c = "clear"
      BY <2>1, <2>7 DEF Effects
    <2>8. CASE c = "destroy"
      BY <2>1, <2>8 DEF Effects
    <2>9. CASE c = "spawn"
      BY <2>1, <2>9 DEF Effects
    <2>10. QED
      BY <2>2, <2>3, <2>4, <2>5, <2>6, <2>7, <2>8, <2>9
  <1>4. QED
    BY <1>1, <1>3

LEMMA InitHolds == Init => IInv
  <1> SUFFICES ASSUME Init PROVE IInv
    OBVIOUS
  <1>1. ChainOK
    BY LiveDbAssumption DEF Init, ChainOK
  <1>2. FeedOK
    BY DEF Init, Feed!Init, FeedOK, None
  <1>3. ASSUME NEW r \in Requests PROVE RequestOK(r)
    <2>1. req[r] = NoRequest /\ kv[r] = NoStore
      BY DEF Init
    <2>2. NoRequest.db # r
      BY LiveDbAssumption DEF NoRequest
    <2>3. QED
      BY <2>1, <2>2 DEF RequestOK, Fields, BlockOK, FreshOK, NoRequest, Undecided,
         Latest, None
  <1>4. QED
    BY <1>1, <1>2, <1>3 DEF IInv, Init

(* A new block changes nothing up to the last height. *)
LEMMA NewBlockKeeps ==
  ASSUME IInv, NewBlock
  PROVE  IInv'
  <1>1. ChainOK'
    <2>1. height \in Nat /\ height + 1 \in 0..MaxHeight
      BY LiveDbAssumption DEF IInv, ChainOK, NewBlock
    <2>2. chain[height] \in [Addrs -> ChainAccount]
      BY <2>1 DEF IInv, ChainOK
    <2>3. PICK touched \in (SUBSET Addrs) \ {{}} :
            \E world \in [touched -> UNION { Successors(chain[height][a], height + 2) :
                                              a \in touched }] :
                /\ \A a \in touched :
                        world[a] \in Successors(chain[height][a], height + 2)
                /\ chain' = [n \in 0..MaxHeight |->
                                IF n <= height THEN chain[n]
                                ELSE [a \in Addrs |-> IF a \in touched THEN world[a]
                                                      ELSE chain[height][a]]]
      BY Zenon DEF NewBlock
    <2>8. PICK world :
            /\ \A a \in touched :
                    world[a] \in Successors(chain[height][a], height + 2)
            /\ chain' = [n \in 0..MaxHeight |->
                            IF n <= height THEN chain[n]
                            ELSE [a \in Addrs |-> IF a \in touched THEN world[a]
                                                  ELSE chain[height][a]]]
      BY <2>3, Zenon
    <2>4. \A a \in touched : world[a] \in ChainAccount
      BY <2>1, <2>2, <2>8, SuccessorsType
    <2>5. [a \in Addrs |-> IF a \in touched THEN world[a] ELSE chain[height][a]]
             \in [Addrs -> ChainAccount]
      BY <2>2, <2>4
    <2>6. QED
      BY <2>1, <2>8, <2>5 DEF IInv, ChainOK, NewBlock
  <1>2. \A n \in 0..height : chain'[n] = chain[n]
    BY LiveDbAssumption DEF IInv, ChainOK, NewBlock
  <1>3. FeedOK'
    BY DEF IInv, ChainOK, FeedOK, NewBlock, feedVars
  <1>4. ASSUME NEW r \in Requests PROVE RequestOK(r)'
    <2>1. RequestOK(r) /\ UNCHANGED <<req, kv, head>>
      BY DEF IInv, NewBlock, feedVars
    <2>2. BlockOK(req[r])'
      BY <2>1 DEF IInv, ChainOK, RequestOK, BlockOK, NewBlock
    <2>3. ASSUME req[r].db = r PROVE chain'[req[r].block] = chain[req[r].block]
      <3>1. req[r].pc \notin Undecided
        BY <2>1, <2>3, LiveDbAssumption DEF RequestOK, FreshOK
      <3>2. QED
        BY <2>1, <3>1, <1>2 DEF RequestOK, BlockOK
    <2>4. QED
      BY <2>1, <2>2, <2>3 DEF RequestOK, FreshOK
  <1>5. QED
    BY <1>1, <1>3, <1>4 DEF IInv, NewBlock

(* The feed writes to the shared store only, and the head goes up. *)
LEMMA FeedKeeps ==
  ASSUME IInv, UpdateState
  PROVE  IInv'
  <1>1. UNCHANGED <<chain, height, req>>
    BY DEF UpdateState, Poll, Receive, Process, SetHead
  <1>2. kv' = [d \in Requests \cup {Live} |-> kv'[d]] /\ \A r \in Requests : kv'[r] = kv[r]
    BY LiveDbAssumption DEF UpdateState, Poll, Receive, Process, SetHead, IInv
  <1>3. FeedOK' /\ (head # None => head' # None /\ head' >= head)
    <2> USE DEF FeedOK, IInv, ChainOK, None
    <2>1. CASE Poll
      BY <2>1, LiveDbAssumption DEF Poll, Feed!Count
    <2>2. CASE Receive
      BY <2>2 DEF Receive, Feed!Hand
    <2>3. CASE Process
      <3>1. work'.num = work.num /\ UNCHANGED <<blockHead, head, height>>
        BY <2>3 DEF Process, Feed!Commit
      <3>2. QED
        BY <3>1
    <2>4. CASE SetHead
      <3>1. work'.num = work.num /\ head' = work.num /\ UNCHANGED <<blockHead, height>>
        BY <2>4 DEF SetHead, Feed!Publish
      <3>2. QED
        BY <3>1
    <2>5. QED
      BY <2>1, <2>2, <2>3, <2>4 DEF UpdateState
  <1>4. ASSUME NEW r \in Requests PROVE RequestOK(r)'
    <2>1. RequestOK(r)
      BY DEF IInv
    <2>2. BlockOK(req[r])'
      BY <1>1, <1>3, <2>1 DEF RequestOK, BlockOK, IInv, FeedOK, Latest, None
    <2>3. QED
      BY <1>1, <1>2, <2>1, <2>2 DEF RequestOK, FreshOK
  <1>5. QED
    BY <1>1, <1>2, <1>3, <1>4 DEF IInv, ChainOK

-----------------------------------------------------------------------------
(* Choosing a block and a database *)

(* A step that changes one request, and no store but its own and the shared
   one, is to be looked at for that request only. *)
LEMMA OthersKept ==
  ASSUME IInv, NEW r \in Requests, Keeps,
         req' = [x \in Requests |-> req'[x]],
         kv' = [d \in Requests \cup {Live} |-> kv'[d]],
         \A x \in Requests \ {r} : req'[x] = req[x] /\ kv'[x] = kv[x],
         RequestOK(r)'
  PROVE  IInv'
  <1>1. ChainOK' /\ FeedOK'
    BY DEF IInv, ChainOK, FeedOK, Keeps, feedVars
  <1>2. ASSUME NEW x \in Requests \ {r} PROVE RequestOK(x)'
    <2>1. /\ RequestOK(x)
          /\ req'[x] = req[x] /\ kv'[x] = kv[x]
          /\ UNCHANGED <<chain, height, head>>
      BY DEF IInv, Keeps, feedVars
    <2>2. QED
      BY <2>1 DEF RequestOK, BlockOK, FreshOK
  <1>3. QED
    BY <1>1, <1>2 DEF IInv

(* While its block is being chosen a request has no store. *)
LEMMA DecidingKeeps ==
  ASSUME IInv, NEW r \in Requests, Keeps, UNCHANGED kv, NEW q,
         req' = [req EXCEPT ![r] = q],
         DOMAIN q = Fields, BlockOK(q), FreshOK(q),
         req[r].pc \in Undecided,
         q.pc \in Undecided \cup {"route"}
  PROVE  IInv'
  <1>1. /\ req' = [x \in Requests |-> req'[x]]
        /\ kv' = [d \in Requests \cup {Live} |-> kv'[d]]
        /\ \A x \in Requests \ {r} : req'[x] = req[x]
        /\ req'[r] = q
    BY DEF IInv
  <1>2. req[r].db = Live /\ kv[r] = NoStore /\ q.db = Live
    BY DEF IInv, RequestOK, FreshOK
  <1>3. RequestOK(r)'
    <2>1. BlockOK(req[r])' /\ FreshOK(req[r])'
      BY <1>1 DEF BlockOK, FreshOK, Keeps, feedVars
    <2>2. QED
      BY <1>1, <1>2, <2>1, LiveDbAssumption DEF RequestOK
  <1>4. QED
    BY <1>1, <1>3, OthersKept

LEMMA AskKeeps ==
  ASSUME IInv, NEW r \in Requests,
         \/ Ask(r) \/ AskByHash(r) \/ HeadMatches(r) \/ ReturnHead(r)
         \/ AskNode(r) \/ AskFails(r)
  PROVE  IInv'
  <1> DEFINE old == req[r]
  <1>1. Keeps /\ UNCHANGED kv
    BY DEF Ask, AskByHash, HeadMatches, ReturnHead, AskNode, AskFails
  <1>2. old.pc \in Undecided
    BY DEF Ask, AskByHash, HeadMatches, ReturnHead, AskNode, AskFails, Undecided
  <1>3. /\ height \in Nat
        /\ head \in {None} \cup 0..height
    BY LiveDbAssumption DEF IInv, ChainOK, FeedOK
  <1>4. /\ DOMAIN old = Fields
        /\ old.block = None
        /\ old.want \in {Latest} \cup 0..height
        /\ old.pc = "return" => /\ head # None
                                /\ old.want # Latest => head >= old.want
        /\ old.db = Live
        /\ old.failed = FALSE
        /\ old.seen = [a \in Addrs |-> Unread]
    BY <1>2 DEF IInv, RequestOK, BlockOK, FreshOK
  <1> HIDE DEF old
  <1>5. ASSUME NEW want \in {Latest} \cup 0..height,
               req' = [req EXCEPT ![r] = [old EXCEPT !.pc = "check", !.want = want]]
        PROVE  IInv'
    <2> DEFINE q == [old EXCEPT !.pc = "check", !.want = want]
    <2>1. /\ DOMAIN q = Fields /\ q.pc = "check" /\ q.want = want
          /\ q.block = None /\ q.db = Live /\ q.failed = FALSE
          /\ q.seen = [a \in Addrs |-> Unread]
      BY <1>4 DEF Fields, NoRequest
    <2> HIDE DEF q
    <2>2. BlockOK(q) /\ FreshOK(q)
      BY <1>3, <2>1 DEF BlockOK, FreshOK, Undecided, None, Latest
    <2>3. QED
      BY <1>1, <1>2, <1>5, <2>1, <2>2, DecidingKeeps DEF q, old, Undecided
  <1>6. ASSUME NEW block \in 0..height, NEW want \in {Latest} \cup 0..height,
               want # Latest => block >= want,
               req' = [req EXCEPT ![r] = [old EXCEPT !.pc = "route", !.want = want,
                                                     !.block = block]]
        PROVE  IInv'
    <2> DEFINE q == [old EXCEPT !.pc = "route", !.want = want, !.block = block]
    <2>1. /\ DOMAIN q = Fields /\ q.pc = "route" /\ q.want = want
          /\ q.block = block /\ q.db = Live /\ q.failed = FALSE
          /\ q.seen = [a \in Addrs |-> Unread]
      BY <1>4 DEF Fields, NoRequest
    <2> HIDE DEF q
    <2>2. BlockOK(q) /\ FreshOK(q)
      BY <1>3, <1>6, <2>1 DEF BlockOK, FreshOK, Undecided, None, Latest
    <2>3. QED
      BY <1>1, <1>2, <1>6, <2>1, <2>2, DecidingKeeps DEF q, old, Undecided
  <1>7. CASE Ask(r)
    <2>1. PICK want \in {Latest} \cup 0..height :
            req' = [req EXCEPT ![r].pc = "check", ![r].want = want]
      BY <1>7 DEF Ask
    <2>2. req' = [req EXCEPT ![r] = [old EXCEPT !.pc = "check", !.want = want]]
      BY <2>1 DEF old
    <2>3. QED
      BY <1>5, <2>2
  <1>8. CASE AskByHash(r)
    <2>1. PICK n \in 0..height :
            req' = [req EXCEPT ![r].pc = "route", ![r].want = n, ![r].block = n]
      BY <1>8 DEF AskByHash
    <2>2. req' = [req EXCEPT ![r] = [old EXCEPT !.pc = "route", !.want = n,
                                                !.block = n]]
      BY <2>1 DEF old
    <2>3. n >= n
      BY <1>3
    <2>4. QED
      BY <1>6, <2>2, <2>3
  <1>9. CASE HeadMatches(r)
    <2> DEFINE q == [old EXCEPT !.pc = "return"]
    <2>1. /\ DOMAIN q = Fields /\ q.pc = "return" /\ q.want = old.want
          /\ q.block = None /\ q.db = Live /\ q.failed = FALSE
          /\ q.seen = [a \in Addrs |-> Unread]
      BY <1>4 DEF Fields, NoRequest
    <2>2. req' = [req EXCEPT ![r] = q] /\ head # None /\ old.want \in {Latest, head}
      BY <1>9 DEF HeadMatches, Goto, old
    <2> HIDE DEF q
    <2>3. BlockOK(q) /\ FreshOK(q)
      BY <1>3, <1>4, <2>1, <2>2 DEF BlockOK, FreshOK, Undecided, None, Latest
    <2>4. QED
      BY <1>1, <1>2, <2>1, <2>2, <2>3, DecidingKeeps DEF old, Undecided
  <1>10. CASE ReturnHead(r)
    <2>1. /\ req' = [req EXCEPT ![r].pc = "route", ![r].block = head]
          /\ old.pc = "return"
      BY <1>10 DEF ReturnHead, old
    <2>2. req' = [req EXCEPT ![r] = [old EXCEPT !.pc = "route", !.want = old.want,
                                                !.block = head]]
      BY <1>4, <2>1 DEF old, Fields, NoRequest
    <2>3. QED
      BY <1>3, <1>4, <1>6, <2>1, <2>2
  <1>11. CASE AskNode(r)
    <2> DEFINE block == IF old.want = Latest THEN height ELSE old.want
    <2>1. req' = [req EXCEPT ![r].pc = "route", ![r].block = block]
      BY <1>11 DEF AskNode, old
    <2>2. req' = [req EXCEPT ![r] = [old EXCEPT !.pc = "route", !.want = old.want,
                                                !.block = block]]
      BY <1>4, <2>1 DEF old, Fields, NoRequest
    <2>3. block \in 0..height /\ (old.want # Latest => block >= old.want)
      BY <1>3, <1>4
    <2>4. QED
      BY <1>4, <1>6, <2>2, <2>3
  <1>12. CASE AskFails(r)
    <2>1. BlockOK(NoRequest) /\ FreshOK(NoRequest)
      BY DEF BlockOK, FreshOK, NoRequest, Undecided, None, Latest
    <2>2. QED
      BY <1>1, <1>2, <1>12, <2>1, DecidingKeeps DEF AskFails, NoRequest, Undecided, Fields, old
  <1>13. QED
    BY <1>7, <1>8, <1>9, <1>10, <1>11, <1>12

(* A request that starts on a store of its own has it empty. *)
LEMMA RouteKeeps ==
  ASSUME IInv, NEW r \in Requests, Route(r)
  PROVE  IInv'
  <1>1. /\ Keeps /\ UNCHANGED kv
        /\ req' = [x \in Requests |-> req'[x]]
        /\ kv' = [d \in Requests \cup {Live} |-> kv'[d]]
        /\ \A x \in Requests \ {r} : req'[x] = req[x]
    BY DEF IInv, Route, Keeps
  <1>2. /\ RequestOK(r)
        /\ req[r].pc = "route"
        /\ UNCHANGED <<height, chain, head>>
    BY DEF IInv, Route, Keeps, feedVars
  <1>3. /\ req[r].seen = [a \in Addrs |-> Unread]
        /\ req[r].failed = FALSE
        /\ kv[r] = NoStore
    BY <1>2 DEF RequestOK, FreshOK
  <1>4. /\ DOMAIN req'[r] = Fields
        /\ req'[r].pc = "ready"
        /\ req'[r].db \in {r, Live}
        /\ UNCHANGED <<req[r].want, req[r].block, req[r].seen, req[r].failed>>
    BY <1>2 DEF IInv, RequestOK, Route, Fields, NoRequest
  <1>5. BlockOK(req[r])'
    BY <1>2, <1>4 DEF RequestOK, BlockOK, Undecided
  <1>6. PinnedOK(req'[r], kv[r], chain[req[r].block])
    <2>1. OpOK("ready", req'[r].op, chain[req[r].block])
      BY DEF OpOK, AccountPcs, SlotPcs
    <2>2. StoreOK(kv[r], chain[req[r].block])
      BY <1>3 DEF StoreOK, NoStore, StoredAs
    <2>3. SeenOK(req[r].seen, FALSE, kv[r], chain[req[r].block])
      <3>1. Unread \in SeenAccount /\ Unread.hash = Nil
        BY DEF Unread, SeenAccount, MaybeValue
      <3>2. \A t : SeenAs(Unread, t)
        BY DEF SeenAs, Unread
      <3>3. QED
        BY <1>3, <3>1, <3>2 DEF SeenOK
    <2>4. QED
      BY <1>3, <1>4, <2>1, <2>2, <2>3 DEF PinnedOK
  <1>7. RequestOK(r)'
    BY <1>1, <1>2, <1>3, <1>4, <1>5, <1>6 DEF RequestOK, FreshOK, Undecided
  <1>8. QED
    BY <1>1, <1>7, OthersKept

LEMMA FinishKeeps ==
  ASSUME IInv, NEW r \in Requests, Finish(r)
  PROVE  IInv'
  <1>1. /\ Keeps
        /\ req' = [x \in Requests |-> req'[x]]
        /\ kv' = [d \in Requests \cup {Live} |-> kv'[d]]
        /\ \A x \in Requests \ {r} : req'[x] = req[x] /\ kv'[x] = kv[x]
        /\ req'[r] = NoRequest /\ kv'[r] = NoStore
    BY DEF IInv, Finish
  <1>2. RequestOK(r)'
    <2>1. NoRequest.db # r
      BY LiveDbAssumption DEF NoRequest
    <2>2. QED
      BY <1>1, <2>1 DEF RequestOK, Fields, BlockOK, FreshOK, NoRequest, Undecided,
         Latest, None
  <1>3. QED
    BY <1>1, <1>2, OthersKept

-----------------------------------------------------------------------------
(* Reading on a state s: what is stored and what is read of it. *)

LEMMA StoreAccountOK ==
  ASSUME NEW s \in [Addrs -> ChainAccount], NEW store, StoreOK(store, s),
         NEW op, OpOK("storeAccount", op, s)
  PROVE  /\ StoreOK(Written(op, store, store), s)
         /\ Written(op, store, store)[op.addr] # Missing
         /\ \A a \in Addrs : store[a] # Missing => Written(op, store, store)[a] # Missing
  <1> DEFINE a == op.addr
             e == Encoded(op.entry)
  <1>1. /\ op \in [kind : {"UpdateAccount"}, addr : Addrs, entry : Entry]
        /\ \A k \in Slots : op.entry.storage[k] = Nil
        /\ op.entry.nonce = s[a].nonce
        /\ op.entry.balance = s[a].balance
        /\ op.entry.code = s[a].code
    BY DEF OpOK, AccountPcs
  <1>2. Writes(op) = {a}
    BY <1>1 DEF Writes
  <1>3. NewEntry(op, a, store[a]) = e
    BY <1>1 DEF NewEntry, Overwritten
  <1>4. e \in Entry /\ e # Missing
    BY <1>1, StoredForm, MissingAssumption
  <1>5. StoredAs(e, s[a])
    <2>1. s[a] \in ChainAccount
      BY <1>1
    <2>2. QED
      BY <1>1, <2>1 DEF StoredAs, SameFields, Encoded, CodeOf, OmitZero, ChainAccount,
         Value, Nil
  <1>6. Written(op, store, store) = [store EXCEPT ![a] = e]
    BY <1>2, <1>3 DEF Written, StoreOK
  <1>7. QED
    <2> HIDE DEF e
    <2>1. QED
      BY <1>1, <1>4, <1>5, <1>6 DEF StoreOK

LEMMA StoreSlotOK ==
  ASSUME NEW s \in [Addrs -> ChainAccount], NEW store, StoreOK(store, s),
         NEW op, OpOK("storeSlot", op, s)
  PROVE  /\ StoreOK(Written(op, store, store), s)
         /\ \A a \in Addrs : store[a] # Missing => Written(op, store, store)[a] # Missing
  <1> DEFINE a == op.addr
             e == [store[a] EXCEPT !.storage[op.slot] = op.value]
             n == WithStorage(store[a], op.slot, op.value)
  <1>1. /\ op \in [kind : {"UpdateStorage"}, addr : Addrs, slot : Slots, value : Value]
        /\ op.value = s[a].storage[op.slot]
    BY DEF OpOK, SlotPcs
  <1>2. Writes(op) = {a}
    BY <1>1 DEF Writes
  <1>3. NewEntry(op, a, store[a]) = n
    BY <1>1 DEF NewEntry
  <1>4. Written(op, store, store) = [store EXCEPT ![a] = n]
    BY <1>2, <1>3 DEF Written, StoreOK
  <1>5. store[a] \in Entry \cup {Missing} /\ StoredAs(store[a], s[a])
    BY <1>1 DEF StoreOK
  <1>6. CASE store[a] = Missing
    <2>1. n = Missing
      BY <1>6 DEF WithStorage
    <2>2. QED
      BY <1>1, <1>4, <1>6, <2>1 DEF StoreOK, StoredAs
  <1>7. CASE store[a] # Missing
    <2>1. n = Encoded(e)
      BY <1>7 DEF WithStorage
    <2>2. /\ e \in Entry
          /\ e.nonce = store[a].nonce /\ e.balance = store[a].balance
          /\ e.code = store[a].code
          /\ \A k \in Slots : e.storage[k] = IF k = op.slot THEN op.value
                                             ELSE store[a].storage[k]
      BY <1>1, <1>5, <1>7 DEF Entry, MaybeValue
    <2> HIDE DEF e, n
    <2>3. n \in Entry /\ n # Missing
      BY <2>1, <2>2, StoredForm, MissingAssumption
    <2>4. /\ n.balance = e.balance
          /\ n.nonce = OmitZero(e.nonce)
          /\ n.code = OmitZero(e.code)
          /\ n.storage = e.storage
      BY <2>1 DEF Encoded
    <2>5. SameFields(store[a], s[a])
      BY <1>5, <1>7 DEF StoredAs
    <2>6. s[a] \in ChainAccount
      BY <1>1
    <2>7. SameFields(n, s[a])
      BY <2>2, <2>4, <2>5, <2>6 DEF SameFields, CodeOf, OmitZero, ChainAccount, Value, Nil
    <2>8. \A k \in Slots : n.storage[k] \in {Nil, s[a].storage[k]}
      BY <1>1, <1>5, <1>7, <2>2, <2>4 DEF StoredAs
    <2>9. StoredAs(n, s[a])
      BY <2>7, <2>8 DEF StoredAs
    <2>10. QED
      BY <1>1, <1>4, <2>3, <2>9 DEF StoreOK
  <1>8. QED
    BY <1>6, <1>7

NewSeen(seen, a, balance, nonce, code) ==
    [seen EXCEPT ![a].balance = balance, ![a].nonce = nonce, ![a].hash = code]

LEMMA AccountReadFields ==
  ASSUME NEW q, DOMAIN q = Fields, NEW a, NEW balance, NEW nonce, NEW code
  PROVE  LET n == AccountRead(q, a, balance, nonce, code)
         IN  /\ DOMAIN n = Fields /\ n.pc = "ready"
             /\ n.db = q.db /\ n.want = q.want /\ n.block = q.block
             /\ n.failed = q.failed
             /\ n.seen = NewSeen(q.seen, a, balance, nonce, code)
  BY DEF AccountRead, NewSeen, Fields, NoRequest

LEMMA AccountReadOK ==
  ASSUME NEW s \in [Addrs -> ChainAccount], NEW store, NEW seen, NEW failed,
         SeenOK(seen, failed, store, s),
         NEW a \in Addrs, NEW balance \in MaybeValue, NEW nonce \in MaybeValue,
         NEW code \in MaybeValue,
         code # 0 => store[a] # Missing,
         NEW mark,
         Clean(mark) => /\ Clean(failed)
                        /\ balance = s[a].balance
                        /\ nonce = s[a].nonce
                        /\ code = s[a].code
  PROVE  SeenOK(NewSeen(seen, a, balance, nonce, code), mark, store, s)
  <1> DEFINE new == NewSeen(seen, a, balance, nonce, code)
  <1>1. /\ seen \in [Addrs -> SeenAccount]
        /\ \A b \in Addrs : seen[b].hash \notin {Nil, 0} => store[b] # Missing
        /\ Clean(mark) => \A b \in Addrs : SeenAs(seen[b], s[b])
    BY DEF SeenOK
  <1>2. /\ \A b \in Addrs \ {a} : new[b] = seen[b]
        /\ DOMAIN new = Addrs
        /\ new[a] = [balance |-> balance, nonce |-> nonce, hash |-> code,
                     code |-> seen[a].code, storage |-> seen[a].storage]
    BY <1>1 DEF SeenAccount, NewSeen
  <1> HIDE DEF new
  <1>3. new[a] \in SeenAccount
    BY <1>1, <1>2 DEF SeenAccount
  <1>4. new \in [Addrs -> SeenAccount]
    <2>1. new = [b \in Addrs |-> IF b = a THEN new[a] ELSE seen[b]]
      <3>1. new = [b \in DOMAIN new |-> new[b]]
        BY DEF new, NewSeen
      <3>2. QED
        BY <1>2, <3>1
    <2>2. QED
      BY <1>1, <1>3, <2>1
  <1>5. Clean(mark) => SeenAs(new[a], s[a])
    BY <1>1, <1>2 DEF SeenAs
  <1>6. new[a].hash \notin {Nil, 0} => store[a] # Missing
    BY <1>2
  <1>7. QED
    BY <1>1, <1>2, <1>4, <1>5, <1>6 DEF SeenOK, new

NewSlot(seen, a, k, v) == [seen EXCEPT ![a].storage[k] = v]

LEMMA SlotReadOK ==
  ASSUME NEW s \in [Addrs -> ChainAccount], NEW store, NEW seen, NEW failed,
         SeenOK(seen, failed, store, s),
         NEW a \in Addrs, NEW k \in Slots, NEW v \in MaybeValue,
         NEW mark,
         Clean(mark) => Clean(failed) /\ v \in {Nil, s[a].storage[k]}
  PROVE  SeenOK(NewSlot(seen, a, k, v), mark, store, s)
  <1> DEFINE new == NewSlot(seen, a, k, v)
  <1>1. /\ seen \in [Addrs -> SeenAccount]
        /\ \A b \in Addrs : seen[b].hash \notin {Nil, 0} => store[b] # Missing
        /\ Clean(mark) => \A b \in Addrs : SeenAs(seen[b], s[b])
    BY DEF SeenOK
  <1>2. /\ \A b \in Addrs \ {a} : new[b] = seen[b]
        /\ new[a] = [seen[a] EXCEPT !.storage = [seen[a].storage EXCEPT ![k] = v]]
    BY <1>1 DEF NewSlot
  <1>3. new \in [Addrs -> SeenAccount]
    BY <1>1 DEF SeenAccount, NewSlot
  <1>4. /\ new[a].balance = seen[a].balance /\ new[a].nonce = seen[a].nonce
        /\ new[a].hash = seen[a].hash /\ new[a].code = seen[a].code
        /\ \A x \in Slots : new[a].storage[x] = IF x = k THEN v ELSE seen[a].storage[x]
    BY <1>1, <1>2 DEF SeenAccount
  <1> HIDE DEF new
  <1>5. Clean(mark) => SeenAs(new[a], s[a])
    BY <1>1, <1>4 DEF SeenAs
  <1>6. QED
    BY <1>1, <1>2, <1>3, <1>4, <1>5 DEF SeenOK, new

NewCode(seen, a, code) == [seen EXCEPT ![a].code = code]

LEMMA CodeReadOK ==
  ASSUME NEW s \in [Addrs -> ChainAccount], NEW store, NEW seen, NEW failed,
         SeenOK(seen, failed, store, s), StoreOK(store, s),
         NEW a \in Addrs, seen[a].hash \notin {Nil, 0}
  PROVE  SeenOK(NewCode(seen, a, CodeOf(store[a])), failed, store, s)
  <1> DEFINE v == CodeOf(store[a])
             new == NewCode(seen, a, v)
  <1>1. /\ seen \in [Addrs -> SeenAccount]
        /\ \A b \in Addrs : seen[b].hash \notin {Nil, 0} => store[b] # Missing
        /\ Clean(failed) => \A b \in Addrs : SeenAs(seen[b], s[b])
    BY DEF SeenOK
  <1>2. v = s[a].code /\ v \in MaybeValue
    <2>1. store[a] # Missing /\ StoredAs(store[a], s[a]) /\ s[a] \in ChainAccount
      BY <1>1 DEF StoreOK
    <2>2. QED
      BY <2>1 DEF StoredAs, SameFields, ChainAccount, MaybeValue
  <1> HIDE DEF v
  <1>3. /\ new \in [Addrs -> SeenAccount]
        /\ \A b \in Addrs \ {a} : new[b] = seen[b]
        /\ new[a] = [seen[a] EXCEPT !.code = v]
    BY <1>1, <1>2 DEF SeenAccount, NewCode
  <1>4. /\ new[a].balance = seen[a].balance /\ new[a].nonce = seen[a].nonce
        /\ new[a].hash = seen[a].hash /\ new[a].code = v
        /\ new[a].storage = seen[a].storage
    BY <1>1, <1>3 DEF SeenAccount
  <1> HIDE DEF new
  <1>5. Clean(failed) => SeenAs(new[a], s[a])
    BY <1>1, <1>2, <1>4 DEF SeenAs
  <1>6. QED
    BY <1>1, <1>3, <1>4, <1>5 DEF SeenOK, new, v

-----------------------------------------------------------------------------
(* The steps of reading *)

ReadPcs == {"ready"} \cup AccountPcs \cup SlotPcs

(* A reading step keeps the request's block and database; it is in order if it
   is for a pinned request. *)
LEMMA ReadingKeeps ==
  ASSUME IInv, NEW r \in Requests, Keeps, NEW q, NEW store,
         req' = [req EXCEPT ![r] = q],
         kv' = [kv EXCEPT ![req[r].db] = store],
         DOMAIN q = Fields,
         q.db = req[r].db, q.want = req[r].want, q.block = req[r].block,
         req[r].pc \in ReadPcs, q.pc \in ReadPcs,
         req[r].db = r => PinnedOK(q, store, chain[req[r].block])
  PROVE  IInv'
  <1>1. RequestOK(r) /\ req[r].db \in {r, Live} /\ UNCHANGED <<chain, height, head>>
    BY DEF IInv, RequestOK, Keeps, feedVars
  <1>2. /\ req' = [x \in Requests |-> req'[x]]
        /\ kv' = [d \in Requests \cup {Live} |-> kv'[d]]
        /\ \A x \in Requests \ {r} : req'[x] = req[x] /\ kv'[x] = kv[x]
        /\ req'[r] = q
        /\ req[r].db = r => kv'[r] = store
        /\ req[r].db = Live => kv'[r] = kv[r]
    BY <1>1, LiveDbAssumption DEF IInv
  <1>3. BlockOK(q)' /\ FreshOK(q)'
    BY <1>1 DEF RequestOK, BlockOK, FreshOK, ReadPcs, AccountPcs, SlotPcs, Undecided
  <1>4. RequestOK(r)'
    BY <1>1, <1>2, <1>3 DEF RequestOK, BlockOK, FreshOK
  <1>5. QED
    BY <1>2, <1>4, OthersKept

(* What a pinned request has is of the block it was given. *)
LEMMA PinnedFacts ==
  ASSUME IInv, NEW r \in Requests, req[r].pc \in ReadPcs
  PROVE  /\ DOMAIN req[r] = Fields
         /\ kv = [kv EXCEPT ![req[r].db] = kv[req[r].db]]
         /\ req[r].db = r =>
                /\ chain[req[r].block] \in [Addrs -> ChainAccount]
                /\ NodeAt(r) = chain[req[r].block]
                /\ \A a \in Addrs : EntryAt(r, a) = kv[r][a]
                /\ PinnedOK(req[r], kv[r], chain[req[r].block])
  <1>1. RequestOK(r) /\ ChainOK
    BY DEF IInv
  <1>2. kv = [kv EXCEPT ![req[r].db] = kv[req[r].db]]
    BY DEF IInv
  <1>3. req[r].block \in 0..MaxHeight
    BY <1>1, LiveDbAssumption DEF RequestOK, BlockOK, ChainOK, ReadPcs, AccountPcs,
       SlotPcs, Undecided
  <1>4. QED
    BY <1>1, <1>2, <1>3, LiveDbAssumption DEF RequestOK, ChainOK, NodeAt, EntryAt

LEMMA AccountKeeps ==
  ASSUME IInv, NEW r \in Requests, NEW a \in Addrs,
         \/ AccountHit(r, a) \/ AccountMiss(r, a)
  PROVE  IInv'
  <1> DEFINE old == req[r]
             s == chain[old.block]
             store == kv[old.db]
  <1>1. Keeps /\ UNCHANGED kv /\ old.pc = "ready" /\ old.pc \in ReadPcs
    BY DEF AccountHit, AccountMiss, ReadPcs
  <1>2. /\ DOMAIN old = Fields
        /\ kv' = [kv EXCEPT ![old.db] = store]
        /\ old.db = r => /\ s \in [Addrs -> ChainAccount]
                         /\ EntryAt(r, a) = store[a]
                         /\ PinnedOK(old, store, s)
    BY <1>1, PinnedFacts
  <1> HIDE DEF s, store
  <1>3. CASE AccountMiss(r, a)
    <2> DEFINE op == [kind |-> "UpdateAccount", addr |-> a, entry |-> NoEntry]
               q == [old EXCEPT !.pc = "nonce", !.op = op]
    <2>1. req' = [req EXCEPT ![r] = q]
      BY <1>3 DEF AccountMiss
    <2>2. /\ DOMAIN q = Fields /\ q.pc = "nonce" /\ q.op = op
          /\ q.db = old.db /\ q.want = old.want /\ q.block = old.block
          /\ q.seen = old.seen /\ q.failed = old.failed
      BY <1>2 DEF Fields, NoRequest
    <2>3. OpOK("nonce", op, s)
      BY DEF OpOK, NoEntry, Entry, MaybeValue, SlotPcs
    <2> HIDE DEF op, q
    <2>4. old.db = r => PinnedOK(q, store, s)
      BY <1>2, <2>2, <2>3 DEF PinnedOK
    <2>5. QED
      BY <1>1, <1>2, <2>1, <2>2, <2>4, ReadingKeeps DEF ReadPcs, AccountPcs, s
  <1>4. CASE AccountHit(r, a)
    <2> DEFINE e == EntryAt(r, a)
               q == AccountRead(old, a, e.balance, e.nonce, CodeOf(e))
    <2>1. req' = [req EXCEPT ![r] = q] /\ Answers(e)
      BY <1>4 DEF AccountHit
    <2> HIDE DEF e
    <2>2. /\ DOMAIN q = Fields /\ q.pc = "ready"
          /\ q.db = old.db /\ q.want = old.want /\ q.block = old.block
          /\ q.failed = old.failed
          /\ q.seen = NewSeen(old.seen, a, e.balance, e.nonce, CodeOf(e))
      BY <1>2, AccountReadFields
    <2> HIDE DEF q
    <2>3. ASSUME old.db = r PROVE PinnedOK(q, store, s)
      <3>1. /\ StoreOK(store, s) /\ SeenOK(old.seen, old.failed, store, s)
            /\ s \in [Addrs -> ChainAccount] /\ e = store[a]
        BY <1>2, <2>3 DEF PinnedOK, e
      <3>2. e # Missing /\ e \in Entry /\ e.nonce # Nil /\ SameFields(e, s[a])
        BY <2>1, <3>1 DEF StoreOK, StoredAs, Answers
      <3>3. /\ e.balance = s[a].balance /\ e.nonce = s[a].nonce
            /\ CodeOf(e) = s[a].code
        BY <3>2 DEF SameFields, OmitZero
      <3>4. /\ e.balance \in MaybeValue /\ e.nonce \in MaybeValue
            /\ CodeOf(e) \in MaybeValue
        BY <3>1, <3>2 DEF Entry, CodeOf, MaybeValue, Value
      <3>5. SeenOK(q.seen, old.failed, store, s)
        BY <2>2, <3>1, <3>2, <3>3, <3>4, AccountReadOK
      <3>6. OpOK("ready", q.op, s)
        BY DEF OpOK, AccountPcs, SlotPcs
      <3>7. old.failed \in BOOLEAN
        BY <1>2, <2>3 DEF PinnedOK
      <3>8. QED
        BY <2>2, <3>1, <3>5, <3>6, <3>7 DEF PinnedOK
    <2>4. QED
      BY <1>1, <1>2, <2>1, <2>2, <2>3, ReadingKeeps DEF ReadPcs, s
  <1>5. QED
    BY <1>3, <1>4

(* The three fetches of an account. *)
LEMMA FetchKeeps ==
  ASSUME IInv, NEW r \in Requests, FetchNonce(r) \/ FetchBalance(r) \/ FetchCode(r)
  PROVE  IInv'
  <1> DEFINE old == req[r]
             s == chain[old.block]
             store == kv[old.db]
             node == NodeAt(r)[old.op.addr]
  <1>1. Keeps /\ UNCHANGED kv /\ old.pc \in AccountPcs /\ old.pc \in ReadPcs
    BY DEF FetchNonce, FetchBalance, FetchCode, ReadPcs, AccountPcs
  <1>2. /\ DOMAIN old = Fields
        /\ kv' = [kv EXCEPT ![old.db] = store]
        /\ old.db = r => /\ s \in [Addrs -> ChainAccount]
                         /\ node = s[old.op.addr]
                         /\ PinnedOK(old, store, s)
    BY <1>1, PinnedFacts
  <1> HIDE DEF s, store, node
  <1>3. ASSUME NEW q, DOMAIN q = Fields, q.pc \in AccountPcs,
               q.db = old.db, q.want = old.want, q.block = old.block,
               q.seen = old.seen, q.failed = old.failed,
               req' = [req EXCEPT ![r] = q],
               old.db = r => OpOK(q.pc, q.op, s)
        PROVE  IInv'
    <2>1. old.db = r => PinnedOK(q, store, s)
      BY <1>2, <1>3 DEF PinnedOK
    <2>2. QED
      BY <1>1, <1>2, <1>3, <2>1, ReadingKeeps DEF ReadPcs, s
  <1>4. old.db = r =>
            /\ old.op \in [kind : {"UpdateAccount"}, addr : Addrs, entry : Entry]
            /\ node \in ChainAccount
            /\ node = s[old.op.addr]
            /\ OpOK(old.pc, old.op, s)
    BY <1>1, <1>2 DEF PinnedOK, OpOK
  <1>5. CASE FetchNonce(r)
    <2> DEFINE q == [old EXCEPT !.pc = "balance", !.op.entry.nonce = node.nonce]
    <2>1. req' = [req EXCEPT ![r] = q] /\ old.pc = "nonce"
      BY <1>5 DEF FetchNonce, node
    <2>2. /\ DOMAIN q = Fields /\ q.pc = "balance"
          /\ q.op = [old.op EXCEPT !.entry.nonce = node.nonce]
          /\ q.db = old.db /\ q.want = old.want /\ q.block = old.block
          /\ q.seen = old.seen /\ q.failed = old.failed
      BY <1>2 DEF Fields, NoRequest
    <2> HIDE DEF q
    <2>3. old.db = r => OpOK("balance", q.op, s)
      BY <1>4, <2>1, <2>2 DEF OpOK, AccountPcs, SlotPcs, Entry, ChainAccount, MaybeValue
    <2>4. QED
      BY <1>3, <2>1, <2>2, <2>3 DEF AccountPcs
  <1>6. CASE FetchBalance(r)
    <2> DEFINE q == [old EXCEPT !.pc = "code", !.op.entry.balance = node.balance]
    <2>1. req' = [req EXCEPT ![r] = q] /\ old.pc = "balance"
      BY <1>6 DEF FetchBalance, node
    <2>2. /\ DOMAIN q = Fields /\ q.pc = "code"
          /\ q.op = [old.op EXCEPT !.entry.balance = node.balance]
          /\ q.db = old.db /\ q.want = old.want /\ q.block = old.block
          /\ q.seen = old.seen /\ q.failed = old.failed
      BY <1>2 DEF Fields, NoRequest
    <2> HIDE DEF q
    <2>3. old.db = r => OpOK("code", q.op, s)
      BY <1>4, <2>1, <2>2 DEF OpOK, AccountPcs, SlotPcs, Entry, ChainAccount, MaybeValue
    <2>4. QED
      BY <1>3, <2>1, <2>2, <2>3 DEF AccountPcs
  <1>7. CASE FetchCode(r)
    <2> DEFINE q == [old EXCEPT !.pc = "storeAccount", !.op.entry.code = node.code]
    <2>1. req' = [req EXCEPT ![r] = q] /\ old.pc = "code"
      BY <1>7 DEF FetchCode, node
    <2>2. /\ DOMAIN q = Fields /\ q.pc = "storeAccount"
          /\ q.op = [old.op EXCEPT !.entry.code = node.code]
          /\ q.db = old.db /\ q.want = old.want /\ q.block = old.block
          /\ q.seen = old.seen /\ q.failed = old.failed
      BY <1>2 DEF Fields, NoRequest
    <2> HIDE DEF q
    <2>3. old.db = r => OpOK("storeAccount", q.op, s)
      BY <1>4, <2>1, <2>2 DEF OpOK, AccountPcs, SlotPcs, Entry, ChainAccount, MaybeValue
    <2>4. QED
      BY <1>3, <2>1, <2>2, <2>3 DEF AccountPcs
  <1>8. QED
    BY <1>5, <1>6, <1>7

LEMMA StoreAccountKeeps ==
  ASSUME IInv, NEW r \in Requests, StoreAccount(r)
  PROVE  IInv'
  <1> DEFINE old == req[r]
             s == chain[old.block]
             store == kv[old.db]
             op == old.op
             new == Written(op, store, store)
             q == AccountRead(old, op.addr, op.entry.balance, op.entry.nonce,
                              op.entry.code)
  <1>1. /\ Keeps /\ old.pc = "storeAccount" /\ old.pc \in ReadPcs
        /\ req' = [req EXCEPT ![r] = q]
        /\ kv' = [kv EXCEPT ![old.db] = new]
    BY DEF StoreAccount, StoreIn, ReadPcs, AccountPcs
  <1>2. /\ DOMAIN old = Fields
        /\ old.db = r => /\ s \in [Addrs -> ChainAccount]
                         /\ PinnedOK(old, store, s)
    BY <1>1, PinnedFacts
  <1>3. /\ DOMAIN q = Fields /\ q.pc = "ready"
        /\ q.db = old.db /\ q.want = old.want /\ q.block = old.block
        /\ q.failed = old.failed
        /\ q.seen = NewSeen(old.seen, op.addr, op.entry.balance, op.entry.nonce,
                            op.entry.code)
    BY <1>2, AccountReadFields
  <1> HIDE DEF s, store, new, q
  <1>4. ASSUME old.db = r PROVE PinnedOK(q, new, s)
    <2>1. /\ OpOK("storeAccount", op, s) /\ StoreOK(store, s)
          /\ SeenOK(old.seen, old.failed, store, s)
          /\ s \in [Addrs -> ChainAccount]
          /\ old.failed \in BOOLEAN
      BY <1>1, <1>2, <1>4 DEF PinnedOK
    <2>2. /\ StoreOK(new, s)
          /\ new[op.addr] # Missing
          /\ \A a \in Addrs : store[a] # Missing => new[a] # Missing
      BY <2>1, StoreAccountOK DEF new
    <2>3. SeenOK(old.seen, old.failed, new, s)
      BY <2>1, <2>2 DEF SeenOK
    <2>4. /\ op.addr \in Addrs
          /\ op.entry \in Entry
          /\ op.entry.balance = s[op.addr].balance
          /\ op.entry.nonce = s[op.addr].nonce
          /\ op.entry.code = s[op.addr].code
      BY <2>1 DEF OpOK, AccountPcs
    <2>5. /\ op.entry.balance \in MaybeValue /\ op.entry.nonce \in MaybeValue
          /\ op.entry.code \in MaybeValue
      BY <2>4 DEF Entry
    <2>6. SeenOK(q.seen, old.failed, new, s)
      BY <1>3, <2>1, <2>2, <2>3, <2>4, <2>5, AccountReadOK
    <2>7. OpOK("ready", q.op, s)
      BY DEF OpOK, AccountPcs, SlotPcs
    <2>8. QED
      BY <1>3, <2>1, <2>2, <2>6, <2>7 DEF PinnedOK
  <1>5. QED
    BY <1>1, <1>3, <1>4, <1>2, ReadingKeeps DEF ReadPcs, s

LEMMA CodeKeeps ==
  ASSUME IInv, NEW r \in Requests, NEW a \in Addrs, ReadCode(r, a)
  PROVE  IInv'
  <1> DEFINE old == req[r]
             s == chain[old.block]
             store == kv[old.db]
             q == [old EXCEPT !.seen[a].code = CodeOf(EntryAt(r, a))]
  <1>1. /\ Keeps /\ UNCHANGED kv /\ old.pc = "ready" /\ old.pc \in ReadPcs
        /\ old.seen[a].hash \notin {Nil, 0}
        /\ req' = [req EXCEPT ![r] = q]
    BY DEF ReadCode, ReadPcs
  <1>2. /\ DOMAIN old = Fields
        /\ kv' = [kv EXCEPT ![old.db] = store]
        /\ old.db = r => /\ s \in [Addrs -> ChainAccount]
                         /\ EntryAt(r, a) = store[a]
                         /\ PinnedOK(old, store, s)
    BY <1>1, PinnedFacts
  <1>3. /\ DOMAIN q = Fields /\ q.pc = old.pc /\ q.op = old.op
        /\ q.db = old.db /\ q.want = old.want /\ q.block = old.block
        /\ q.failed = old.failed
        /\ q.seen = NewCode(old.seen, a, CodeOf(EntryAt(r, a)))
    BY <1>2 DEF NewCode, Fields, NoRequest
  <1> HIDE DEF s, store, q
  <1>4. ASSUME old.db = r PROVE PinnedOK(q, store, s)
    BY <1>1, <1>2, <1>3, <1>4, CodeReadOK DEF PinnedOK
  <1>5. QED
    BY <1>1, <1>2, <1>3, <1>4, ReadingKeeps DEF s

LEMMA SlotReadFields ==
  ASSUME NEW q, DOMAIN q = Fields
  PROVE  /\ DOMAIN SlotRead(q) = Fields /\ SlotRead(q).pc = "ready"
         /\ SlotRead(q).db = q.db /\ SlotRead(q).want = q.want
         /\ SlotRead(q).block = q.block
         /\ SlotRead(q).failed = q.failed
         /\ SlotRead(q).seen =
                NewSlot(q.seen, q.op.addr, q.op.slot, q.op.value)
  BY DEF SlotRead, NewSlot, Fields, NoRequest

LEMMA SlotKeeps ==
  ASSUME IInv, NEW r \in Requests, NEW a \in Addrs, NEW k \in Slots,
         SlotHit(r, a, k) \/ SlotMiss(r, a, k)
  PROVE  IInv'
  <1> DEFINE old == req[r]
             s == chain[old.block]
             store == kv[old.db]
  <1>1. Keeps /\ UNCHANGED kv /\ old.pc = "ready" /\ old.pc \in ReadPcs
    BY DEF SlotHit, SlotMiss, SlotUnread, ReadPcs
  <1>2. /\ DOMAIN old = Fields
        /\ kv' = [kv EXCEPT ![old.db] = store]
        /\ old.db = r => /\ s \in [Addrs -> ChainAccount]
                         /\ EntryAt(r, a) = store[a]
                         /\ PinnedOK(old, store, s)
    BY <1>1, PinnedFacts
  <1> HIDE DEF s, store
  <1>3. CASE SlotMiss(r, a, k)
    <2> DEFINE op == [kind |-> "UpdateStorage", addr |-> a, slot |-> k, value |-> 0]
               q == [old EXCEPT !.pc = "slot", !.op = op]
    <2>1. req' = [req EXCEPT ![r] = q]
      BY <1>3 DEF SlotMiss
    <2>2. /\ DOMAIN q = Fields /\ q.pc = "slot" /\ q.op = op
          /\ q.db = old.db /\ q.want = old.want /\ q.block = old.block
          /\ q.seen = old.seen /\ q.failed = old.failed
      BY <1>2 DEF Fields, NoRequest
    <2>3. OpOK("slot", op, s)
      BY DEF OpOK, AccountPcs, Value
    <2> HIDE DEF op, q
    <2>4. old.db = r => PinnedOK(q, store, s)
      BY <1>2, <2>2, <2>3 DEF PinnedOK
    <2>5. QED
      BY <1>1, <1>2, <2>1, <2>2, <2>4, ReadingKeeps DEF ReadPcs, SlotPcs, s
  <1>4. CASE SlotHit(r, a, k)
    <2> DEFINE v == EntryAt(r, a).storage[k]
               q == [old EXCEPT !.seen[a].storage[k] = v]
    <2>1. req' = [req EXCEPT ![r] = q] /\ SlotKnown(EntryAt(r, a), k)
      BY <1>4 DEF SlotHit
    <2> HIDE DEF v
    <2>2. /\ DOMAIN q = Fields /\ q.pc = old.pc /\ q.op = old.op
          /\ q.db = old.db /\ q.want = old.want /\ q.block = old.block
          /\ q.failed = old.failed
          /\ q.seen = NewSlot(old.seen, a, k, v)
      BY <1>2 DEF NewSlot, Fields, NoRequest
    <2> HIDE DEF q
    <2>3. ASSUME old.db = r PROVE PinnedOK(q, store, s)
      <3>1. store[a] \in Entry /\ StoredAs(store[a], s[a]) /\ store[a] # Missing
        BY <1>2, <2>1, <2>3 DEF PinnedOK, StoreOK, SlotKnown
      <3>2. v \in MaybeValue /\ v \in {Nil, s[a].storage[k]}
        BY <1>2, <2>3, <3>1 DEF v, StoredAs, Entry
      <3>3. SeenOK(q.seen, old.failed, store, s)
        BY <1>2, <2>2, <2>3, <3>2, SlotReadOK DEF PinnedOK
      <3>4. QED
        BY <1>2, <2>2, <2>3, <3>3 DEF PinnedOK
    <2>4. QED
      BY <1>1, <1>2, <2>1, <2>2, <2>3, ReadingKeeps DEF s
  <1>5. QED
    BY <1>3, <1>4

LEMMA FetchSlotKeeps ==
  ASSUME IInv, NEW r \in Requests, FetchSlot(r)
  PROVE  IInv'
  <1> DEFINE old == req[r]
             s == chain[old.block]
             store == kv[old.db]
             v == NodeAt(r)[old.op.addr].storage[old.op.slot]
             q == [old EXCEPT !.pc = "storeSlot", !.op.value = v]
  <1>1. /\ Keeps /\ UNCHANGED kv /\ old.pc = "slot" /\ old.pc \in ReadPcs
        /\ req' = [req EXCEPT ![r] = q]
    BY DEF FetchSlot, ReadPcs, SlotPcs
  <1>2. /\ DOMAIN old = Fields
        /\ kv' = [kv EXCEPT ![old.db] = store]
        /\ old.db = r => /\ s \in [Addrs -> ChainAccount]
                         /\ v = s[old.op.addr].storage[old.op.slot]
                         /\ PinnedOK(old, store, s)
    BY <1>1, PinnedFacts
  <1> HIDE DEF s, store, v
  <1>3. /\ DOMAIN q = Fields /\ q.pc = "storeSlot"
        /\ q.op = [old.op EXCEPT !.value = v]
        /\ q.db = old.db /\ q.want = old.want /\ q.block = old.block
        /\ q.seen = old.seen /\ q.failed = old.failed
    BY <1>2 DEF Fields, NoRequest
  <1> HIDE DEF q
  <1>4. ASSUME old.db = r PROVE OpOK("storeSlot", q.op, s)
    <2>1. /\ old.op \in [kind : {"UpdateStorage"}, addr : Addrs, slot : Slots,
                         value : Value]
          /\ s[old.op.addr] \in ChainAccount
      BY <1>1, <1>2, <1>4 DEF PinnedOK, OpOK, SlotPcs
    <2>2. v \in Value
      BY <1>2, <1>4, <2>1 DEF ChainAccount
    <2>3. QED
      BY <1>2, <1>3, <1>4, <2>1, <2>2 DEF OpOK, AccountPcs
  <1>5. old.db = r => PinnedOK(q, store, s)
    BY <1>2, <1>3, <1>4 DEF PinnedOK
  <1>6. QED
    BY <1>1, <1>2, <1>3, <1>5, ReadingKeeps DEF ReadPcs, SlotPcs, s

(* The slot is stored, or the commit fails. *)
LEMMA StoreSlotKeeps ==
  ASSUME IInv, NEW r \in Requests, StoreSlot(r)
  PROVE  IInv'
  <1> DEFINE old == req[r]
             s == chain[old.block]
             store == kv[old.db]
             op == old.op
             q == SlotRead(old)
  <1>1. /\ Keeps /\ old.pc = "storeSlot" /\ old.pc \in ReadPcs
        /\ req' = [req EXCEPT ![r] = q]
        /\ \/ kv' = [kv EXCEPT ![old.db] = Written(op, store, store)]
           \/ UNCHANGED kv
    BY DEF StoreSlot, StoreIn, ReadPcs, SlotPcs
  <1>2. /\ DOMAIN old = Fields
        /\ kv = [kv EXCEPT ![old.db] = store]
        /\ old.db = r => /\ s \in [Addrs -> ChainAccount]
                         /\ PinnedOK(old, store, s)
    BY <1>1, PinnedFacts
  <1>3. /\ DOMAIN q = Fields /\ q.pc = "ready"
        /\ q.db = old.db /\ q.want = old.want /\ q.block = old.block
        /\ q.failed = old.failed
        /\ q.seen = NewSlot(old.seen, op.addr, op.slot, op.value)
    BY <1>2, SlotReadFields
  <1>4. PICK new \in {store, Written(op, store, store)} :
            kv' = [kv EXCEPT ![old.db] = new]
    BY <1>1, <1>2
  <1> HIDE DEF s, store, q
  <1>5. ASSUME old.db = r PROVE PinnedOK(q, new, s)
    <2>1. /\ OpOK("storeSlot", op, s) /\ StoreOK(store, s)
          /\ SeenOK(old.seen, old.failed, store, s)
          /\ s \in [Addrs -> ChainAccount]
          /\ old.failed \in BOOLEAN
      BY <1>1, <1>2, <1>5 DEF PinnedOK
    <2>2. /\ StoreOK(new, s)
          /\ \A a \in Addrs : store[a] # Missing => new[a] # Missing
      BY <1>4, <2>1, StoreSlotOK
    <2>3. SeenOK(old.seen, old.failed, new, s)
      BY <2>1, <2>2 DEF SeenOK
    <2>4. /\ op.addr \in Addrs /\ op.slot \in Slots
          /\ op.value \in MaybeValue
          /\ op.value = s[op.addr].storage[op.slot]
      BY <2>1 DEF OpOK, SlotPcs, MaybeValue
    <2>5. SeenOK(q.seen, old.failed, new, s)
      BY <1>3, <2>1, <2>3, <2>4, SlotReadOK
    <2>6. OpOK("ready", q.op, s)
      BY DEF OpOK, AccountPcs, SlotPcs
    <2>7. QED
      BY <1>3, <2>1, <2>2, <2>5, <2>6 DEF PinnedOK
  <1>6. QED
    BY <1>1, <1>2, <1>3, <1>4, <1>5, ReadingKeeps DEF ReadPcs, s

(* A request whose fetch failed, if its StateDB keeps nothing of it. *)
Asking(q) == [q EXCEPT !.pc = "ready", !.op = [kind |-> "none"]]

(* A fetch that fails spoils the request, and leaves its store as it is. *)
LEMMA FetchFailsKeeps ==
  ASSUME IInv, NEW r \in Requests, FetchFails(r)
  PROVE  IInv'
  <1> DEFINE old == req[r]
             s == chain[old.block]
             store == kv[old.db]
             f == [old EXCEPT !.failed = TRUE]
  <1>1. Keeps /\ UNCHANGED kv
    BY DEF FetchFails
  <1>2. \/ /\ f.pc \in {"nonce", "balance", "code"}
           /\ req' = [req EXCEPT ![r] = AccountRead(f, f.op.addr, 0, 0, 0)]
        \/ /\ f.pc = "slot"
           /\ req' = [req EXCEPT ![r] = SlotRead(f)]
        \/ /\ f.pc \in {"nonce", "balance", "code", "slot"}
           /\ req' = [req EXCEPT ![r] = Asking(f)]
    BY DEF FetchFails, Asking
  <1>3. DOMAIN old = Fields
    BY DEF IInv, RequestOK
  <1>4. /\ DOMAIN f = Fields /\ f.pc = old.pc /\ f.op = old.op
        /\ f.db = old.db /\ f.want = old.want /\ f.block = old.block
        /\ f.seen = old.seen /\ f.failed = TRUE
    BY <1>3 DEF Fields, NoRequest
  <1>5. old.pc \in ReadPcs
    BY <1>2, <1>4 DEF ReadPcs, AccountPcs, SlotPcs
  <1>6. /\ kv' = [kv EXCEPT ![old.db] = store]
        /\ old.db = r => /\ s \in [Addrs -> ChainAccount]
                         /\ PinnedOK(old, store, s)
    BY <1>1, <1>5, PinnedFacts
  <1> HIDE DEF s, store, f
  <1>7. ~Clean(TRUE)
    BY DEF Clean
  <1>8. 0 \in MaybeValue
    BY DEF MaybeValue, Value
  <1>9. ASSUME NEW q, req' = [req EXCEPT ![r] = q],
               DOMAIN q = Fields, q.pc = "ready", q.db = old.db,
               q.want = old.want, q.block = old.block, q.failed = TRUE,
               old.db = r => SeenOK(q.seen, TRUE, store, s)
        PROVE  IInv'
    <2>1. OpOK("ready", q.op, s)
      BY DEF OpOK, AccountPcs, SlotPcs
    <2>2. old.db = r => PinnedOK(q, store, s)
      BY <1>6, <1>9, <2>1 DEF PinnedOK
    <2>3. QED
      BY <1>1, <1>5, <1>6, <1>9, <2>2, ReadingKeeps DEF ReadPcs, s
  <1>10. CASE /\ f.pc \in {"nonce", "balance", "code"}
              /\ req' = [req EXCEPT ![r] = AccountRead(f, f.op.addr, 0, 0, 0)]
    <2> DEFINE q == AccountRead(f, f.op.addr, 0, 0, 0)
    <2>1. req' = [req EXCEPT ![r] = q]
      BY <1>10
    <2>2. /\ DOMAIN q = Fields /\ q.pc = "ready"
          /\ q.db = old.db /\ q.want = old.want /\ q.block = old.block
          /\ q.failed = TRUE
          /\ q.seen = NewSeen(old.seen, old.op.addr, 0, 0, 0)
      BY <1>4, AccountReadFields
    <2> HIDE DEF q
    <2>3. ASSUME old.db = r PROVE SeenOK(q.seen, TRUE, store, s)
      <3>1. old.op.addr \in Addrs /\ SeenOK(old.seen, old.failed, store, s)
        BY <1>4, <1>6, <1>10, <2>3 DEF PinnedOK, OpOK, AccountPcs
      <3>2. QED
        BY <1>6, <1>7, <1>8, <2>2, <2>3, <3>1, AccountReadOK
    <2>4. QED
      BY <1>9, <2>1, <2>2, <2>3
  <1>11. CASE /\ f.pc = "slot"
              /\ req' = [req EXCEPT ![r] = SlotRead(f)]
    <2> DEFINE q == SlotRead(f)
    <2>1. req' = [req EXCEPT ![r] = q]
      BY <1>11
    <2>2. /\ DOMAIN q = Fields /\ q.pc = "ready"
          /\ q.db = old.db /\ q.want = old.want /\ q.block = old.block
          /\ q.failed = TRUE
          /\ q.seen = NewSlot(old.seen, old.op.addr, old.op.slot, old.op.value)
      BY <1>4, SlotReadFields
    <2> HIDE DEF q
    <2>3. ASSUME old.db = r PROVE SeenOK(q.seen, TRUE, store, s)
      <3>1. /\ old.op.addr \in Addrs /\ old.op.slot \in Slots
            /\ old.op.value \in MaybeValue
            /\ SeenOK(old.seen, old.failed, store, s)
        BY <1>4, <1>6, <1>11, <2>3 DEF PinnedOK, OpOK, SlotPcs, MaybeValue
      <3>2. QED
        BY <1>6, <1>7, <2>2, <2>3, <3>1, SlotReadOK
    <2>4. QED
      BY <1>9, <2>1, <2>2, <2>3
  <1>12. ASSUME f.pc \in {"nonce", "balance", "code", "slot"},
                req' = [req EXCEPT ![r] = Asking(f)]
         PROVE  IInv'
    <2> DEFINE q == Asking(f)
    <2>1. /\ DOMAIN q = Fields /\ q.pc = "ready"
          /\ q.db = old.db /\ q.want = old.want /\ q.block = old.block
          /\ q.failed = TRUE /\ q.seen = old.seen
      BY <1>4 DEF Asking, Fields, NoRequest
    <2> HIDE DEF q
    <2>2. ASSUME old.db = r PROVE SeenOK(q.seen, TRUE, store, s)
      BY <1>6, <1>7, <2>1, <2>2 DEF PinnedOK, SeenOK
    <2>3. QED
      BY <1>9, <1>12, <2>1, <2>2 DEF q
  <1>13. QED
    BY <1>2, <1>10, <1>11, <1>12

-----------------------------------------------------------------------------
(* The theorems *)

LEMMA NextKeeps == IInv /\ [Next]_vars => IInv'
  <1> SUFFICES ASSUME IInv, [Next]_vars PROVE IInv'
    OBVIOUS
  <1>1. CASE UNCHANGED vars
    BY <1>1 DEF vars, feedVars, IInv, ChainOK, FeedOK, RequestOK, BlockOK, FreshOK
  <1>2. CASE NewBlock
    BY <1>2, NewBlockKeeps
  <1>3. CASE UpdateState
    BY <1>3, FeedKeeps
  <1>4. ASSUME NEW r \in Requests, Serve(r) PROVE IInv'
    <2>1. CASE \/ Ask(r) \/ AskByHash(r) \/ HeadMatches(r) \/ ReturnHead(r)
               \/ AskNode(r) \/ AskFails(r)
      BY <2>1, AskKeeps
    <2>2. CASE Route(r)
      BY <2>2, RouteKeeps
    <2>3. CASE FetchNonce(r) \/ FetchBalance(r) \/ FetchCode(r)
      BY <2>3, FetchKeeps
    <2>4. CASE StoreAccount(r)
      BY <2>4, StoreAccountKeeps
    <2>5. CASE FetchSlot(r)
      BY <2>5, FetchSlotKeeps
    <2>6. CASE StoreSlot(r)
      BY <2>6, StoreSlotKeeps
    <2>7. CASE FetchFails(r)
      BY <2>7, FetchFailsKeeps
    <2>8. CASE Finish(r)
      BY <2>8, FinishKeeps
    <2>9. CASE \E a \in Addrs : AccountHit(r, a) \/ AccountMiss(r, a)
      BY <2>9, AccountKeeps
    <2>10. CASE \E a \in Addrs : ReadCode(r, a)
      BY <2>10, CodeKeeps
    <2>11. CASE \E a \in Addrs : \E k \in Slots : SlotHit(r, a, k) \/ SlotMiss(r, a, k)
      BY <2>11, SlotKeeps
    <2>12. QED
      BY <1>4, <2>1, <2>2, <2>3, <2>4, <2>5, <2>6, <2>7, <2>8, <2>9, <2>10, <2>11
         DEF Serve
  <1>5. QED
    BY <1>1, <1>2, <1>3, <1>4 DEF Next

LEMMA Invariant == Spec => []IInv
  BY InitHolds, NextKeeps, PTL DEF Spec

(* PinnedExact: a request on a block older than the head sees the state after
   that block, and its store holds nothing else, whatever the feed, the other
   requests and failing calls do meanwhile. *)
THEOREM PinnedStateExact == Spec => []PinnedExact
  <1>1. IInv => PinnedExact
    <2> SUFFICES ASSUME IInv, NEW r \in Requests, req[r].db = r, NEW a \in Addrs
                 PROVE  LET s == chain[req[r].block]
                        IN  /\ StoredAs(kv[r][a], s[a])
                            /\ ~req[r].failed => SeenAs(req[r].seen[a], s[a])
      BY DEF PinnedExact
    <2>1. PinnedOK(req[r], kv[r], chain[req[r].block])
      BY DEF IInv, RequestOK
    <2>2. ~req[r].failed => Clean(req[r].failed)
      BY <2>1 DEF PinnedOK, Clean
    <2>3. QED
      BY <2>1, <2>2 DEF PinnedOK, StoreOK, SeenOK
  <1>2. QED
    BY Invariant, <1>1, PTL

(* BlockNotOlder: the block a request is answered on is not older than the one
   it asked for, though the head moves between the tests of it. *)
THEOREM NoEarlierBlock == Spec => []BlockNotOlder
  <1>1. IInv => BlockNotOlder
    BY DEF IInv, RequestOK, BlockOK, BlockNotOlder
  <1>2. QED
    BY Invariant, <1>1, PTL

-----------------------------------------------------------------------------
(* What the chain has had.  The set of states P an account has been in gives
   the values that were true of it once. *)

Balances(P) == { s.balance : s \in P }
Nonces(P) == { s.nonce : s \in P }
ValuesAt(P, k) == { s.storage[k] : s \in P }

(* Codes that may be answered.  When only some of a block's patches are stored
   an entry may lack a code the account has, and is read as having none. *)
Codes(P) == { s.code : s \in P } \cup (IF BigBlocks = {} THEN {} ELSE {0})

(* Each field is unknown or was true once. *)
FromPast(e, P) ==
    /\ e.balance \in Balances(P) \cup {Nil}
    /\ e.nonce \in Nonces(P) \cup {Nil}
    /\ e.code \in Codes(P) \cup {Nil}
    /\ \A k \in Slots : e.storage[k] \in ValuesAt(P, k) \cup {Nil}

(* And if the nonce is known while the code is not, which GetAccount reads as
   an empty code, then that is an answer too. *)
Honest(e, P) ==
    /\ FromPast(e, P)
    /\ e.nonce # Nil /\ e.code = Nil => 0 \in Codes(P)

HonestEntry(e, P) == e \in MaybeStored /\ (e # Missing => Honest(e, P))

(* What ContractCode answers from the entry was true once. *)
HasCode(e, P) == e # Missing /\ (e.code = Nil => 0 \in Codes(P))

(* Patches that leave an honest entry honest, and with the code it has. *)
HonestPatches(patches, P) ==
    \A e : HonestEntry(e, P) =>
        /\ HonestEntry(PatchedAll(e, patches), P)
        /\ HasCode(e, P) => HasCode(PatchedAll(e, patches), P)

LEMMA PastGrows ==
  ASSUME NEW P, NEW Q, P \subseteq Q
  PROVE  /\ Balances(P) \subseteq Balances(Q)
         /\ Nonces(P) \subseteq Nonces(Q)
         /\ Codes(P) \subseteq Codes(Q)
         /\ \A k : ValuesAt(P, k) \subseteq ValuesAt(Q, k)
  BY DEF Balances, Nonces, Codes, ValuesAt

LEMMA HonestGrows ==
  ASSUME NEW P, NEW Q, P \subseteq Q, NEW e
  PROVE  /\ HonestEntry(e, P) => HonestEntry(e, Q)
         /\ HasCode(e, P) => HasCode(e, Q)
  BY PastGrows DEF HonestEntry, Honest, FromPast, HasCode

LEMMA MergeHonest ==
  ASSUME NEW o \in Entry, NEW n \in Entry, NEW P, Honest(o, P), Honest(n, P)
  PROVE  Honest(MergeAccount(o, n), P)
  BY DEF Honest, FromPast, MergeAccount, Or

LEMMA EncodedHonest ==
  ASSUME NEW e \in Entry, NEW P, Honest(e, P)
  PROVE  HonestEntry(Encoded(e), P)
  <1>1. Encoded(e) \in MaybeStored
    BY EncodedIsStored DEF MaybeStored
  <1>2. Honest(Encoded(e), P)
    BY DEF Honest, FromPast, Encoded, OmitZero
  <1>3. QED
    BY <1>1, <1>2 DEF HonestEntry

(* A patch from the chain's past leaves an entry from the chain's past. *)
LEMMA PatchedHonest ==
  ASSUME NEW P, NEW e, HonestEntry(e, P), NEW p \in Entry, Honest(p, P)
  PROVE  HonestEntry(Patched(e, p), P)
  <1>1. CASE e = Missing
    BY <1>1, EncodedHonest DEF Patched
  <1>2. CASE e # Missing
    <2>1. e \in Entry /\ Honest(e, P)
      BY <1>2 DEF HonestEntry, MaybeStored, StoredEntry
    <2>2. MergeAccount(e, p) \in Entry /\ Honest(MergeAccount(e, p), P)
      BY <2>1, MergeAccountType, MergeHonest
    <2>3. QED
      BY <1>2, <2>2, EncodedHonest DEF Patched
  <1>3. QED
    BY <1>1, <1>2

(* Over an entry with a code it is enough that the values are from the past. *)
LEMMA PatchedKeepsCode ==
  ASSUME NEW P, NEW e, HonestEntry(e, P), HasCode(e, P),
         NEW p \in Entry, FromPast(p, P)
  PROVE  HonestEntry(Patched(e, p), P) /\ HasCode(Patched(e, p), P)
  <1> DEFINE m == MergeAccount(e, p)
             x == Patched(e, p)
  <1>1. /\ e \in Entry /\ e.code # 0 /\ e # Missing /\ Honest(e, P)
        /\ e.code = Nil => 0 \in Codes(P)
    BY DEF HasCode, HonestEntry, MaybeStored, StoredEntry
  <1>2. m \in Entry
    BY <1>1, MergeAccountType
  <1>3. FromPast(m, P)
    BY <1>1 DEF Honest, FromPast, MergeAccount, Or
  <1>4. m.code = Or(p.code, e.code)
    BY DEF MergeAccount
  <1>5. x = Encoded(m)
    BY <1>1 DEF Patched
  <1> HIDE DEF m, x
  <1>6. m.code \in {Nil, 0} => 0 \in Codes(P)
    BY <1>1, <1>3, <1>4 DEF Or, FromPast, Nil
  <1>7. HonestEntry(x, P)
    BY <1>2, <1>3, <1>5, <1>6, EncodedHonest DEF Honest
  <1>8. x # Missing
    BY <1>2, <1>5, StoredForm, MissingAssumption
  <1>9. x.code = Nil => 0 \in Codes(P)
    BY <1>5, <1>6 DEF Encoded, OmitZero
  <1>10. QED
    BY <1>7, <1>8, <1>9 DEF HasCode, x

(* Where no code may be answered any patches from the past will do. *)
LEMMA PastPatchesHonest ==
  ASSUME NEW P, 0 \in Codes(P), NEW patches \in Seq(Entry),
         \A i \in DOMAIN patches : FromPast(patches[i], P)
  PROVE  HonestPatches(patches, P)
  <1> SUFFICES ASSUME NEW e, HonestEntry(e, P)
               PROVE  /\ HonestEntry(PatchedAll(e, patches), P)
                      /\ HasCode(e, P) => HasCode(PatchedAll(e, patches), P)
    BY DEF HonestPatches
  <1> DEFINE S == { y \in MaybeStored : HonestEntry(y, P) }
             T == { y \in S : HasCode(y, P) }
  <1>1. \A i \in DOMAIN patches : patches[i] \in Entry /\ Honest(patches[i], P)
    BY DEF Honest
  <1>2. \A y \in S : \A i \in DOMAIN patches : Patched(y, patches[i]) \in S
    BY <1>1, PatchedHonest DEF HonestEntry
  <1>3. \A y \in T : \A i \in DOMAIN patches : Patched(y, patches[i]) \in T
    BY <1>1, PatchedKeepsCode DEF HonestEntry
  <1>4. e \in S /\ (HasCode(e, P) => e \in T)
    BY DEF HonestEntry
  <1> HIDE DEF S, T
  <1>5. PatchedAll(e, patches) \in S
    BY <1>2, <1>4, PatchesPreserve
  <1>6. HasCode(e, P) => PatchedAll(e, patches) \in T
    BY <1>3, <1>4, PatchesPreserve
  <1>7. QED
    BY <1>5, <1>6 DEF S, T

(* The whole account, as a Pre has it, brings the code along. *)
LEMMA WholeHonest ==
  ASSUME NEW P, NEW s \in ChainAccount, s \in P, NEW p \in Entry,
         FromPast(p, P), p.code = OmitZero(s.code)
  PROVE  \A e : HonestEntry(e, P) => /\ HonestEntry(Patched(e, p), P)
                                    /\ HasCode(Patched(e, p), P)
  <1> SUFFICES ASSUME NEW e, HonestEntry(e, P)
               PROVE  HonestEntry(Patched(e, p), P) /\ HasCode(Patched(e, p), P)
    OBVIOUS
  <1>1. s.code \in Codes(P) /\ s.code \in Value
    BY DEF Codes, ChainAccount
  <1>2. p.code = Nil => 0 \in Codes(P)
    BY <1>1 DEF OmitZero, Value, Nil
  <1>3. HonestEntry(Patched(e, p), P)
    BY <1>2, PatchedHonest DEF Honest
  <1>4. CASE p.code = Nil
    <2>1. Patched(e, p) # Missing
      <3>1. e \in Entry \cup {Missing}
        BY DEF HonestEntry, MaybeStored, StoredEntry
      <3>2. QED
        BY <3>1, PatchedIsStored, MissingAssumption DEF StoredEntry
    <2>2. QED
      BY <1>2, <1>3, <1>4, <2>1 DEF HasCode
  <1>5. CASE p.code # Nil
    <2> DEFINE m == IF e = Missing THEN p ELSE MergeAccount(e, p)
    <2>1. Patched(e, p) = Encoded(m) /\ m.code = p.code
      BY <1>5 DEF Patched, MergeAccount, Or
    <2>2. m \in Entry
      BY MergeAccountType DEF HonestEntry, MaybeStored, StoredEntry
    <2> HIDE DEF m
    <2>3. Patched(e, p) # Missing
      BY <2>1, <2>2, StoredForm, MissingAssumption
    <2>4. p.code # 0
      BY <1>1 DEF OmitZero, Value, Nil
    <2>5. Patched(e, p).code # Nil
      BY <1>5, <2>1, <2>4 DEF Encoded, OmitZero
    <2>6. QED
      BY <1>3, <2>3, <2>5 DEF HasCode
  <1>6. QED
    BY <1>4, <1>5

(* All patches of a transaction, in their order, leave an honest entry honest:
   Post may leave out the code of a contract whose nonce it has, but Pre, which
   comes first, has it; and an account that is not in Pre had none. *)
LEMMA TraceHonest ==
  ASSUME NEW P, NEW s \in ChainAccount, NEW t \in ChainAccount, s \in P, t \in P
  PROVE  LET patches == TracePatches(s, t)
         IN  /\ patches \in Seq(Entry)
             /\ \A i \in DOMAIN patches : FromPast(patches[i], P)
             /\ HonestPatches(patches, P)
  <1> DEFINE pre == TracePre(s, t)
             post == TracePost(s, t)
             patches == TracePatches(s, t)
  <1>1. /\ s.balance \in Balances(P) /\ t.balance \in Balances(P)
        /\ s.nonce \in Nonces(P) /\ t.nonce \in Nonces(P)
        /\ s.code \in Codes(P) /\ t.code \in Codes(P)
        /\ \A k \in Slots : /\ s.storage[k] \in ValuesAt(P, k)
                            /\ t.storage[k] \in ValuesAt(P, k)
    BY DEF Balances, Nonces, Codes, ValuesAt
  <1>2. FromPast(pre, P)
    BY <1>1 DEF FromPast, TracePre, OmitZero
  <1>3. FromPast(post, P)
    BY <1>1 DEF FromPast, TracePost, OmitZero
  <1>4. pre \in Entry /\ post \in Entry /\ pre.code = OmitZero(s.code)
    BY TraceType DEF TracePre
  <1>5. /\ s = t => patches = << >>
        /\ s # t /\ InPre(s, t) => patches = << pre, post >>
        /\ ~InPre(s, t) => s = t \/ patches = << post >>
    BY DEF TracePatches
  <1>6. ~InPre(s, t) => s.code = 0
    BY DEF InPre, Exists, EmptyAccount
  <1> HIDE DEF pre, post, patches
  <1>7. CASE s = t
    <2>1. patches = << >>
      BY <1>5, <1>7
    <2>2. \A e : PatchedAll(e, << >>) = e
      BY <1>4, FewPatches
    <2>3. HonestPatches(patches, P)
      BY <2>1, <2>2 DEF HonestPatches
    <2>4. QED
      BY <2>1, <2>3 DEF patches
  <1>8. CASE s # t /\ InPre(s, t)
    <2>1. patches = << pre, post >>
      BY <1>5, <1>8
    <2>2. \A e : PatchedAll(e, << pre, post >>) = Patched(Patched(e, pre), post)
      BY <1>4, FewPatches
    <2>3. \A e : HonestEntry(e, P) => /\ HonestEntry(Patched(e, pre), P)
                                     /\ HasCode(Patched(e, pre), P)
      BY <1>2, <1>4, WholeHonest
    <2>4. \A e : HonestEntry(e, P) =>
            /\ HonestEntry(Patched(Patched(e, pre), post), P)
            /\ HasCode(Patched(Patched(e, pre), post), P)
      BY <1>3, <1>4, <2>3, PatchedKeepsCode
    <2>5. HonestPatches(patches, P)
      BY <2>1, <2>2, <2>4 DEF HonestPatches
    <2>6. /\ patches \in Seq(Entry)
          /\ \A i \in DOMAIN patches : FromPast(patches[i], P)
      BY <1>2, <1>3, <1>4, <2>1
    <2>7. QED
      BY <2>5, <2>6 DEF patches
  <1>9. CASE s # t /\ ~InPre(s, t)
    <2>1. patches = << post >>
      BY <1>5, <1>9
    <2>2. /\ patches \in Seq(Entry)
          /\ \A i \in DOMAIN patches : FromPast(patches[i], P)
      BY <1>3, <1>4, <2>1
    <2>3. 0 \in Codes(P)
      BY <1>1, <1>6, <1>9
    <2>4. HonestPatches(patches, P)
      BY <2>2, <2>3, PastPatchesHonest
    <2>5. QED
      BY <2>2, <2>4 DEF patches
  <1>10. QED
    BY <1>7, <1>8, <1>9

LEMMA DestroyHonest ==
  ASSUME NEW P, NEW s \in ChainAccount, s \in P, NEW touched
  PROVE  LET patches == DestroyPatches(s, touched)
         IN  /\ patches \in Seq(Entry)
             /\ \A i \in DOMAIN patches : FromPast(patches[i], P)
             /\ HonestPatches(patches, P)
  <1> DEFINE p == [balance |-> s.balance,
                   nonce   |-> OmitZero(s.nonce),
                   code    |-> OmitZero(s.code),
                   storage |-> [k \in Slots |->
                                   IF k \in touched THEN s.storage[k] ELSE Nil]]
  <1>1. DestroyPatches(s, touched) = << p >>
    BY DEF DestroyPatches
  <1>2. p \in Entry /\ p.code = OmitZero(s.code)
    BY DEF ChainAccount, Entry, MaybeValue, OmitZero
  <1>3. /\ s.balance \in Balances(P) /\ s.nonce \in Nonces(P) /\ s.code \in Codes(P)
        /\ \A k \in Slots : s.storage[k] \in ValuesAt(P, k)
    BY DEF Balances, Nonces, Codes, ValuesAt
  <1>4. FromPast(p, P)
    BY <1>3 DEF FromPast, OmitZero
  <1> HIDE DEF p
  <1>5. \A e : HonestEntry(e, P) => /\ HonestEntry(Patched(e, p), P)
                                   /\ HasCode(Patched(e, p), P)
    BY <1>2, <1>4, WholeHonest
  <1>6. \A e : PatchedAll(e, << p >>) = Patched(e, p)
    BY <1>2, FewPatches
  <1>7. HonestPatches(<< p >>, P)
    BY <1>5, <1>6 DEF HonestPatches
  <1>8. << p >> \in Seq(Entry) /\ \A i \in DOMAIN << p >> : FromPast(<< p >>[i], P)
    BY <1>2, <1>4
  <1>9. QED
    BY <1>1, <1>7, <1>8

(* An operation writes what the chain had; past gives the states each account
   has been in. *)
HonestWrite(op, past) ==
    /\ op \in Operation
    /\ op.kind # "UpdateContractCode"
    /\ op.kind = "UpdateAccount" =>
        Honest(op.entry, past[op.addr]) /\ op.entry.code # Nil
    /\ op.kind = "UpdateStorage" =>
        op.value \in ValuesAt(past[op.addr], op.slot)
    /\ op.kind = "ProcessState" =>
        \A a \in Addrs :
            /\ \A i \in DOMAIN op.patches[a] : FromPast(op.patches[a][i], past[a])
            /\ HonestPatches(op.patches[a], past[a])

HonestStore(store, past) ==
    /\ store \in [Addrs -> MaybeStored]
    /\ \A a \in Addrs : HonestEntry(store[a], past[a])

LEMMA NewEntryHonest ==
  ASSUME NEW past, NEW op, HonestWrite(op, past), NEW a \in Addrs,
         op.kind # "ProcessState" => op.addr = a,
         NEW e, HonestEntry(e, past[a])
  PROVE  /\ HonestEntry(NewEntry(op, a, e), past[a])
         /\ HasCode(e, past[a]) => HasCode(NewEntry(op, a, e), past[a])
  <1> DEFINE P == past[a]
             x == NewEntry(op, a, e)
  <1>0. op \in Operation
    BY DEF HonestWrite
  <1>1. CASE op.kind = "UpdateAccount"
    <2>1. op.entry \in Entry /\ x = Encoded(op.entry)
      BY <1>0, <1>1 DEF Operation, NewEntry, Overwritten
    <2>2. Honest(op.entry, P) /\ op.entry.code # Nil
      BY <1>1 DEF HonestWrite
    <2>3. HonestEntry(x, P)
      BY <2>1, <2>2, EncodedHonest
    <2>4. x # Missing
      BY <2>1, StoredForm, MissingAssumption
    <2>5. x.code = Nil => 0 \in Codes(P)
      BY <2>1, <2>2 DEF Encoded, OmitZero, Honest, FromPast
    <2>6. QED
      BY <2>3, <2>4, <2>5 DEF HasCode
  <1>2. CASE op.kind = "UpdateStorage"
    <2> DEFINE n == [e EXCEPT !.storage[op.slot] = op.value]
    <2>1. op.slot \in Slots /\ op.value \in Value
      BY <1>0, <1>2 DEF Operation
    <2>2. CASE e # Missing
      <3>1. e \in Entry /\ Honest(e, P)
        BY <2>2 DEF HonestEntry, MaybeStored, StoredEntry
      <3>2. n \in Entry /\ x = Encoded(n)
        BY <1>2, <2>1, <2>2, <3>1 DEF NewEntry, WithStorage, Entry, MaybeValue
      <3>3. /\ n.balance = e.balance /\ n.nonce = e.nonce /\ n.code = e.code
            /\ \A k \in Slots : n.storage[k] = IF k = op.slot THEN op.value
                                               ELSE e.storage[k]
        BY <2>1, <3>1 DEF Entry
      <3>4. op.value \in ValuesAt(P, op.slot)
        BY <1>2 DEF HonestWrite
      <3> HIDE DEF n
      <3>5. Honest(n, P)
        BY <3>1, <3>3, <3>4 DEF Honest, FromPast
      <3>6. HonestEntry(x, P)
        BY <3>2, <3>5, EncodedHonest
      <3>7. x # Missing
        BY <3>2, StoredForm, MissingAssumption
      <3>8. x.code = Nil => n.code \in {Nil, 0}
        BY <3>2 DEF Encoded, OmitZero
      <3>9. HasCode(e, P) => HasCode(x, P)
        BY <3>3, <3>5, <3>7, <3>8 DEF HasCode, Honest, FromPast, Nil
      <3>10. QED
        BY <3>6, <3>9
    <2>3. CASE e = Missing
      <3>1. x = Missing
        BY <1>2, <2>3 DEF NewEntry, WithStorage
      <3>2. QED
        BY <2>3, <3>1
    <2>4. QED
      BY <2>2, <2>3
  <1>3. CASE op.kind = "ProcessState"
    <2>1. x = PatchedAll(e, op.patches[a])
      BY <1>3 DEF NewEntry
    <2>2. HonestPatches(op.patches[a], P)
      BY <1>3 DEF HonestWrite
    <2>3. QED
      BY <2>1, <2>2 DEF HonestPatches
  <1>4. QED
    BY <1>0, <1>1, <1>2, <1>3 DEF Operation, HonestWrite

LEMMA WrittenHonest ==
  ASSUME NEW past, NEW op, HonestWrite(op, past),
         NEW store, HonestStore(store, past)
  PROVE  /\ HonestStore(Written(op, store, store), past)
         /\ \A a \in Addrs : HasCode(store[a], past[a]) =>
                HasCode(Written(op, store, store)[a], past[a])
  <1> DEFINE new == Written(op, store, store)
  <1>1. ASSUME NEW a \in Addrs
        PROVE  /\ HonestEntry(new[a], past[a])
               /\ HasCode(store[a], past[a]) => HasCode(new[a], past[a])
    <2>1. HonestEntry(store[a], past[a])
      BY DEF HonestStore
    <2>2. CASE a \in Writes(op)
      <3>1. new[a] = NewEntry(op, a, store[a])
        BY <2>2 DEF Written
      <3>2. op.kind # "ProcessState" => op.addr = a
        BY <2>2 DEF Writes
      <3> HIDE DEF new
      <3>3. QED
        BY <2>1, <3>1, <3>2, NewEntryHonest
    <2>3. CASE a \notin Writes(op)
      <3>1. new[a] = store[a]
        BY <2>3 DEF Written
      <3>2. QED
        BY <2>1, <3>1
    <2>4. QED
      BY <2>2, <2>3
  <1>2. new = [a \in Addrs |-> new[a]]
    BY DEF Written
  <1> HIDE DEF new
  <1>3. new \in [Addrs -> MaybeStored]
    BY <1>1, <1>2 DEF HonestEntry
  <1>4. QED
    BY <1>1, <1>3 DEF HonestStore, new

(* What is left of an honest block is honest: if parts can be missing at all,
   reading no code where there is one is allowed for. *)
LEMMA SurvivingHonest ==
  ASSUME NEW past, NEW op, HonestWrite(op, past), NEW s \in Surviving(op)
  PROVE  HonestWrite(s, past)
  <1>1. op \in Operation
    BY DEF HonestWrite
  <1>2. /\ s \in Operation /\ s.kind = op.kind
        /\ s # op => /\ op.kind = "ProcessState"
                     /\ \A a \in Addrs : \A i \in DOMAIN s.patches[a] :
                            \E j \in DOMAIN op.patches[a] :
                                s.patches[a][i] = op.patches[a][j]
    BY <1>1, SurvivingType
  <1>3. CASE s = op
    BY <1>3
  <1>4. CASE s # op
    <2>1. \A a \in Addrs : \A i \in DOMAIN s.patches[a] :
                FromPast(s.patches[a][i], past[a])
      BY <1>2, <1>4 DEF HonestWrite
    <2>2. s.kind = "ProcessState"
      BY <1>2, <1>4
    <2>3. \A a \in Addrs : s.patches[a] \in Seq(Entry)
      BY <1>2, <2>2 DEF Operation
    <2>4. BigBlocks # {}
      BY <1>4 DEF Surviving
    <2>5. \A P : 0 \in Codes(P)
      BY <2>4 DEF Codes
    <2>6. \A a \in Addrs : HonestPatches(s.patches[a], past[a])
      BY <2>1, <2>3, <2>5, PastPatchesHonest
    <2>7. QED
      BY <1>2, <2>1, <2>2, <2>6 DEF HonestWrite
  <1>5. QED
    BY <1>3, <1>4

-----------------------------------------------------------------------------
(* The second invariant: everything in a store, and everything a request has
   read or is about to store, was true on the chain once. *)

Past == [a \in Addrs |-> { chain[n][a] : n \in 0..height }]

WorkOK ==
    /\ waiting \in BOOLEAN
    /\ work \in [pc : {"recv", "process", "setHead"}, num : Nat]
    /\ waiting => blockHead > 0
    /\ work.pc = "process" => work.num > 0

(* The write op of a request holds what the node has answered so far. *)
HonestOp(pc, op, past) ==
    /\ pc \in AccountPcs =>
        /\ op \in [kind : {"UpdateAccount"}, addr : Addrs, entry : Entry]
        /\ \A k \in Slots : op.entry.storage[k] = Nil
        /\ pc # "nonce" => op.entry.nonce \in Nonces(past[op.addr])
        /\ pc \notin {"nonce", "balance"} =>
                op.entry.balance \in Balances(past[op.addr])
        /\ pc = "storeAccount" => op.entry.code \in Codes(past[op.addr])
    /\ pc \in SlotPcs =>
        /\ op \in [kind : {"UpdateStorage"}, addr : Addrs, slot : Slots,
                   value : Value]
        /\ pc = "storeSlot" => op.value \in ValuesAt(past[op.addr], op.slot)

HonestSeen(s, P) ==
    /\ s.hash # Nil => /\ s.balance \in Balances(P)
                       /\ s.nonce \in Nonces(P)
                       /\ s.hash \in Codes(P)
    /\ s.code \in Codes(P) \cup {Nil}
    /\ \A k \in Slots : s.storage[k] \in ValuesAt(P, k) \cup {Nil}

SeenFrom(seen, failed, store, past) ==
    /\ seen \in [Addrs -> SeenAccount]
    /\ \A a \in Addrs :
        /\ Clean(failed) => HonestSeen(seen[a], past[a])
        /\ seen[a].hash \notin {Nil, 0} => HasCode(store[a], past[a])

HonestRequest(q, store, past) ==
    /\ q.pc \in Pcs
    /\ q.failed \in BOOLEAN
    /\ HonestOp(q.pc, q.op, past)
    /\ SeenFrom(q.seen, q.failed, store, past)

HInv ==
    /\ WorkOK
    /\ \A d \in Requests \cup {Live} : HonestStore(kv[d], Past)
    /\ \A r \in Requests : HonestRequest(req[r], kv[req[r].db], Past)

LEMMA PastFacts ==
  ASSUME IInv, NEW a \in Addrs
  PROVE  /\ height \in Nat
         /\ Past[a] \subseteq ChainAccount
         /\ \A n \in 0..height : chain[n][a] \in Past[a]
  <1>1. height \in 0..MaxHeight /\ chain \in [0..MaxHeight -> [Addrs -> ChainAccount]]
    BY DEF IInv, ChainOK
  <1>2. height \in Nat /\ \A n \in 0..height : n \in 0..MaxHeight
    BY <1>1, LiveDbAssumption
  <1>3. QED
    BY <1>1, <1>2 DEF Past

(* A request that has read nothing, and is not about to write. *)
LEMMA FreshHonest ==
  ASSUME NEW q, q.pc \in Undecided \cup {"route", "ready"}, q.failed = FALSE,
         q.seen = [a \in Addrs |-> Unread], NEW store, NEW past
  PROVE  HonestRequest(q, store, past)
  <1>1. Unread \in SeenAccount /\ Unread.hash = Nil
    BY DEF Unread, SeenAccount, MaybeValue
  <1>2. \A P : HonestSeen(Unread, P)
    BY DEF HonestSeen, Unread
  <1>3. SeenFrom(q.seen, q.failed, store, past)
    BY <1>1, <1>2 DEF SeenFrom
  <1>4. HonestOp(q.pc, q.op, past) /\ q.pc \in Pcs
    BY DEF HonestOp, AccountPcs, SlotPcs, Undecided, Pcs
  <1>5. QED
    BY <1>3, <1>4 DEF HonestRequest

LEMMA NoStoreHonest ==
  ASSUME NEW past
  PROVE  HonestStore(NoStore, past)
  BY DEF HonestStore, NoStore, HonestEntry, MaybeStored

LEMMA InitHonest == Init => HInv
  <1> SUFFICES ASSUME Init PROVE HInv
    OBVIOUS
  <1>1. WorkOK
    BY DEF Init, Feed!Init, WorkOK
  <1>2. \A d \in Requests \cup {Live} : HonestStore(kv[d], Past)
    BY NoStoreHonest DEF Init
  <1>3. ASSUME NEW r \in Requests PROVE HonestRequest(req[r], kv[req[r].db], Past)
    <2>1. req[r] = NoRequest
      BY DEF Init
    <2>2. /\ NoRequest.pc \in Undecided /\ NoRequest.failed = FALSE
          /\ NoRequest.seen = [a \in Addrs |-> Unread]
      BY DEF NoRequest, Undecided
    <2>3. QED
      BY <2>1, <2>2, FreshHonest
  <1>4. QED
    BY <1>1, <1>2, <1>3 DEF HInv

(* What was true once stays so. *)
LEMMA RequestGrows ==
  ASSUME NEW past, NEW more, \A a \in Addrs : past[a] \subseteq more[a],
         NEW q, NEW store, HonestRequest(q, store, past)
  PROVE  HonestRequest(q, store, more)
  <1>1. ASSUME NEW a \in Addrs
        PROVE  /\ Balances(past[a]) \subseteq Balances(more[a])
               /\ Nonces(past[a]) \subseteq Nonces(more[a])
               /\ Codes(past[a]) \subseteq Codes(more[a])
               /\ \A k : ValuesAt(past[a], k) \subseteq ValuesAt(more[a], k)
               /\ HasCode(store[a], past[a]) => HasCode(store[a], more[a])
    BY PastGrows, HonestGrows
  <1>2. HonestOp(q.pc, q.op, more)
    <2>1. q.op \in [kind : {"UpdateAccount"}, addr : Addrs, entry : Entry]
            => q.op.addr \in Addrs
      OBVIOUS
    <2>2. q.op \in [kind : {"UpdateStorage"}, addr : Addrs, slot : Slots,
                    value : Value] => q.op.addr \in Addrs
      OBVIOUS
    <2>3. QED
      BY <1>1, <2>1, <2>2 DEF HonestRequest, HonestOp
  <1>3. SeenFrom(q.seen, q.failed, store, more)
    BY <1>1 DEF HonestRequest, SeenFrom, HonestSeen
  <1>4. QED
    BY <1>2, <1>3 DEF HonestRequest

LEMMA NewBlockHonest ==
  ASSUME IInv, HInv, NewBlock
  PROVE  HInv'
  <1>1. /\ height \in Nat /\ height + 1 \in 0..MaxHeight /\ MaxHeight \in Nat
        /\ height' = height + 1
        /\ UNCHANGED <<feedVars, kv, req>>
    BY LiveDbAssumption DEF IInv, ChainOK, NewBlock
  <1>2. \A n \in 0..height : chain'[n] = chain[n]
    BY <1>1 DEF NewBlock
  <1>3. \A a \in Addrs : Past[a] \subseteq Past'[a]
    <2>1. \A n \in 0..height : n \in 0..height'
      BY <1>1
    <2>2. QED
      BY <1>2, <2>1 DEF Past
  <1>4. \A d \in Requests \cup {Live} : HonestStore(kv[d], Past')
    BY <1>3, HonestGrows DEF HInv, HonestStore
  <1>5. \A r \in Requests : HonestRequest(req[r], kv[req[r].db], Past')
    BY <1>3, RequestGrows DEF HInv
  <1>6. WorkOK'
    BY <1>1 DEF HInv, WorkOK, feedVars
  <1>7. QED
    BY <1>1, <1>4, <1>5, <1>6 DEF HInv

(* The trace of a block is an operation, and one that is honest. *)
LEMMA TraceOfHonest ==
  ASSUME IInv, HInv, NEW n \in 1..height, NEW touched \in SUBSET Slots
  PROVE  HonestWrite(TraceOf(n, touched), Past)
  <1> DEFINE op == TraceOf(n, touched)
  <1>1. ASSUME NEW a \in Addrs
        PROVE  /\ op.patches[a] \in Seq(Entry)
               /\ \A i \in DOMAIN op.patches[a] : FromPast(op.patches[a][i], Past[a])
               /\ HonestPatches(op.patches[a], Past[a])
    <2> DEFINE s == chain[n - 1][a]
               t == chain[n][a]
               ps == op.patches[a]
    <2>1. height \in Nat /\ n - 1 \in 0..height /\ n \in 0..height
      BY PastFacts
    <2>2. /\ s \in Past[a] /\ t \in Past[a]
          /\ s \in ChainAccount /\ t \in ChainAccount
      BY <2>1, PastFacts
    <2>3. ps = IF Destroyed(n, a) THEN DestroyPatches(s, touched)
               ELSE TracePatches(s, t)
      BY DEF TraceOf
    <2> HIDE DEF s, t, ps
    <2>4. CASE Destroyed(n, a)
      BY <2>2, <2>3, <2>4, DestroyHonest DEF ps
    <2>5. CASE ~Destroyed(n, a)
      BY <2>2, <2>3, <2>5, TraceHonest DEF ps
    <2>6. QED
      BY <2>4, <2>5
  <1>2. /\ op.kind = "ProcessState"
        /\ op = [kind |-> "ProcessState", touched |-> op.touched,
                 patches |-> op.patches]
        /\ op.touched \in SUBSET Addrs
        /\ op.patches = [a \in Addrs |-> op.patches[a]]
    BY DEF TraceOf
  <1> HIDE DEF op
  <1>3. op.patches \in [Addrs -> Seq(Entry)]
    BY <1>1, <1>2
  <1>4. op \in Operation
    BY <1>2, <1>3 DEF Operation
  <1>5. QED
    BY <1>1, <1>2, <1>4 DEF HonestWrite, op

LEMMA FeedHonest ==
  ASSUME IInv, HInv, UpdateState
  PROVE  HInv'
  <1>1. UNCHANGED <<chain, height, req>>
    BY DEF UpdateState, Poll, Receive, Process, SetHead
  <1>2. Past' = Past
    BY <1>1 DEF Past
  <1>3. ASSUME UNCHANGED kv, WorkOK' PROVE HInv'
    BY <1>1, <1>2, <1>3 DEF HInv
  <1>4. /\ height \in Nat /\ blockHead \in 0..height /\ work.num \in 0..blockHead
        /\ WorkOK
    BY LiveDbAssumption DEF IInv, ChainOK, FeedOK, HInv
  <1>5. CASE Poll
    <2>1. PICK n \in 1..height : Feed!Count(n)
      BY <1>5 DEF Poll
    <2>2. blockHead' = n /\ waiting' = TRUE /\ UNCHANGED <<work, kv>>
      BY <1>5, <2>1 DEF Poll, Feed!Count
    <2>3. WorkOK'
      BY <1>4, <2>2 DEF WorkOK
    <2>4. QED
      BY <1>3, <2>2, <2>3
  <1>6. CASE Receive
    <2>1. /\ waiting /\ waiting' = FALSE
          /\ work' = [pc |-> "process", num |-> blockHead]
          /\ UNCHANGED <<kv, blockHead>>
      BY <1>6 DEF Receive, Feed!Hand
    <2>2. blockHead \in Nat /\ blockHead > 0
      BY <1>4, <2>1 DEF WorkOK
    <2>3. /\ work' \in [pc : {"recv", "process", "setHead"}, num : Nat]
          /\ work'.num = blockHead
      BY <2>1, <2>2
    <2>4. WorkOK'
      BY <2>1, <2>2, <2>3 DEF WorkOK
    <2>5. QED
      BY <1>3, <2>1, <2>4
  <1>7. CASE SetHead
    <2>1. /\ work' = [work EXCEPT !.pc = "recv"]
          /\ UNCHANGED <<blockHead, waiting, kv>>
      BY <1>7 DEF SetHead, Feed!Publish
    <2>2. WorkOK'
      BY <1>4, <2>1 DEF WorkOK
    <2>3. QED
      BY <1>3, <2>1, <2>2
  <1>8. CASE Process
    <2>1. /\ work.pc = "process"
          /\ work' = [work EXCEPT !.pc = "setHead"]
          /\ UNCHANGED <<blockHead, waiting>>
      BY <1>8 DEF Process, Feed!Commit
    <2>2. WorkOK'
      BY <1>4, <2>1 DEF WorkOK
    <2>3. CASE UNCHANGED kv
      BY <1>3, <2>2, <2>3
    <2>4. CASE kv' # kv
      <3>1. PICK touched \in SUBSET Slots :
              \E op \in Surviving(TraceOf(work.num, touched)) :
                  kv' = [kv EXCEPT ![Live] = Written(op, kv[Live], kv[Live])]
        BY <1>8, <2>4 DEF Process
      <3>2. PICK op \in Surviving(TraceOf(work.num, touched)) :
                  kv' = [kv EXCEPT ![Live] = Written(op, kv[Live], kv[Live])]
        BY <3>1
      <3>3. work.num \in 1..height
        BY <1>4, <2>1 DEF WorkOK
      <3>4. HonestWrite(op, Past)
        BY <3>3, TraceOfHonest, SurvivingHonest
      <3> DEFINE new == Written(op, kv[Live], kv[Live])
      <3>5. /\ HonestStore(new, Past)
            /\ \A a \in Addrs : HasCode(kv[Live][a], Past[a]) => HasCode(new[a], Past[a])
        BY <3>4, WrittenHonest DEF HInv
      <3>6. \A d \in Requests \cup {Live} : kv'[d] = IF d = Live THEN new ELSE kv[d]
        BY <3>2 DEF IInv
      <3> HIDE DEF new
      <3>7. \A d \in Requests \cup {Live} : HonestStore(kv'[d], Past)
        BY <3>5, <3>6 DEF HInv
      <3>8. ASSUME NEW r \in Requests
            PROVE  HonestRequest(req[r], kv'[req[r].db], Past)
        <4>1. HonestRequest(req[r], kv[req[r].db], Past) /\ req[r].db \in {r, Live}
          BY DEF HInv, IInv, RequestOK
        <4>2. \A a \in Addrs : HasCode(kv[req[r].db][a], Past[a]) =>
                                    HasCode(kv'[req[r].db][a], Past[a])
          BY <3>5, <3>6, <4>1
        <4>3. QED
          BY <4>1, <4>2 DEF HonestRequest, SeenFrom
      <3>9. QED
        BY <1>1, <1>2, <2>2, <3>7, <3>8 DEF HInv
    <2>5. QED
      BY <2>3, <2>4
  <1>9. QED
    BY <1>5, <1>6, <1>7, <1>8 DEF UpdateState

(* A step of one request, which may write to one store, its own or the shared
   one. *)
LEMMA ServingHonest ==
  ASSUME IInv, HInv, NEW r \in Requests, Keeps, NEW q, NEW d \in {r, Live}, NEW new,
         req' = [req EXCEPT ![r] = q],
         kv' = [kv EXCEPT ![d] = new],
         HonestStore(new, Past),
         d = Live => \A a \in Addrs : HasCode(kv[Live][a], Past[a]) =>
                                            HasCode(new[a], Past[a]),
         q.db \in {r, Live},
         HonestRequest(q, IF q.db = d THEN new ELSE kv[q.db], Past)
  PROVE  HInv'
  <1>1. WorkOK' /\ Past' = Past
    BY DEF HInv, WorkOK, Past, Keeps, feedVars
  <1>2. \A x \in Requests \cup {Live} : kv'[x] = IF x = d THEN new ELSE kv[x]
    BY DEF IInv
  <1>3. \A x \in Requests : req'[x] = IF x = r THEN q ELSE req[x]
    BY DEF IInv
  <1>4. \A x \in Requests \cup {Live} : HonestStore(kv'[x], Past)
    BY <1>2 DEF HInv
  <1>5. ASSUME NEW x \in Requests
        PROVE  HonestRequest(req'[x], kv'[req'[x].db], Past)
    <2>1. CASE x = r
      BY <1>2, <1>3, <2>1
    <2>2. CASE x # r
      <3>1. HonestRequest(req[x], kv[req[x].db], Past) /\ req[x].db \in {x, Live}
        BY DEF HInv, IInv, RequestOK
      <3>2. \A a \in Addrs : HasCode(kv[req[x].db][a], Past[a]) =>
                                  HasCode(kv'[req[x].db][a], Past[a])
        BY <1>2, <2>2, <3>1
      <3>3. HonestRequest(req[x], kv'[req[x].db], Past)
        BY <3>1, <3>2 DEF HonestRequest, SeenFrom
      <3>4. QED
        BY <1>3, <2>2, <3>3
    <2>3. QED
      BY <2>1, <2>2
  <1>6. QED
    BY <1>1, <1>4, <1>5 DEF HInv

(* A step of one request that writes to no store. *)
LEMMA ReadHonest ==
  ASSUME IInv, HInv, NEW r \in Requests, Keeps, NEW q,
         req' = [req EXCEPT ![r] = q],
         UNCHANGED kv,
         q.db \in {r, Live},
         HonestRequest(q, kv[q.db], Past)
  PROVE  HInv'
  <1>1. kv' = [kv EXCEPT ![Live] = kv[Live]]
    BY DEF IInv
  <1>2. HonestStore(kv[Live], Past)
    BY DEF HInv
  <1>3. HonestRequest(q, IF q.db = Live THEN kv[Live] ELSE kv[q.db], Past)
    OBVIOUS
  <1>4. QED
    BY <1>1, <1>2, <1>3, ServingHonest

LEMMA ChoosingHonest ==
  ASSUME IInv, HInv, NEW r \in Requests,
         \/ Ask(r) \/ AskByHash(r) \/ HeadMatches(r) \/ ReturnHead(r)
         \/ AskNode(r) \/ AskFails(r) \/ Route(r)
  PROVE  HInv'
  <1>1. Keeps /\ UNCHANGED kv
    BY DEF Ask, AskByHash, HeadMatches, ReturnHead, AskNode, AskFails, Route
  <1>2. req[r].pc \in Undecided \cup {"route"}
    BY DEF Ask, AskByHash, HeadMatches, ReturnHead, AskNode, AskFails, Route,
       Undecided
  <1>3. /\ DOMAIN req[r] = Fields /\ req[r].db = Live /\ req[r].failed = FALSE
        /\ req[r].seen = [a \in Addrs |-> Unread]
    BY <1>2 DEF IInv, RequestOK, FreshOK
  <1>4. req' = [req EXCEPT ![r] = req'[r]]
    BY DEF IInv, Ask, AskByHash, HeadMatches, ReturnHead, AskNode, AskFails, Route,
       Goto
  <1>5. /\ req'[r].pc \in Undecided \cup {"route", "ready"}
        /\ req'[r].db \in {r, Live}
        /\ req'[r].failed = FALSE
        /\ req'[r].seen = [a \in Addrs |-> Unread]
    <2>1. CASE Ask(r)
      <3>1. PICK want : req' = [req EXCEPT ![r].pc = "check", ![r].want = want]
        BY <2>1 DEF Ask
      <3>2. req'[r] = [req[r] EXCEPT !.pc = "check", !.want = want]
        BY <3>1 DEF IInv
      <3>3. QED
        BY <1>3, <3>2 DEF Undecided, Fields, NoRequest
    <2>2. CASE AskByHash(r)
      <3>1. PICK n : req' = [req EXCEPT ![r].pc = "route", ![r].want = n,
                                        ![r].block = n]
        BY <2>2 DEF AskByHash
      <3>2. req'[r] = [req[r] EXCEPT !.pc = "route", !.want = n, !.block = n]
        BY <3>1 DEF IInv
      <3>3. QED
        BY <1>3, <3>2 DEF Fields, NoRequest
    <2>3. CASE HeadMatches(r)
      BY <1>3, <2>3 DEF IInv, HeadMatches, Goto, Undecided, Fields, NoRequest
    <2>4. CASE ReturnHead(r)
      BY <1>3, <2>4 DEF IInv, ReturnHead, Fields, NoRequest
    <2>5. CASE AskNode(r)
      BY <1>3, <2>5 DEF IInv, AskNode, Fields, NoRequest
    <2>6. CASE AskFails(r)
      BY <2>6 DEF IInv, AskFails, Undecided, NoRequest
    <2>7. CASE Route(r)
      BY <1>3, <2>7 DEF IInv, Route, Fields, NoRequest
    <2>8. QED
      BY <2>1, <2>2, <2>3, <2>4, <2>5, <2>6, <2>7
  <1>6. HonestRequest(req'[r], kv[req'[r].db], Past)
    BY <1>5, FreshHonest
  <1>7. QED
    BY <1>1, <1>4, <1>5, <1>6, ReadHonest

LEMMA FinishHonest ==
  ASSUME IInv, HInv, NEW r \in Requests, Finish(r)
  PROVE  HInv'
  <1>1. /\ Keeps
        /\ req' = [req EXCEPT ![r] = NoRequest]
        /\ kv' = [kv EXCEPT ![r] = NoStore]
    BY DEF Finish
  <1>2. /\ NoRequest.pc \in Undecided /\ NoRequest.failed = FALSE
        /\ NoRequest.seen = [a \in Addrs |-> Unread]
        /\ NoRequest.db = Live
    BY DEF NoRequest, Undecided
  <1>3. HonestRequest(NoRequest, IF NoRequest.db = r THEN NoStore
                                 ELSE kv[NoRequest.db], Past)
    BY <1>2, FreshHonest
  <1>4. QED
    BY <1>1, <1>2, <1>3, NoStoreHonest, LiveDbAssumption, ServingHonest

(* One account of what a request has read changes. *)
LEMMA SeenChanged ==
  ASSUME NEW past, NEW store, NEW seen, NEW failed,
         SeenFrom(seen, failed, store, past),
         NEW a \in Addrs, NEW mark,
         NEW new, new = [b \in Addrs |-> new[b]],
         \A b \in Addrs \ {a} : new[b] = seen[b],
         new[a] \in SeenAccount,
         Clean(mark) => Clean(failed) /\ HonestSeen(new[a], past[a]),
         new[a].hash \notin {Nil, 0} => HasCode(store[a], past[a])
  PROVE  SeenFrom(new, mark, store, past)
  <1>1. new \in [Addrs -> SeenAccount]
    BY DEF SeenFrom
  <1>2. QED
    BY <1>1 DEF SeenFrom

LEMMA AccountSeen ==
  ASSUME NEW past, NEW store, NEW seen, NEW failed,
         SeenFrom(seen, failed, store, past),
         NEW a \in Addrs, NEW balance \in MaybeValue, NEW nonce \in MaybeValue,
         NEW code \in MaybeValue, NEW mark,
         Clean(mark) => /\ Clean(failed)
                        /\ balance \in Balances(past[a])
                        /\ nonce \in Nonces(past[a])
                        /\ code \in Codes(past[a]),
         code # 0 => HasCode(store[a], past[a])
  PROVE  SeenFrom(NewSeen(seen, a, balance, nonce, code), mark, store, past)
  <1> DEFINE new == NewSeen(seen, a, balance, nonce, code)
  <1>1. seen \in [Addrs -> SeenAccount]
    BY DEF SeenFrom
  <1>2. /\ DOMAIN new = Addrs
        /\ \A b \in Addrs \ {a} : new[b] = seen[b]
        /\ new[a] = [balance |-> balance, nonce |-> nonce, hash |-> code,
                     code |-> seen[a].code, storage |-> seen[a].storage]
    BY <1>1 DEF NewSeen, SeenAccount
  <1>3. new = [b \in Addrs |-> new[b]]
    <2>1. new = [b \in DOMAIN new |-> new[b]]
      BY DEF NewSeen
    <2>2. QED
      BY <1>2, <2>1
  <1> HIDE DEF new
  <1>4. new[a] \in SeenAccount /\ new[a].hash = code
    BY <1>1, <1>2 DEF SeenAccount
  <1>5. Clean(mark) => Clean(failed) /\ HonestSeen(new[a], past[a])
    BY <1>2 DEF SeenFrom, HonestSeen
  <1>6. QED
    BY <1>2, <1>3, <1>4, <1>5, SeenChanged DEF new

LEMMA SlotSeen ==
  ASSUME NEW past, NEW store, NEW seen, NEW failed,
         SeenFrom(seen, failed, store, past),
         NEW a \in Addrs, NEW k \in Slots, NEW v \in MaybeValue, NEW mark,
         Clean(mark) => Clean(failed) /\ v \in ValuesAt(past[a], k)
  PROVE  SeenFrom(NewSlot(seen, a, k, v), mark, store, past)
  <1> DEFINE new == NewSlot(seen, a, k, v)
  <1>1. /\ seen \in [Addrs -> SeenAccount] /\ seen[a] \in SeenAccount
        /\ Clean(failed) => HonestSeen(seen[a], past[a])
        /\ seen[a].hash \notin {Nil, 0} => HasCode(store[a], past[a])
    BY DEF SeenFrom
  <1>2. /\ new = [b \in Addrs |-> new[b]]
        /\ \A b \in Addrs \ {a} : new[b] = seen[b]
        /\ new[a] = [seen[a] EXCEPT !.storage = [seen[a].storage EXCEPT ![k] = v]]
    BY <1>1 DEF NewSlot
  <1> HIDE DEF new
  <1>3. /\ new[a] \in SeenAccount
        /\ new[a].balance = seen[a].balance /\ new[a].nonce = seen[a].nonce
        /\ new[a].hash = seen[a].hash /\ new[a].code = seen[a].code
        /\ \A x \in Slots : new[a].storage[x] = IF x = k THEN v
                                                 ELSE seen[a].storage[x]
    <2> DEFINE storage == [seen[a].storage EXCEPT ![k] = v]
    <2>1. /\ storage \in [Slots -> MaybeValue]
          /\ \A x \in Slots : storage[x] = IF x = k THEN v ELSE seen[a].storage[x]
      BY <1>1 DEF SeenAccount
    <2>2. new[a] = [seen[a] EXCEPT !.storage = storage]
      BY <1>2
    <2> HIDE DEF storage
    <2>3. QED
      BY <1>1, <2>1, <2>2 DEF SeenAccount
  <1>4. Clean(mark) => Clean(failed) /\ HonestSeen(new[a], past[a])
    BY <1>1, <1>3 DEF HonestSeen
  <1>5. new[a].hash \notin {Nil, 0} => HasCode(store[a], past[a])
    BY <1>1, <1>3
  <1>6. QED
    BY <1>2, <1>3, <1>4, <1>5, SeenChanged DEF new

LEMMA CodeSeen ==
  ASSUME NEW past, NEW store, HonestStore(store, past), NEW seen, NEW failed,
         SeenFrom(seen, failed, store, past),
         NEW a \in Addrs, seen[a].hash \notin {Nil, 0}
  PROVE  SeenFrom(NewCode(seen, a, CodeOf(store[a])), failed, store, past)
  <1> DEFINE v == CodeOf(store[a])
             new == NewCode(seen, a, v)
  <1>1. /\ seen \in [Addrs -> SeenAccount] /\ seen[a] \in SeenAccount
        /\ Clean(failed) => HonestSeen(seen[a], past[a])
        /\ HasCode(store[a], past[a])
    BY DEF SeenFrom
  <1>2. store[a] \in Entry /\ Honest(store[a], past[a])
    BY <1>1 DEF HasCode, HonestStore, HonestEntry, MaybeStored, StoredEntry
  <1>3. v \in MaybeValue /\ v \in Codes(past[a])
    BY <1>1, <1>2 DEF CodeOf, HasCode, Honest, FromPast, Entry, MaybeValue, Value
  <1> HIDE DEF v
  <1>4. /\ new = [b \in Addrs |-> new[b]]
        /\ \A b \in Addrs \ {a} : new[b] = seen[b]
        /\ new[a] = [seen[a] EXCEPT !.code = v]
    BY <1>1 DEF NewCode
  <1> HIDE DEF new
  <1>5. /\ new[a] \in SeenAccount
        /\ new[a].balance = seen[a].balance /\ new[a].nonce = seen[a].nonce
        /\ new[a].hash = seen[a].hash /\ new[a].code = v
        /\ new[a].storage = seen[a].storage
    BY <1>1, <1>3, <1>4 DEF SeenAccount
  <1>6. Clean(failed) => HonestSeen(new[a], past[a])
    BY <1>1, <1>3, <1>5 DEF HonestSeen
  <1>7. QED
    BY <1>1, <1>4, <1>5, <1>6, SeenChanged DEF new, v

(* What a reading request has, and what the node answers it. *)
LEMMA ReadingFacts ==
  ASSUME IInv, HInv, NEW r \in Requests, req[r].pc \in ReadPcs
  PROVE  /\ DOMAIN req[r] = Fields
         /\ req[r].db \in {r, Live}
         /\ HonestRequest(req[r], kv[req[r].db], Past)
         /\ HonestStore(kv[req[r].db], Past)
         /\ \A a \in Addrs : /\ NodeAt(r)[a] \in Past[a]
                             /\ NodeAt(r)[a] \in ChainAccount
         /\ \A a \in Addrs : EntryAt(r, a) = kv[req[r].db][a]
  <1>1. RequestOK(r)
    BY DEF IInv
  <1>2. req[r].block \in 0..height
    BY <1>1 DEF RequestOK, BlockOK, ReadPcs, AccountPcs, SlotPcs, Undecided
  <1>3. \A a \in Addrs : /\ NodeAt(r)[a] \in Past[a]
                         /\ NodeAt(r)[a] \in ChainAccount
    BY <1>2, PastFacts DEF NodeAt
  <1>4. QED
    BY <1>1, <1>3 DEF RequestOK, HInv, EntryAt

LEMMA AnswerHonest ==
  ASSUME NEW P, NEW s \in P
  PROVE  /\ s.balance \in Balances(P) /\ s.nonce \in Nonces(P) /\ s.code \in Codes(P)
         /\ \A k : s.storage[k] \in ValuesAt(P, k)
  BY DEF Balances, Nonces, Codes, ValuesAt

LEMMA AccountHonest ==
  ASSUME IInv, HInv, NEW r \in Requests, NEW a \in Addrs,
         AccountHit(r, a) \/ AccountMiss(r, a)
  PROVE  HInv'
  <1> DEFINE old == req[r]
             store == kv[old.db]
  <1>1. Keeps /\ UNCHANGED kv /\ old.pc = "ready" /\ old.pc \in ReadPcs
    BY DEF AccountHit, AccountMiss, ReadPcs
  <1>2. /\ DOMAIN old = Fields /\ old.db \in {r, Live}
        /\ HonestRequest(old, store, Past) /\ HonestStore(store, Past)
        /\ EntryAt(r, a) = store[a]
    BY <1>1, ReadingFacts
  <1> HIDE DEF store
  <1>3. CASE AccountMiss(r, a)
    <2> DEFINE op == [kind |-> "UpdateAccount", addr |-> a, entry |-> NoEntry]
               q == [old EXCEPT !.pc = "nonce", !.op = op]
    <2>1. req' = [req EXCEPT ![r] = q]
      BY <1>3 DEF AccountMiss
    <2>2. /\ q.pc = "nonce" /\ q.op = op /\ q.db = old.db
          /\ q.seen = old.seen /\ q.failed = old.failed
      BY <1>2 DEF Fields, NoRequest
    <2>3. HonestOp("nonce", op, Past)
      BY DEF HonestOp, NoEntry, Entry, MaybeValue, SlotPcs
    <2> HIDE DEF op, q
    <2>4. HonestRequest(q, store, Past)
      BY <1>2, <2>2, <2>3 DEF HonestRequest, Pcs
    <2>5. QED
      BY <1>1, <1>2, <2>1, <2>2, <2>4, ReadHonest DEF store
  <1>4. CASE AccountHit(r, a)
    <2> DEFINE e == EntryAt(r, a)
               q == AccountRead(old, a, e.balance, e.nonce, CodeOf(e))
    <2>1. req' = [req EXCEPT ![r] = q] /\ Answers(e)
      BY <1>4 DEF AccountHit
    <2> HIDE DEF e
    <2>2. /\ q.pc = "ready" /\ q.db = old.db /\ q.failed = old.failed
          /\ q.seen = NewSeen(old.seen, a, e.balance, e.nonce, CodeOf(e))
      BY <1>2, AccountReadFields
    <2> HIDE DEF q
    <2>3. /\ e = store[a] /\ e # Missing /\ e.nonce # Nil /\ e.balance # Nil
          /\ e \in Entry /\ Honest(e, Past[a])
      BY <1>2, <2>1 DEF e, Answers, HonestStore, HonestEntry, MaybeStored, StoredEntry
    <2>4. /\ e.balance \in Balances(Past[a])
          /\ e.nonce \in Nonces(Past[a])
          /\ CodeOf(e) \in Codes(Past[a])
          /\ HasCode(e, Past[a])
      BY <2>3 DEF Honest, FromPast, CodeOf, HasCode
    <2>5. /\ e.balance \in MaybeValue /\ e.nonce \in MaybeValue
          /\ CodeOf(e) \in MaybeValue
      BY <2>3 DEF Entry, CodeOf, MaybeValue, Value
    <2>6. SeenFrom(q.seen, q.failed, store, Past)
      BY <1>2, <2>2, <2>3, <2>4, <2>5, AccountSeen DEF HonestRequest
    <2>7. HonestRequest(q, store, Past)
      BY <1>2, <2>2, <2>6 DEF HonestRequest, HonestOp, Pcs, AccountPcs, SlotPcs
    <2>8. QED
      BY <1>1, <1>2, <2>1, <2>2, <2>7, ReadHonest DEF store
  <1>5. QED
    BY <1>3, <1>4

(* The three fetches of an account. *)
LEMMA FetchHonest ==
  ASSUME IInv, HInv, NEW r \in Requests,
         FetchNonce(r) \/ FetchBalance(r) \/ FetchCode(r)
  PROVE  HInv'
  <1> DEFINE old == req[r]
             store == kv[old.db]
             s == NodeAt(r)[old.op.addr]
  <1>1. /\ Keeps /\ UNCHANGED kv /\ old.pc \in {"nonce", "balance", "code"}
        /\ old.pc \in ReadPcs /\ old.pc \in AccountPcs
    BY DEF FetchNonce, FetchBalance, FetchCode, ReadPcs, AccountPcs
  <1>2. /\ DOMAIN old = Fields /\ old.db \in {r, Live}
        /\ HonestRequest(old, store, Past)
        /\ \A a \in Addrs : NodeAt(r)[a] \in Past[a] /\ NodeAt(r)[a] \in ChainAccount
    BY <1>1, ReadingFacts
  <1>3. /\ HonestOp(old.pc, old.op, Past)
        /\ old.op \in [kind : {"UpdateAccount"}, addr : Addrs, entry : Entry]
    BY <1>1, <1>2 DEF HonestRequest, HonestOp
  <1>4. /\ s \in ChainAccount
        /\ s.balance \in Balances(Past[old.op.addr])
        /\ s.nonce \in Nonces(Past[old.op.addr])
        /\ s.code \in Codes(Past[old.op.addr])
    <2>1. old.op.addr \in Addrs
      BY <1>3
    <2>2. s \in Past[old.op.addr] /\ s \in ChainAccount
      BY <1>2, <2>1
    <2>3. QED
      BY <2>2, AnswerHonest
  <1>5. s.balance \in MaybeValue /\ s.nonce \in MaybeValue /\ s.code \in MaybeValue
    BY <1>4 DEF ChainAccount, MaybeValue
  <1> HIDE DEF s, store
  <1>6. ASSUME NEW pc \in {"balance", "code", "storeAccount"}, NEW entry,
               req' = [req EXCEPT ![r].pc = pc, ![r].op.entry = entry],
               HonestOp(pc, [old.op EXCEPT !.entry = entry], Past)
        PROVE  HInv'
    <2> DEFINE q == [old EXCEPT !.pc = pc, !.op = [old.op EXCEPT !.entry = entry]]
    <2>1. req' = [req EXCEPT ![r] = q]
      BY <1>2, <1>6 DEF Fields, NoRequest
    <2>2. /\ q.pc = pc /\ q.op = [old.op EXCEPT !.entry = entry]
          /\ q.db = old.db /\ q.seen = old.seen /\ q.failed = old.failed
      BY <1>2 DEF Fields, NoRequest
    <2> HIDE DEF q
    <2>3. HonestRequest(q, store, Past)
      BY <1>2, <1>6, <2>2 DEF HonestRequest, Pcs
    <2>4. QED
      BY <1>1, <1>2, <2>1, <2>2, <2>3, ReadHonest DEF store
  <1>7. CASE FetchNonce(r)
    <2> DEFINE entry == [old.op.entry EXCEPT !.nonce = s.nonce]
    <2>1. req' = [req EXCEPT ![r].pc = "balance", ![r].op.entry = entry]
      BY <1>7 DEF FetchNonce, s
    <2>2. HonestOp("balance", [old.op EXCEPT !.entry = entry], Past)
      <3> DEFINE op == [old.op EXCEPT !.entry = entry]
      <3>1. /\ entry \in Entry /\ entry.nonce = s.nonce
            /\ entry.storage = old.op.entry.storage
        BY <1>3, <1>5 DEF Entry
      <3>2. \A k \in Slots : old.op.entry.storage[k] = Nil
        BY <1>1, <1>3 DEF HonestOp
      <3> HIDE DEF entry
      <3>3. /\ op \in [kind : {"UpdateAccount"}, addr : Addrs, entry : Entry]
            /\ op.addr = old.op.addr /\ op.entry = entry
        BY <1>3, <3>1
      <3> HIDE DEF op
      <3>4. HonestOp("balance", op, Past)
        BY <1>4, <3>1, <3>2, <3>3 DEF HonestOp, AccountPcs, SlotPcs
      <3>5. QED
        BY <3>4 DEF op
    <2>3. QED
      BY <1>6, <2>1, <2>2
  <1>8. CASE FetchBalance(r)
    <2> DEFINE entry == [old.op.entry EXCEPT !.balance = s.balance]
    <2>1. req' = [req EXCEPT ![r].pc = "code", ![r].op.entry = entry]
      BY <1>8 DEF FetchBalance, s
    <2>2. old.pc = "balance"
      BY <1>8 DEF FetchBalance
    <2>3. HonestOp("code", [old.op EXCEPT !.entry = entry], Past)
      BY <1>3, <1>4, <1>5, <2>2 DEF HonestOp, AccountPcs, SlotPcs, Entry
    <2>4. QED
      BY <1>6, <2>1, <2>3
  <1>9. CASE FetchCode(r)
    <2> DEFINE entry == [old.op.entry EXCEPT !.code = s.code]
    <2>1. req' = [req EXCEPT ![r].pc = "storeAccount", ![r].op.entry = entry]
      BY <1>9 DEF FetchCode, s
    <2>2. old.pc = "code"
      BY <1>9 DEF FetchCode
    <2>3. HonestOp("storeAccount", [old.op EXCEPT !.entry = entry], Past)
      BY <1>3, <1>4, <1>5, <2>2 DEF HonestOp, AccountPcs, SlotPcs, Entry
    <2>4. QED
      BY <1>6, <2>1, <2>3
  <1>10. QED
    BY <1>7, <1>8, <1>9

LEMMA StoreAccountHonest ==
  ASSUME IInv, HInv, NEW r \in Requests, StoreAccount(r)
  PROVE  HInv'
  <1> DEFINE old == req[r]
             store == kv[old.db]
             op == old.op
             a == op.addr
             q == AccountRead(old, a, op.entry.balance, op.entry.nonce, op.entry.code)
             new == Written(op, store, store)
  <1>1. /\ Keeps /\ old.pc = "storeAccount" /\ old.pc \in ReadPcs
        /\ req' = [req EXCEPT ![r] = q]
        /\ kv' = [kv EXCEPT ![old.db] = new]
    BY DEF StoreAccount, StoreIn, ReadPcs, AccountPcs
  <1>2. /\ DOMAIN old = Fields /\ old.db \in {r, Live}
        /\ HonestRequest(old, store, Past) /\ HonestStore(store, Past)
    BY <1>1, ReadingFacts
  <1>3. /\ q.pc = "ready" /\ q.db = old.db /\ q.failed = old.failed
        /\ q.seen = NewSeen(old.seen, a, op.entry.balance, op.entry.nonce,
                            op.entry.code)
    BY <1>2, AccountReadFields
  <1>4. /\ op \in [kind : {"UpdateAccount"}, addr : Addrs, entry : Entry]
        /\ \A k \in Slots : op.entry.storage[k] = Nil
        /\ op.entry.nonce \in Nonces(Past[a])
        /\ op.entry.balance \in Balances(Past[a])
        /\ op.entry.code \in Codes(Past[a])
    BY <1>1, <1>2 DEF HonestRequest, HonestOp, AccountPcs
  <1>5. op.kind = "UpdateAccount" /\ a \in Addrs /\ op.entry \in Entry
    BY <1>4
  <1>6. Nil \notin Codes(Past[a])
    <2>1. 0 # Nil
      BY DEF Nil
    <2>2. QED
      BY <1>5, <2>1, PastFacts DEF Codes, ChainAccount, Value, Nil
  <1>7. HonestWrite(op, Past)
    <2>1. op \in Operation
      BY <1>4 DEF Operation
    <2>2. Honest(op.entry, Past[a])
      BY <1>4, <1>6 DEF Honest, FromPast
    <2>3. QED
      BY <1>4, <1>5, <1>6, <2>1, <2>2 DEF HonestWrite
  <1>8. /\ HonestStore(new, Past)
        /\ \A b \in Addrs : HasCode(store[b], Past[b]) => HasCode(new[b], Past[b])
    BY <1>2, <1>7, WrittenHonest
  <1>9. HasCode(new[a], Past[a])
    <2>1. new[a] = Encoded(op.entry)
      BY <1>5 DEF Written, Writes, NewEntry, Overwritten
    <2>2. Encoded(op.entry) # Missing
      BY <1>5, StoredForm, MissingAssumption
    <2>3. Encoded(op.entry).code = OmitZero(op.entry.code)
      BY DEF Encoded
    <2> HIDE DEF new
    <2>4. QED
      BY <1>4, <1>6, <2>1, <2>2, <2>3 DEF HasCode, OmitZero
  <1> HIDE DEF q, new, store
  <1>10. HonestRequest(q, new, Past)
    <2>1. SeenFrom(old.seen, old.failed, new, Past)
      BY <1>2, <1>8 DEF HonestRequest, SeenFrom
    <2>2. /\ op.entry.balance \in MaybeValue /\ op.entry.nonce \in MaybeValue
          /\ op.entry.code \in MaybeValue
      BY <1>5 DEF Entry
    <2>3. SeenFrom(q.seen, q.failed, new, Past)
      BY <1>3, <1>4, <1>5, <1>9, <2>1, <2>2, AccountSeen
    <2>4. QED
      BY <1>2, <1>3, <2>3 DEF HonestRequest, HonestOp, Pcs, AccountPcs, SlotPcs
  <1>11. QED
    BY <1>1, <1>2, <1>3, <1>8, <1>10, ServingHonest DEF store

LEMMA CodeHonest ==
  ASSUME IInv, HInv, NEW r \in Requests, NEW a \in Addrs, ReadCode(r, a)
  PROVE  HInv'
  <1> DEFINE old == req[r]
             store == kv[old.db]
             q == [old EXCEPT !.seen[a].code = CodeOf(EntryAt(r, a))]
  <1>1. /\ Keeps /\ UNCHANGED kv /\ old.pc = "ready" /\ old.pc \in ReadPcs
        /\ old.seen[a].hash \notin {Nil, 0}
        /\ req' = [req EXCEPT ![r] = q]
    BY DEF ReadCode, ReadPcs
  <1>2. /\ DOMAIN old = Fields /\ old.db \in {r, Live}
        /\ HonestRequest(old, store, Past) /\ HonestStore(store, Past)
        /\ EntryAt(r, a) = store[a]
    BY <1>1, ReadingFacts
  <1>3. /\ q.pc = old.pc /\ q.op = old.op
        /\ q.db = old.db /\ q.failed = old.failed
        /\ q.seen = NewCode(old.seen, a, CodeOf(store[a]))
    BY <1>2 DEF NewCode, Fields, NoRequest
  <1> HIDE DEF store, q
  <1>4. HonestRequest(q, store, Past)
    BY <1>1, <1>2, <1>3, CodeSeen DEF HonestRequest
  <1>5. QED
    BY <1>1, <1>2, <1>3, <1>4, ReadHonest DEF store

LEMMA SlotHonest ==
  ASSUME IInv, HInv, NEW r \in Requests, NEW a \in Addrs, NEW k \in Slots,
         SlotHit(r, a, k) \/ SlotMiss(r, a, k)
  PROVE  HInv'
  <1> DEFINE old == req[r]
             store == kv[old.db]
  <1>1. Keeps /\ UNCHANGED kv /\ old.pc = "ready" /\ old.pc \in ReadPcs
    BY DEF SlotHit, SlotMiss, SlotUnread, ReadPcs
  <1>2. /\ DOMAIN old = Fields /\ old.db \in {r, Live}
        /\ HonestRequest(old, store, Past) /\ HonestStore(store, Past)
        /\ EntryAt(r, a) = store[a]
    BY <1>1, ReadingFacts
  <1> HIDE DEF store
  <1>3. CASE SlotMiss(r, a, k)
    <2> DEFINE op == [kind |-> "UpdateStorage", addr |-> a, slot |-> k, value |-> 0]
               q == [old EXCEPT !.pc = "slot", !.op = op]
    <2>1. req' = [req EXCEPT ![r] = q]
      BY <1>3 DEF SlotMiss
    <2>2. /\ q.pc = "slot" /\ q.op = op /\ q.db = old.db
          /\ q.seen = old.seen /\ q.failed = old.failed
      BY <1>2 DEF Fields, NoRequest
    <2>3. HonestOp("slot", op, Past)
      BY DEF HonestOp, AccountPcs, Value
    <2> HIDE DEF op, q
    <2>4. HonestRequest(q, store, Past)
      BY <1>2, <2>2, <2>3 DEF HonestRequest, Pcs
    <2>5. QED
      BY <1>1, <1>2, <2>1, <2>2, <2>4, ReadHonest DEF store
  <1>4. CASE SlotHit(r, a, k)
    <2> DEFINE v == store[a].storage[k]
               q == [old EXCEPT !.seen[a].storage[k] = v]
    <2>1. req' = [req EXCEPT ![r] = q] /\ store[a] # Missing /\ v # Nil
      BY <1>2, <1>4 DEF SlotHit, SlotKnown
    <2> HIDE DEF v
    <2>2. /\ q.pc = old.pc /\ q.op = old.op
          /\ q.db = old.db /\ q.failed = old.failed
          /\ q.seen = NewSlot(old.seen, a, k, v)
      BY <1>2 DEF NewSlot, Fields, NoRequest
    <2> HIDE DEF q
    <2>3. store[a] \in Entry /\ Honest(store[a], Past[a])
      BY <1>2, <2>1 DEF HonestStore, HonestEntry, MaybeStored, StoredEntry
    <2>4. v \in MaybeValue /\ v \in ValuesAt(Past[a], k)
      BY <2>1, <2>3 DEF v, Honest, FromPast, Entry
    <2>5. SeenFrom(q.seen, q.failed, store, Past)
      BY <1>2, <2>2, <2>4, SlotSeen DEF HonestRequest
    <2>6. HonestRequest(q, store, Past)
      BY <1>2, <2>2, <2>5 DEF HonestRequest
    <2>7. QED
      BY <1>1, <1>2, <2>1, <2>2, <2>6, ReadHonest DEF store
  <1>5. QED
    BY <1>3, <1>4

LEMMA FetchSlotHonest ==
  ASSUME IInv, HInv, NEW r \in Requests, FetchSlot(r)
  PROVE  HInv'
  <1> DEFINE old == req[r]
             store == kv[old.db]
             v == NodeAt(r)[old.op.addr].storage[old.op.slot]
             op == [old.op EXCEPT !.value = v]
             q == [old EXCEPT !.pc = "storeSlot", !.op = op]
  <1>1. /\ Keeps /\ UNCHANGED kv /\ old.pc = "slot"
        /\ old.pc \in ReadPcs /\ old.pc \in SlotPcs
        /\ req' = [req EXCEPT ![r].pc = "storeSlot", ![r].op.value = v]
    BY DEF FetchSlot, ReadPcs, SlotPcs
  <1>2. /\ DOMAIN old = Fields /\ old.db \in {r, Live}
        /\ HonestRequest(old, store, Past)
        /\ \A a \in Addrs : NodeAt(r)[a] \in Past[a] /\ NodeAt(r)[a] \in ChainAccount
    BY <1>1, ReadingFacts
  <1>3. old.op \in [kind : {"UpdateStorage"}, addr : Addrs, slot : Slots,
                    value : Value]
    BY <1>1, <1>2 DEF HonestRequest, HonestOp
  <1>4. v \in Value /\ v \in ValuesAt(Past[old.op.addr], old.op.slot)
    <2>1. old.op.addr \in Addrs /\ old.op.slot \in Slots
      BY <1>3
    <2>2. /\ NodeAt(r)[old.op.addr] \in Past[old.op.addr]
          /\ NodeAt(r)[old.op.addr] \in ChainAccount
      BY <1>2, <2>1
    <2>3. QED
      BY <2>1, <2>2, AnswerHonest DEF ChainAccount
  <1> HIDE DEF store, v
  <1>5. /\ op \in [kind : {"UpdateStorage"}, addr : Addrs, slot : Slots, value : Value]
        /\ op.addr = old.op.addr /\ op.slot = old.op.slot /\ op.value = v
    BY <1>3, <1>4
  <1>6. req' = [req EXCEPT ![r] = q]
    BY <1>1, <1>2 DEF Fields, NoRequest
  <1> HIDE DEF op
  <1>7. /\ q.pc = "storeSlot" /\ q.op = op
        /\ q.db = old.db /\ q.seen = old.seen /\ q.failed = old.failed
    BY <1>2 DEF Fields, NoRequest
  <1> HIDE DEF q
  <1>8. HonestOp("storeSlot", op, Past)
    BY <1>4, <1>5 DEF HonestOp, AccountPcs
  <1>9. HonestRequest(q, store, Past)
    BY <1>2, <1>7, <1>8 DEF HonestRequest, Pcs
  <1>10. QED
    BY <1>1, <1>2, <1>6, <1>7, <1>9, ReadHonest DEF store

(* The slot is stored, or the commit fails. *)
LEMMA StoreSlotHonest ==
  ASSUME IInv, HInv, NEW r \in Requests, StoreSlot(r)
  PROVE  HInv'
  <1> DEFINE old == req[r]
             store == kv[old.db]
             op == old.op
             q == SlotRead(old)
  <1>1. /\ Keeps /\ old.pc = "storeSlot" /\ old.pc \in ReadPcs
        /\ req' = [req EXCEPT ![r] = q]
        /\ \/ kv' = [kv EXCEPT ![old.db] = Written(op, store, store)]
           \/ UNCHANGED kv
    BY DEF StoreSlot, StoreIn, ReadPcs, SlotPcs
  <1>2. /\ DOMAIN old = Fields /\ old.db \in {r, Live}
        /\ HonestRequest(old, store, Past) /\ HonestStore(store, Past)
    BY <1>1, ReadingFacts
  <1>3. /\ q.pc = "ready" /\ q.db = old.db /\ q.failed = old.failed
        /\ q.seen = NewSlot(old.seen, op.addr, op.slot, op.value)
    BY <1>2, SlotReadFields
  <1>4. kv = [kv EXCEPT ![old.db] = store]
    BY DEF IInv
  <1>5. PICK new \in {store, Written(op, store, store)} :
            kv' = [kv EXCEPT ![old.db] = new]
    BY <1>1, <1>4
  <1>6. /\ op \in [kind : {"UpdateStorage"}, addr : Addrs, slot : Slots, value : Value]
        /\ op.value \in ValuesAt(Past[op.addr], op.slot)
    BY <1>1, <1>2 DEF HonestRequest, HonestOp, SlotPcs
  <1>7. HonestWrite(op, Past)
    BY <1>6 DEF HonestWrite, Operation
  <1>8. /\ HonestStore(new, Past)
        /\ \A b \in Addrs : HasCode(store[b], Past[b]) => HasCode(new[b], Past[b])
    BY <1>2, <1>5, <1>7, WrittenHonest
  <1> HIDE DEF q, store
  <1>9. HonestRequest(q, new, Past)
    <2>1. SeenFrom(old.seen, old.failed, new, Past)
      BY <1>2, <1>8 DEF HonestRequest, SeenFrom
    <2>2. op.addr \in Addrs /\ op.slot \in Slots /\ op.value \in MaybeValue
      BY <1>6 DEF MaybeValue
    <2>3. SeenFrom(q.seen, q.failed, new, Past)
      BY <1>3, <1>6, <2>1, <2>2, SlotSeen
    <2>4. QED
      BY <1>2, <1>3, <2>3 DEF HonestRequest, HonestOp, Pcs, AccountPcs, SlotPcs
  <1>10. QED
    BY <1>1, <1>2, <1>3, <1>5, <1>8, <1>9, ServingHonest DEF store

(* A fetch that fails marks the request, and writes nothing. *)
LEMMA FetchFailsHonest ==
  ASSUME IInv, HInv, NEW r \in Requests, FetchFails(r)
  PROVE  HInv'
  <1> DEFINE old == req[r]
             store == kv[old.db]
             f == [old EXCEPT !.failed = TRUE]
  <1>1. Keeps /\ UNCHANGED kv
    BY DEF FetchFails
  <1>2. \/ /\ f.pc \in {"nonce", "balance", "code"}
           /\ req' = [req EXCEPT ![r] = AccountRead(f, f.op.addr, 0, 0, 0)]
        \/ /\ f.pc = "slot"
           /\ req' = [req EXCEPT ![r] = SlotRead(f)]
        \/ /\ f.pc \in {"nonce", "balance", "code", "slot"}
           /\ req' = [req EXCEPT ![r] = Asking(f)]
    BY DEF FetchFails, Asking
  <1>3. DOMAIN old = Fields
    BY DEF IInv, RequestOK
  <1>4. /\ DOMAIN f = Fields /\ f.pc = old.pc /\ f.op = old.op
        /\ f.db = old.db /\ f.seen = old.seen /\ f.failed = TRUE
    BY <1>3 DEF Fields, NoRequest
  <1>5. old.pc \in ReadPcs
    BY <1>2, <1>4 DEF ReadPcs, AccountPcs, SlotPcs
  <1>6. old.db \in {r, Live} /\ HonestRequest(old, store, Past)
    BY <1>5, ReadingFacts
  <1> HIDE DEF store, f
  <1>7. ~Clean(TRUE)
    BY DEF Clean
  <1>8. 0 \in MaybeValue
    BY DEF MaybeValue, Value
  <1>9. ASSUME NEW q, req' = [req EXCEPT ![r] = q], q.pc = "ready", q.db = old.db,
               q.failed = TRUE, SeenFrom(q.seen, TRUE, store, Past)
        PROVE  HInv'
    <2>1. HonestRequest(q, store, Past)
      BY <1>9 DEF HonestRequest, HonestOp, Pcs, AccountPcs, SlotPcs
    <2>2. QED
      BY <1>1, <1>6, <1>9, <2>1, ReadHonest DEF store
  <1>10. CASE /\ f.pc \in {"nonce", "balance", "code"}
              /\ req' = [req EXCEPT ![r] = AccountRead(f, f.op.addr, 0, 0, 0)]
    <2> DEFINE q == AccountRead(f, f.op.addr, 0, 0, 0)
    <2>1. req' = [req EXCEPT ![r] = q]
      BY <1>10
    <2>2. /\ q.pc = "ready" /\ q.db = old.db /\ q.failed = TRUE
          /\ q.seen = NewSeen(old.seen, old.op.addr, 0, 0, 0)
      BY <1>4, AccountReadFields
    <2>3. old.op.addr \in Addrs
      BY <1>4, <1>6, <1>10 DEF HonestRequest, HonestOp, AccountPcs
    <2> HIDE DEF q
    <2>4. SeenFrom(q.seen, TRUE, store, Past)
      BY <1>6, <1>7, <1>8, <2>2, <2>3, AccountSeen DEF HonestRequest
    <2>5. QED
      BY <1>9, <2>1, <2>2, <2>4
  <1>11. CASE /\ f.pc = "slot"
              /\ req' = [req EXCEPT ![r] = SlotRead(f)]
    <2> DEFINE q == SlotRead(f)
    <2>1. req' = [req EXCEPT ![r] = q]
      BY <1>11
    <2>2. /\ q.pc = "ready" /\ q.db = old.db /\ q.failed = TRUE
          /\ q.seen = NewSlot(old.seen, old.op.addr, old.op.slot, old.op.value)
      BY <1>4, SlotReadFields
    <2>3. /\ old.op.addr \in Addrs /\ old.op.slot \in Slots
          /\ old.op.value \in MaybeValue
      BY <1>4, <1>6, <1>11 DEF HonestRequest, HonestOp, SlotPcs, MaybeValue
    <2> HIDE DEF q
    <2>4. SeenFrom(q.seen, TRUE, store, Past)
      BY <1>6, <1>7, <2>2, <2>3, SlotSeen DEF HonestRequest
    <2>5. QED
      BY <1>9, <2>1, <2>2, <2>4
  <1>12. ASSUME req' = [req EXCEPT ![r] = Asking(f)] PROVE HInv'
    <2> DEFINE q == Asking(f)
    <2>1. /\ q.pc = "ready" /\ q.db = old.db /\ q.failed = TRUE
          /\ q.seen = old.seen
      BY <1>4 DEF Asking, Fields, NoRequest
    <2> HIDE DEF q
    <2>2. SeenFrom(q.seen, TRUE, store, Past)
      BY <1>6, <1>7, <2>1 DEF HonestRequest, SeenFrom
    <2>3. QED
      BY <1>9, <1>12, <2>1, <2>2 DEF q
  <1>13. QED
    BY <1>2, <1>10, <1>11, <1>12

LEMMA NextHonest == IInv /\ HInv /\ [Next]_vars => HInv'
  <1> SUFFICES ASSUME IInv, HInv, [Next]_vars PROVE HInv'
    OBVIOUS
  <1>1. CASE UNCHANGED vars
    BY <1>1 DEF vars, feedVars, HInv, WorkOK, Past
  <1>2. CASE NewBlock
    BY <1>2, NewBlockHonest
  <1>3. CASE UpdateState
    BY <1>3, FeedHonest
  <1>4. ASSUME NEW r \in Requests, Serve(r) PROVE HInv'
    <2>1. CASE \/ Ask(r) \/ AskByHash(r) \/ HeadMatches(r) \/ ReturnHead(r)
               \/ AskNode(r) \/ AskFails(r) \/ Route(r)
      BY <2>1, ChoosingHonest
    <2>2. CASE FetchNonce(r) \/ FetchBalance(r) \/ FetchCode(r)
      BY <2>2, FetchHonest
    <2>3. CASE StoreAccount(r)
      BY <2>3, StoreAccountHonest
    <2>4. CASE FetchSlot(r)
      BY <2>4, FetchSlotHonest
    <2>5. CASE StoreSlot(r)
      BY <2>5, StoreSlotHonest
    <2>6. CASE FetchFails(r)
      BY <2>6, FetchFailsHonest
    <2>7. CASE Finish(r)
      BY <2>7, FinishHonest
    <2>8. CASE \E a \in Addrs : AccountHit(r, a) \/ AccountMiss(r, a)
      BY <2>8, AccountHonest
    <2>9. CASE \E a \in Addrs : ReadCode(r, a)
      BY <2>9, CodeHonest
    <2>10. CASE \E a \in Addrs : \E k \in Slots : SlotHit(r, a, k) \/ SlotMiss(r, a, k)
      BY <2>10, SlotHonest
    <2>11. QED
      BY <1>4, <2>1, <2>2, <2>3, <2>4, <2>5, <2>6, <2>7, <2>8, <2>9, <2>10 DEF Serve
  <1>5. QED
    BY <1>1, <1>2, <1>3, <1>4 DEF Next

LEMMA HonestInvariant == Spec => [](IInv /\ HInv)
  <1>1. Init => IInv /\ HInv
    BY InitHolds, InitHonest
  <1>2. IInv /\ HInv /\ [Next]_vars => (IInv /\ HInv)'
    BY NextKeeps, NextHonest
  <1>3. QED
    BY <1>1, <1>2, PTL DEF Spec

(* TypeOK: besides the types, that stored entries are as decodeAccount returns
   them, and that ContractCode and GetStorage find an entry for every account
   whose code hash was answered. *)
THEOREM BackendTyped == Spec => []TypeOK
  <1>1. IInv /\ HInv => TypeOK
    <2> SUFFICES ASSUME IInv, HInv PROVE TypeOK
      OBVIOUS
    <2>1. /\ chain \in [0..MaxHeight -> [Addrs -> ChainAccount]]
          /\ height \in 0..MaxHeight /\ height \in Nat
          /\ blockHead \in 0..height
          /\ work.num \in 0..blockHead
          /\ head \in {None} \cup 0..work.num
      BY LiveDbAssumption DEF IInv, ChainOK, FeedOK
    <2>2. /\ waiting \in BOOLEAN
          /\ work \in [pc : {"recv", "process", "setHead"}, num : 0..blockHead]
          /\ head \in {None} \cup 0..height
      BY <2>1 DEF HInv, WorkOK
    <2>3. ASSUME NEW d \in Requests \cup {Live}
          PROVE  /\ kv[d] \in [Addrs -> Entry \cup {Missing}]
                 /\ \A a \in Addrs : kv[d][a] # Missing =>
                        kv[d][a].nonce # 0 /\ kv[d][a].code # 0
      <3>1. kv[d] \in [Addrs -> MaybeStored]
        BY DEF HInv, HonestStore
      <3>2. QED
        BY <3>1 DEF MaybeStored, StoredEntry
    <2>4. kv \in [Requests \cup {Live} -> [Addrs -> Entry \cup {Missing}]]
      BY <2>3 DEF IInv
    <2>5. ASSUME NEW r \in Requests
          PROVE  /\ req[r].pc \in Pcs
                 /\ req[r].want \in {Latest} \cup 0..height
                 /\ req[r].block \in {None} \cup 0..height
                 /\ req[r].db \in {r, Live}
                 /\ \A a \in Addrs : req[r].seen[a].hash \notin {Nil, 0} =>
                        EntryAt(r, a) # Missing
      <3>1. RequestOK(r) /\ HonestRequest(req[r], kv[req[r].db], Past)
        BY DEF IInv, HInv
      <3>2. QED
        BY <3>1 DEF RequestOK, BlockOK, HonestRequest, SeenFrom, HasCode, EntryAt
    <2>6. QED
      BY <2>1, <2>2, <2>3, <2>4, <2>5 DEF TypeOK
  <1>2. QED
    BY HonestInvariant, <1>1, PTL

(* StoreHonest: races, stale fills, skipped blocks, refused commits and calls to
   the node that fail leave nothing in the shared store that the chain never
   had. *)
THEOREM SharedStoreHonest == Spec => []StoreHonest
  <1>1. IInv /\ HInv => StoreHonest
    <2> SUFFICES ASSUME IInv, HInv, NEW a \in Addrs, kv[Live][a] # Missing
                 PROVE  LET e == kv[Live][a]
                            past == { chain[n][a] : n \in 0..height }
                        IN  /\ e.balance = Nil \/ \E s \in past : e.balance = s.balance
                            /\ e.nonce = Nil \/ \E s \in past : e.nonce = s.nonce
                            /\ e.code = Nil \/ \E s \in past : e.code = s.code
                            /\ \A k \in Slots : e.storage[k] = Nil \/
                                    \E s \in past : e.storage[k] = s.storage[k]
      BY DEF StoreHonest
    <2>1. Honest(kv[Live][a], Past[a])
      BY DEF HInv, HonestStore, HonestEntry
    <2>2. Past[a] = { chain[n][a] : n \in 0..height }
      BY DEF Past
    <2>3. kv[Live][a].code # 0
      BY DEF HInv, HonestStore, HonestEntry, MaybeStored, StoredEntry
    <2>4. kv[Live][a].code = Nil \/ \E s \in Past[a] : kv[Live][a].code = s.code
      BY <2>1, <2>3 DEF Honest, FromPast, Codes
    <2>5. QED
      BY <2>1, <2>2, <2>4 DEF Honest, FromPast, Balances, Nonces, ValuesAt
  <1>2. QED
    BY HonestInvariant, <1>1, PTL

(* NothingInvented: as long as every block fits in a transaction of badger, a
   request none of whose calls to the node failed has read, of each field and
   slot, only values the chain had after some block. *)
THEOREM ReadsHonest ==
  ASSUME BigBlocks = {}
  PROVE  Spec => []NothingInvented
  <1>1. IInv /\ HInv => NothingInvented
    <2> SUFFICES ASSUME IInv, HInv, NEW r \in Requests, ~req[r].failed, NEW a \in Addrs
                 PROVE  LET seen == req[r].seen[a]
                            past == { chain[n][a] : n \in 0..height }
                        IN  /\ seen.hash # Nil =>
                                /\ \E s \in past : seen.balance = s.balance
                                /\ \E s \in past : seen.nonce = s.nonce
                                /\ \E s \in past : seen.hash = s.code
                            /\ seen.code # Nil => \E s \in past : seen.code = s.code
                            /\ \A k \in Slots : seen.storage[k] # Nil =>
                                    \E s \in past : seen.storage[k] = s.storage[k]
      BY DEF NothingInvented
    <2>1. /\ req[r].failed \in BOOLEAN
          /\ Clean(req[r].failed) => HonestSeen(req[r].seen[a], Past[a])
      BY DEF HInv, HonestRequest, SeenFrom
    <2>2. HonestSeen(req[r].seen[a], Past[a])
      BY <2>1 DEF Clean
    <2>3. Past[a] = { chain[n][a] : n \in 0..height }
      BY DEF Past
    <2>4. Codes(Past[a]) = { s.code : s \in Past[a] }
      BY DEF Codes
    <2>5. QED
      BY <2>2, <2>3, <2>4 DEF HonestSeen, Balances, Nonces, ValuesAt
  <1>2. QED
    BY HonestInvariant, <1>1, PTL

-----------------------------------------------------------------------------
(* What a commit writes *)

(* A patch sets what it has, and leaves the rest. *)
LEMMA PatchSets ==
  ASSUME NEW e \in MaybeStored, NEW p \in Entry
  PROVE  LET r == Patched(e, p)
         IN  /\ p.balance # Nil => r.balance = p.balance
             /\ p.nonce \notin {Nil, 0} => r.nonce = p.nonce
             /\ p.code \notin {Nil, 0} => r.code = p.code
             /\ \A k \in Slots : p.storage[k] # Nil => r.storage[k] = p.storage[k]
             /\ e # Missing =>
                    /\ p.balance = Nil => r.balance = e.balance
                    /\ p.nonce = Nil => r.nonce = e.nonce
                    /\ p.code = Nil => r.code = e.code
  BY DEF Patched, Encoded, MergeAccount, Or, OmitZero, MaybeStored, StoredEntry

(* The patches of a transaction bring any entry, or none, to the state after
   it, but for what the trace does not mention. *)
LEMMA TracePatchesWrite ==
  ASSUME NEW s \in ChainAccount, NEW t \in ChainAccount, s # t, NEW e \in MaybeStored
  PROVE  LET r == PatchedAll(e, TracePatches(s, t))
         IN  /\ t.nonce # 0 => r.nonce = t.nonce
             /\ t.code # 0 => r.code = t.code
             /\ InPre(s, t) => r.balance = t.balance
             /\ \A k \in Slots : Changed(s, t, k) /\ t.storage[k] # 0 =>
                    r.storage[k] = t.storage[k]
  <1> DEFINE pre == TracePre(s, t)
             post == TracePost(s, t)
             r == PatchedAll(e, TracePatches(s, t))
  <1>1. pre \in Entry /\ post \in Entry
    BY TraceType
  <1>2. /\ s.balance \in Nat /\ s.nonce \in Nat /\ s.code \in Nat
        /\ t.balance \in Nat /\ t.nonce \in Nat /\ t.code \in Nat
        /\ \A k \in Slots : t.storage[k] \in Nat
    BY DEF ChainAccount, Value
  <1>3. /\ post.balance = IF t.balance # s.balance THEN t.balance ELSE Nil
        /\ post.nonce = IF t.nonce # s.nonce THEN OmitZero(t.nonce) ELSE Nil
        /\ post.code = IF t.code # s.code THEN OmitZero(t.code) ELSE Nil
        /\ \A k \in Slots : Changed(s, t, k) => post.storage[k] = OmitZero(t.storage[k])
    BY DEF TracePost
  <1>4. /\ pre.balance = s.balance
        /\ pre.nonce = OmitZero(s.nonce)
        /\ pre.code = OmitZero(s.code)
    BY DEF TracePre
  <1>5. CASE InPre(s, t)
    <2> DEFINE m == Patched(e, pre)
    <2>1. r = Patched(m, post)
      BY <1>1, <1>5, FewPatches DEF TracePatches
    <2>2. m \in MaybeStored /\ m # Missing
      BY <1>1, PatchedIsStored, MissingAssumption DEF MaybeStored, StoredEntry
    <2>3. /\ m.balance = s.balance
          /\ s.nonce # 0 => m.nonce = s.nonce
          /\ s.code # 0 => m.code = s.code
      <3>1. pre.balance # Nil
        BY <1>2, <1>4 DEF Nil
      <3>2. s.nonce # 0 => pre.nonce = s.nonce /\ pre.nonce \notin {Nil, 0}
        BY <1>2, <1>4 DEF OmitZero, Nil
      <3>3. s.code # 0 => pre.code = s.code /\ pre.code \notin {Nil, 0}
        BY <1>2, <1>4 DEF OmitZero, Nil
      <3> HIDE DEF pre
      <3>4. QED
        BY <1>1, <1>4, <3>1, <3>2, <3>3, PatchSets
    <2> HIDE DEF m, pre, post, r
    <2>4. /\ post.balance # Nil => r.balance = post.balance
          /\ post.nonce \notin {Nil, 0} => r.nonce = post.nonce
          /\ post.code \notin {Nil, 0} => r.code = post.code
          /\ \A k \in Slots : post.storage[k] # Nil => r.storage[k] = post.storage[k]
          /\ post.balance = Nil => r.balance = m.balance
          /\ post.nonce = Nil => r.nonce = m.nonce
          /\ post.code = Nil => r.code = m.code
      BY <1>1, <2>1, <2>2, PatchSets
    <2>5. r.balance = t.balance
      BY <1>2, <1>3, <2>3, <2>4 DEF Nil
    <2>6. t.nonce # 0 => r.nonce = t.nonce
      BY <1>2, <1>3, <2>3, <2>4 DEF OmitZero, Nil
    <2>7. t.code # 0 => r.code = t.code
      BY <1>2, <1>3, <2>3, <2>4 DEF OmitZero, Nil
    <2>8. \A k \in Slots : Changed(s, t, k) /\ t.storage[k] # 0 =>
                r.storage[k] = t.storage[k]
      BY <1>2, <1>3, <2>4 DEF OmitZero, Nil
    <2>9. QED
      BY <2>5, <2>6, <2>7, <2>8 DEF r
  <1>6. CASE ~InPre(s, t)
    <2>1. s.nonce = 0 /\ s.code = 0
      BY <1>6 DEF InPre, Exists, EmptyAccount
    <2>2. r = Patched(e, post)
      BY <1>1, <1>6, FewPatches DEF TracePatches
    <2> HIDE DEF pre, post, r
    <2>3. /\ post.nonce \notin {Nil, 0} => r.nonce = post.nonce
          /\ post.code \notin {Nil, 0} => r.code = post.code
          /\ \A k \in Slots : post.storage[k] # Nil => r.storage[k] = post.storage[k]
      BY <1>1, <2>2, PatchSets
    <2>4. t.nonce # 0 => r.nonce = t.nonce
      BY <1>2, <1>3, <2>1, <2>3 DEF OmitZero, Nil
    <2>5. t.code # 0 => r.code = t.code
      BY <1>2, <1>3, <2>1, <2>3 DEF OmitZero, Nil
    <2>6. \A k \in Slots : Changed(s, t, k) /\ t.storage[k] # 0 =>
                r.storage[k] = t.storage[k]
      BY <1>2, <1>3, <2>3 DEF OmitZero, Nil
    <2>7. QED
      BY <1>6, <2>4, <2>5, <2>6 DEF r
  <1>7. QED
    BY <1>5, <1>6

(* BlockWritesFresh: whatever the store held, a block that fits in a transaction
   brings the accounts it touched up to date. *)
THEOREM CommitsFresh == Spec => BlockWritesFresh
  <1> DEFINE Fresh(a) ==
        LET s == chain[work.num - 1][a]
            t == chain[work.num][a]
            e == kv'[Live][a]
        IN  s # t =>
            /\ t.nonce # 0 => e.nonce = t.nonce
            /\ t.code # 0 => e.code = t.code
            /\ InPre(s, t) /\ ~Destroyed(work.num, a) => e.balance = t.balance
            /\ \A k \in Slots : Changed(s, t, k) /\ t.storage[k] # 0 =>
                    e.storage[k] = t.storage[k]
  <1>1. ASSUME IInv, HInv, Next, work.pc = "process", work'.pc = "setHead",
               kv' # kv, Whole(work.num), NEW a \in Addrs
        PROVE  Fresh(a)
    <2>1. Process
      <3>1. work' # work
        BY <1>1
      <3>2. ~NewBlock
        BY <3>1 DEF NewBlock, feedVars
      <3>3. ~Poll /\ ~Receive /\ ~SetHead
        BY <1>1, <3>1 DEF Poll, Feed!Count, Receive, Feed!Hand, SetHead, Feed!Publish
      <3>4. ASSUME NEW r \in Requests, Serve(r) PROVE FALSE
        <4>1. Keeps
          BY <3>4, Zenon DEF Serve, Ask, AskByHash, HeadMatches, ReturnHead, AskNode,
             AskFails, Route, FetchNonce, FetchBalance, FetchCode, StoreAccount,
             FetchSlot, StoreSlot, FetchFails, Finish, AccountHit, AccountMiss,
             ReadCode, SlotHit, SlotMiss
        <4>2. QED
          BY <3>1, <4>1 DEF Keeps, feedVars
      <3>5. QED
        BY <1>1, <3>2, <3>3, <3>4 DEF Next, UpdateState
    <2> DEFINE n == work.num
               s == chain[n - 1][a]
               t == chain[n][a]
               e == kv'[Live][a]
    <2>2. PICK touched \in SUBSET Slots :
            \E op \in Surviving(TraceOf(n, touched)) :
                kv' = [kv EXCEPT ![Live] = Written(op, kv[Live], kv[Live])]
      BY <1>1, <2>1 DEF Process
    <2>3. kv' = [kv EXCEPT ![Live] = Written(TraceOf(n, touched), kv[Live], kv[Live])]
      BY <1>1, <2>2 DEF Surviving, Whole
    <2>4. e = Written(TraceOf(n, touched), kv[Live], kv[Live])[a]
      BY <1>1, <2>3 DEF IInv
    <2>5. n \in 1..height /\ n - 1 \in 0..height /\ n \in 0..height
      <3>1. /\ height \in Nat /\ blockHead \in 0..height /\ n \in 0..blockHead
            /\ n > 0
        BY <1>1, LiveDbAssumption DEF IInv, ChainOK, FeedOK, HInv, WorkOK
      <3>2. QED
        BY <3>1
    <2>6. s \in ChainAccount /\ t \in ChainAccount
      BY <1>1, <2>5, PastFacts
    <2>7. kv[Live][a] \in MaybeStored
      BY <1>1 DEF HInv, HonestStore
    <2>8. CASE s # t /\ Destroyed(n, a)
      <3>1. t.nonce = 0 /\ t.code = 0 /\ \A k \in Slots : t.storage[k] = 0
        BY <2>8 DEF Destroyed, EmptyAccount
      <3>2. QED
        BY <2>8, <3>1
    <2>9. CASE s # t /\ ~Destroyed(n, a)
      <3> DEFINE op == TraceOf(n, touched)
                 ps == TracePatches(s, t)
      <3>1. op.kind = "ProcessState" /\ op.patches[a] = ps /\ a \in op.touched
        BY <2>9 DEF TraceOf
      <3>2. ps # << >>
        BY <2>9 DEF TracePatches
      <3>3. e = PatchedAll(kv[Live][a], ps)
        <4> HIDE DEF op, ps, e
        <4>1. a \in Writes(op)
          BY <3>1, <3>2 DEF Writes
        <4>2. e = NewEntry(op, a, kv[Live][a])
          BY <2>4, <4>1 DEF Written, op
        <4>3. QED
          BY <3>1, <4>2 DEF NewEntry
      <3> HIDE DEF s, t, e, n
      <3>4. QED
        BY <2>6, <2>7, <2>9, <3>3, TracePatchesWrite DEF s, t, e, n
    <2>10. QED
      BY <2>8, <2>9
  <1>2. IInv /\ HInv /\ [Next]_vars =>
            [/\ work.pc = "process" /\ work'.pc = "setHead"
             /\ kv' # kv
             /\ Whole(work.num)
             => \A a \in Addrs : Fresh(a)]_vars
    <2> HIDE DEF Fresh
    <2>1. QED
      BY <1>1
  <1>3. QED
    BY HonestInvariant, <1>2, PTL DEF Spec, BlockWritesFresh
=============================================================================
