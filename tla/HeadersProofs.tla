---------------------------- MODULE HeadersProofs -----------------------------
(***************************************************************************)
(* Machine-checked proofs about module Headers, for any number of requests *)
(* and blocks, any branching of the chain and any window.                  *)
(***************************************************************************)
EXTENDS Headers, SequenceTheorems, TLAPS

Element == {0} \cup Labels

(* The first n elements of a hash. *)
Prefix(h, n) == SubSeq(h, 1, n)

LEMMA PrefixProperties ==
  ASSUME NEW h \in Hash, NEW n \in 0..Len(h)
  PROVE  /\ Prefix(h, n) \in Hash
         /\ Len(Prefix(h, n)) = n
         /\ \A i \in 1..n : Prefix(h, n)[i] = h[i]
  <1>1. \A i \in 1..n : h[i] \in Element
    BY ElementOfSeq DEF Hash, Element
  <1>2. /\ SubSeq(h, 1, n) \in Seq(Element)
        /\ Len(SubSeq(h, 1, n)) = IF 1 <= n THEN n - 1 + 1 ELSE 0
        /\ \A i \in 1 .. n - 1 + 1 : SubSeq(h, 1, n)[i] = h[1 + i - 1]
    BY <1>1, SubSeqProperties
  <1>3. QED
    BY <1>2 DEF Prefix, Hash, Element

LEMMA PrefixEqual ==
  ASSUME NEW h \in Hash, NEW n \in 0..Len(h), NEW g \in Hash, Len(g) = n,
         \A i \in 1..n : g[i] = h[i]
  PROVE  Prefix(h, n) = g
  <1>1. /\ Prefix(h, n) \in Seq(Element)
        /\ g \in Seq(Element)
        /\ Len(Prefix(h, n)) = Len(g)
        /\ \A i \in 1..Len(g) : Prefix(h, n)[i] = g[i]
    BY PrefixProperties DEF Hash, Element
  <1>2. QED
    BY <1>1, SeqEqual

LEMMA PrefixOfPrefix ==
  ASSUME NEW h \in Hash, NEW n \in 0..Len(h), NEW m \in 0..n
  PROVE  Prefix(Prefix(h, n), m) = Prefix(h, m)
  <1>1. /\ Prefix(h, n) \in Hash /\ Len(Prefix(h, n)) = n
        /\ \A i \in 1..n : Prefix(h, n)[i] = h[i]
    BY PrefixProperties
  <1>2. m \in 0..Len(h)
    BY LenProperties DEF Hash
  <1>3. /\ Prefix(h, m) \in Hash /\ Len(Prefix(h, m)) = m
        /\ \A i \in 1..m : Prefix(h, m)[i] = h[i]
    BY <1>2, PrefixProperties
  <1>4. QED
    BY <1>1, <1>3, PrefixEqual

LEMMA PrefixFull ==
  ASSUME NEW h \in Hash
  PROVE  Prefix(h, Len(h)) = h
  BY SubSeqFull DEF Prefix, Hash

LEMMA PrefixOfAppend ==
  ASSUME NEW h \in Hash, NEW l \in Element, NEW n \in 0..Len(h)
  PROVE  Prefix(Append(h, l), n) = Prefix(h, n)
  <1>1. /\ Append(h, l) \in Hash
        /\ Len(Append(h, l)) = Len(h) + 1
        /\ \A i \in 1..Len(h) : Append(h, l)[i] = h[i]
    BY AppendProperties DEF Hash, Element
  <1>2. /\ Prefix(h, n) \in Hash /\ Len(Prefix(h, n)) = n
        /\ \A i \in 1..n : Prefix(h, n)[i] = h[i]
    BY PrefixProperties
  <1>3. n \in 0..Len(Append(h, l)) /\ n <= Len(h)
    BY <1>1, LenProperties DEF Hash
  <1>4. \A i \in 1..n : Prefix(h, n)[i] = Append(h, l)[i]
    BY <1>1, <1>2, <1>3
  <1>5. QED
    BY <1>1, <1>2, <1>3, <1>4, PrefixEqual

-----------------------------------------------------------------------------
Block == Hash \ {<<>>}

Request == [pc : {"idle", "run", "walk", "panicked"}, block : Hash \cup {None},
            number : Nat, live : BOOLEAN, cache : Seq(Hash), ask : Nat,
            failed : BOOLEAN, forked : BOOLEAN,
            answer : {None} \cup [num : Nat, hash : Hash],
            read : Hash \cup {None}]

(* The node has the ancestors of every block it has. *)
Closed == \A h \in known : \A n \in 1..Len(h) : Prefix(h, n) \in known

Idle(q) ==
    q.block = None /\ q.answer = None /\ q.read = None /\ q.cache = <<>>

Types ==
    /\ known \subseteq Block
    /\ tip \in known
    /\ head \in known \cup {None}
    /\ req \in [Requests -> Request]
    /\ \A r \in Requests :
        IF req[r].pc = "idle" THEN Idle(req[r]) ELSE req[r].block \in known

(* The cache is the lineage of the block, hash by hash.  It has reached the
   zero hash only in a walk that cannot go on. *)
CacheIsLineage(q) ==
    /\ Len(q.cache) <= Len(q.block) + 1
    /\ q.pc = "run" => Len(q.cache) <= Len(q.block)
    /\ \A i \in 1..Len(q.cache) :
            q.cache[i] = Prefix(q.block, Len(q.block) - i + 1)

AnswerOfLineage(q) ==
    q.answer # None =>
        /\ \E n \in 1..Len(q.block) : q.answer.hash = Prefix(q.block, n)
        /\ q.number = Len(q.block) =>
            /\ q.answer.num + 1 \in 1..Len(q.block)
            /\ q.answer.hash = Prefix(q.block, q.answer.num + 1)

WalkAhead(q) ==
    /\ q.pc = "walk" => q.cache # <<>>
    /\ q.pc = "walk" /\ q.number = Len(q.block) =>
            Len(q.block) - Len(q.cache) > q.ask
    /\ q.pc = "panicked" /\ q.number = Len(q.block) => q.failed

PinnedRead(q) ==
    ~q.forked => /\ OnChain(q.block, tip)
                 /\ q.read \in {None, q.block}

RequestOK(q) ==
    CacheIsLineage(q) /\ AnswerOfLineage(q) /\ WalkAhead(q) /\ PinnedRead(q)

IInv ==
    /\ Types
    /\ Closed
    /\ \A r \in Requests : req[r].pc # "idle" => RequestOK(req[r])

LEMMA InitIInv == Init => IInv
  <1> SUFFICES ASSUME Init PROVE IInv
    OBVIOUS
  <1>1. Genesis \in Block /\ Len(Genesis) = 1
    BY DEF Genesis, Block, Hash
  <1>2. NoRequest \in Request
    BY EmptySeq DEF NoRequest, Request
  <1>3. Types
    BY <1>1, <1>2 DEF Init, Types, Idle, NoRequest
  <1>4. Closed
    <2>1. Prefix(Genesis, 1) = Genesis
      BY <1>1, PrefixFull DEF Block
    <2>2. SUFFICES ASSUME NEW h \in known, NEW n \in 1..Len(h)
                   PROVE  Prefix(h, n) \in known
      BY DEF Closed
    <2>3. h = Genesis
      BY DEF Init
    <2>4. n = 1
      BY <1>1, <2>3
    <2>5. QED
      BY <2>1, <2>3, <2>4
  <1>5. QED
    BY <1>3, <1>4 DEF IInv, Init, NoRequest

LEMMA IdleRequest == NoRequest.pc = "idle" /\ Idle(NoRequest)
  BY DEF NoRequest, Idle

LEMMA Marked ==
  ASSUME NEW q \in Request, NEW mark \in BOOLEAN
  PROVE  [q EXCEPT !.forked = mark] \in Request
  BY DEF Request

(* A step of a request leaves the others as they are. *)
LEMMA RequestStep ==
  ASSUME IInv, NEW r \in Requests, NEW q \in Request,
         req' = [req EXCEPT ![r] = q], UNCHANGED <<known, tip, head>>,
         \/ q = NoRequest
         \/ q.pc # "idle" /\ q.block \in known /\ RequestOK(q)
  PROVE  IInv'
  <1>1. \A s \in Requests : req'[s] = IF s = r THEN q ELSE req[s]
    BY DEF IInv, Types
  <1>2. Types'
    <2>1. req' \in [Requests -> Request]
      BY DEF IInv, Types
    <2>2. ASSUME NEW s \in Requests
          PROVE  IF req'[s].pc = "idle" THEN Idle(req[s])'
                 ELSE req'[s].block \in known
      <3>1. CASE s = r
        BY <1>1, <3>1, IdleRequest DEF IInv, Types, Idle
      <3>2. CASE s # r
        BY <1>1, <3>2 DEF IInv, Types, Idle
      <3>3. QED
        BY <3>1, <3>2
    <2>3. QED
      BY <2>1, <2>2 DEF IInv, Types
  <1>3. Closed'
    BY DEF IInv, Closed
  <1>4. ASSUME NEW p, RequestOK(p) PROVE RequestOK(p)'
    BY <1>4 DEF RequestOK, CacheIsLineage, AnswerOfLineage, WalkAhead, PinnedRead
  <1>5. QED
    BY <1>1, <1>2, <1>3, <1>4 DEF IInv, NoRequest

(* What the node has stays; a request whose block the new tip leaves out is
   marked. *)
LEMMA MoveTipStep ==
  ASSUME IInv, MoveTip
  PROVE  IInv'
  <1>1. /\ known \subseteq known'
        /\ known' \subseteq Block
        /\ tip' \in known'
        /\ Closed'
    <2>1. CASE tip' \in known \ {tip} /\ UNCHANGED known
      BY <2>1 DEF IInv, Types, Closed
    <2>2. ASSUME NEW h \in known, NEW l \in Labels,
                 tip' = Append(h, l), known' = known \cup {tip'}
          PROVE  /\ known \subseteq known'
                 /\ known' \subseteq Block
                 /\ tip' \in known'
                 /\ Closed'
      <3>1. h \in Hash /\ h \in Block
        BY DEF IInv, Types, Block
      <3>2. /\ Append(h, l) \in Block
            /\ Len(Append(h, l)) = Len(h) + 1
        BY <3>1, AppendProperties DEF Hash, Block
      <3>3. ASSUME NEW n \in 1..Len(Append(h, l))
            PROVE  Prefix(Append(h, l), n) \in known'
        <4>1. Len(h) \in Nat
          BY <3>1, LenProperties DEF Hash
        <4>2. CASE n = Len(h) + 1
          BY <2>2, <3>2, <4>2, PrefixFull DEF Block
        <4>3. CASE n \in 1..Len(h)
          <5>1. n \in 0..Len(h) /\ l \in Element
            BY <4>1, <4>3 DEF Element
          <5>2. Prefix(Append(h, l), n) = Prefix(h, n)
            BY <3>1, <5>1, PrefixOfAppend
          <5>3. QED
            BY <2>2, <4>3, <5>2 DEF IInv, Closed
        <4>4. QED
          BY <3>2, <3>3, <4>1, <4>2, <4>3
      <3>4. Closed'
        BY <2>2, <3>3 DEF IInv, Closed
      <3>5. QED
        BY <2>2, <3>2, <3>4 DEF IInv, Types
    <2>3. QED
      BY <2>1, <2>2 DEF MoveTip
  <1> DEFINE mark(r) == req[r].forked \/ (req[r].block # None
                                          /\ ~OnChain(req[r].block, tip'))
  <1>2. ASSUME NEW r \in Requests
        PROVE  /\ req'[r] = [req[r] EXCEPT !.forked = mark(r)]
               /\ mark(r) \in BOOLEAN
    BY Zenon DEF MoveTip
  <1>3. req' \in [Requests -> Request]
    <2> HIDE DEF mark
    <2>1. ASSUME NEW r \in Requests PROVE req'[r] \in Request
      <3>1. req[r] \in Request
        BY DEF IInv, Types
      <3>2. QED
        BY <1>2, <3>1, Marked
    <2>2. QED
      BY <2>1, Zenon DEF MoveTip
  <1>4. ASSUME NEW r \in Requests, req[r].pc = "idle"
        PROVE  Idle(req[r])' /\ req'[r].pc = "idle"
    <2> HIDE DEF mark
    <2>1. QED
      BY <1>2, <1>4 DEF IInv, Types, Idle, Request
  <1>5. ASSUME NEW r \in Requests, req[r].pc # "idle"
        PROVE  req'[r].pc # "idle" /\ req'[r].block \in known /\ RequestOK(req[r])'
    <2>1. req[r] \in Request /\ req[r].block \in known /\ RequestOK(req[r])
      BY <1>5 DEF IInv, Types
    <2>2. req[r].block # None
      BY <2>1, NoneAssumption DEF IInv, Types, Block, Hash
    <2>3. /\ CacheIsLineage(req[r])'
          /\ AnswerOfLineage(req[r])'
          /\ WalkAhead(req[r])'
      BY <1>2, <2>1 DEF RequestOK, CacheIsLineage, AnswerOfLineage, WalkAhead, Request
    <2>4. PinnedRead(req[r])'
      BY <1>2, <2>1, <2>2 DEF RequestOK, PinnedRead, Request
    <2>5. QED
      BY <1>2, <1>5, <2>1, <2>3, <2>4 DEF RequestOK, Request
  <1>6. Types'
    BY <1>1, <1>3, <1>4, <1>5 DEF IInv, Types, MoveTip
  <1>7. QED
    BY <1>1, <1>4, <1>5, <1>6 DEF IInv

LEMMA SetHeadStep ==
  ASSUME IInv, SetHead
  PROVE  IInv'
  BY DEF IInv, SetHead, Types, Closed, RequestOK, CacheIsLineage,
     AnswerOfLineage, WalkAhead, PinnedRead

(* What IInv says of a request under way. *)
LEMMA UnderWay ==
  ASSUME IInv, NEW r \in Requests, req[r].pc # "idle"
  PROVE  /\ req[r] \in Request
         /\ req[r].block \in known
         /\ req[r].block \in Hash
         /\ Len(req[r].block) \in Nat \ {0}
         /\ Len(req[r].cache) \in Nat
         /\ RequestOK(req[r])
  <1>1. req[r] \in Request /\ req[r].block \in known /\ RequestOK(req[r])
    BY DEF IInv, Types
  <1>2. req[r].block \in Block
    BY <1>1 DEF IInv, Types
  <1>3. Len(req[r].block) \in Nat /\ Len(req[r].block) # 0
    BY <1>2 DEF Block, Hash
  <1>4. req[r].cache \in Seq(Hash)
    BY <1>1 DEF Request
  <1>5. Len(req[r].cache) \in Nat
    BY <1>4, LenProperties
  <1>6. QED
    BY <1>1, <1>2, <1>3, <1>5 DEF Block

LEMMA FoundIsKnown ==
  ASSUME IInv, NEW b \in Found
  PROVE  b \in known
  <1>1. ASSUME NEW n \in 0..Number(tip) PROVE Ancestor(tip, n) \in known
    <2>1. tip \in known /\ tip \in Hash
      BY DEF IInv, Types, Block
    <2>2. Len(tip) \in Nat
      BY <2>1, LenProperties DEF Hash
    <2>3. n + 1 \in 1..Len(tip)
      BY <2>2 DEF Number
    <2>4. QED
      BY <2>1, <2>3 DEF IInv, Closed, Ancestor, Prefix
  <1>2. tip \in known /\ head \in known \cup {None}
    BY DEF IInv, Types
  <1>3. QED
    BY <1>1, <1>2 DEF Found, BlockByHash, BlockLatest, BlockByNumber

LEMMA LookupStep ==
  ASSUME IInv, NEW r \in Requests, Lookup(r)
  PROVE  IInv'
  <1>1. PICK b \in Found, number \in 1..MaxNumber :
          req' = [req EXCEPT ![r] =
                    [NoRequest EXCEPT !.pc = "run", !.block = b,
                                      !.number = number, !.live = IsLive(b),
                                      !.forked = ~OnChain(b, tip)]]
    BY DEF Lookup
  <1> DEFINE live == IsLive(b)
             forked == ~OnChain(b, tip)
             q == [NoRequest EXCEPT !.pc = "run", !.block = b,
                        !.number = number, !.live = live, !.forked = forked]
  <1>2. b \in known /\ b \in Hash
    BY FoundIsKnown DEF IInv, Types, Block
  <1>3. live \in BOOLEAN /\ forked \in BOOLEAN
    BY DEF IsLive
  <1>4. number \in Nat
    BY HeadersAssumption
  <1>5. /\ q \in Request
        /\ q.pc = "run" /\ q.block = b /\ q.cache = <<>>
        /\ q.answer = None /\ q.read = None /\ q.forked = forked
    <2> HIDE DEF live, forked
    <2>1. QED
      BY <1>2, <1>3, <1>4, EmptySeq DEF NoRequest, Request
  <1>6. RequestOK(q)
    <2>1. Len(b) \in Nat
      BY <1>2, LenProperties DEF Hash
    <2>2. PinnedRead(q)
      BY <1>5 DEF PinnedRead
    <2> HIDE DEF q
    <2>3. QED
      BY <1>5, <2>1, <2>2 DEF RequestOK, CacheIsLineage, AnswerOfLineage, WalkAhead
  <1>7. QED
    <2>1. req' = [req EXCEPT ![r] = q] /\ UNCHANGED <<known, tip, head>>
      BY <1>1 DEF Lookup
    <2> HIDE DEF q
    <2>2. QED
      BY <1>2, <1>5, <1>6, <2>1, RequestStep

LEMMA ReadStep ==
  ASSUME IInv, NEW r \in Requests, Read(r)
  PROVE  IInv'
  <1> DEFINE p == req[r]
             answer == Ancestor(tip, PinnedNumber(p.block))
             q == [p EXCEPT !.read = answer]
  <1>1. p.pc = "run" /\ p.pc # "idle"
    BY DEF Read
  <1>2. /\ p \in Request /\ p.block \in known /\ p.block \in Hash
        /\ Len(p.block) \in Nat \ {0} /\ RequestOK(p)
    BY <1>1, UnderWay
  <1>3. tip \in Hash /\ Len(tip) \in Nat
    BY LenProperties DEF IInv, Types, Block, Hash
  <1>4. Len(p.block) \in 0..Len(tip) /\ answer = Prefix(tip, Len(p.block))
    BY <1>2, <1>3 DEF Read, PinnedNumber, Number, Ancestor, Prefix
  <1>5. answer \in Hash
    BY <1>3, <1>4, PrefixProperties
  <1>6. OnChain(p.block, tip) => answer = p.block
    BY <1>4 DEF OnChain, Prefix
  <1>7. q \in Request /\ q.pc # "idle" /\ q.block \in known
    <2> HIDE DEF answer
    <2>1. QED
      BY <1>1, <1>2, <1>5 DEF Request
  <1>8. RequestOK(q)
    <2> HIDE DEF answer
    <2>1. QED
      BY <1>2, <1>6 DEF RequestOK, CacheIsLineage, AnswerOfLineage, WalkAhead,
         PinnedRead, Request
  <1>9. req' = [req EXCEPT ![r] = q] /\ UNCHANGED <<known, tip, head>>
    BY DEF Read, IInv, Types
  <1>10. QED
    <2> HIDE DEF q
    <2>1. QED
      BY <1>7, <1>8, <1>9, RequestStep

LEMMA NextTransactionStep ==
  ASSUME IInv, NEW r \in Requests, NextTransaction(r)
  PROVE  IInv'
  <1> DEFINE p == req[r]
             q == [p EXCEPT !.cache = <<>>]
  <1>1. p.pc = "run" /\ p.pc # "idle"
    BY DEF NextTransaction
  <1>2. /\ p \in Request /\ p.block \in known
        /\ Len(p.block) \in Nat \ {0} /\ RequestOK(p)
    BY <1>1, UnderWay
  <1>3. q \in Request /\ q.pc = "run" /\ q.block = p.block
    BY <1>1, <1>2, EmptySeq DEF Request
  <1>4. RequestOK(q)
    BY <1>2, <1>1 DEF RequestOK, CacheIsLineage, AnswerOfLineage, WalkAhead,
       PinnedRead, Request
  <1>5. req' = [req EXCEPT ![r] = q] /\ UNCHANGED <<known, tip, head>>
    BY DEF NextTransaction, IInv, Types
  <1>6. QED
    <2> HIDE DEF q
    <2>1. QED
      BY <1>2, <1>3, <1>4, <1>5, RequestStep

(* The cache BLOCKHASH works with, filled with ParentHash if it was empty. *)
LEMMA BlockHashStep ==
  ASSUME IInv, NEW r \in Requests, NEW n \in 0..(req[r].number - 1),
         BlockHash(r, n)
  PROVE  IInv'
  <1> DEFINE p == req[r]
             B == Len(p.block)
             C == Len(p.cache)
             cache == IF p.cache = <<>> THEN <<ParentHash(p.block)>> ELSE p.cache
             index == p.number - n
             found == [p EXCEPT !.cache = cache,
                                !.answer = [num |-> n, hash |-> cache[index]]]
             walks == [p EXCEPT !.cache = cache, !.pc = "walk", !.ask = n]
  <1>1. p.pc = "run" /\ p.pc # "idle"
    BY DEF BlockHash
  <1>2. /\ p \in Request /\ p.block \in known /\ p.block \in Hash
        /\ B \in Nat \ {0} /\ C \in Nat /\ RequestOK(p)
    BY <1>1, UnderWay
  <1>3. p.number \in Nat /\ n \in Nat /\ index \in Nat \ {0}
    BY <1>2 DEF Request
  <1>4. /\ cache \in Seq(Hash) /\ Len(cache) \in 1..B
        /\ \A i \in 1..Len(cache) :
                cache[i] = Prefix(p.block, B - i + 1)
    <2>1. CASE p.cache = <<>>
      <3>1. cache = <<p.block>>
        BY <2>1 DEF ParentHash
      <3>2. Prefix(p.block, B - 1 + 1) = p.block
        BY <1>2, PrefixFull
      <3>3. <<p.block>> \in Seq(Hash) /\ Len(<<p.block>>) = 1 /\ <<p.block>>[1] = p.block
        BY <1>2
      <3> HIDE DEF cache
      <3>4. QED
        BY <1>2, <3>1, <3>2, <3>3
    <2>2. CASE p.cache # <<>>
      <3>1. p.cache \in Seq(Hash) /\ C # 0
        BY <1>2, <2>2 DEF Request
      <3>2. QED
        BY <1>1, <1>2, <2>2, <3>1 DEF RequestOK, CacheIsLineage
    <2>3. QED
      BY <2>1, <2>2
  <1>5. CASE index <= Len(cache)
    <2>1. index \in 1..Len(cache)
      BY <1>3, <1>4, <1>5
    <2>2. cache[index] = Prefix(p.block, B - index + 1)
      BY <1>4, <2>1
    <2>3. cache[index] \in Hash
      BY <1>4, <2>1, ElementOfSeq
    <2>4. B - index + 1 \in 1..B
      BY <1>2, <1>4, <2>1
    <2>5. /\ found \in Request /\ found.pc = "run" /\ found.block = p.block
          /\ found.number = p.number /\ found.cache = cache
          /\ found.answer = [num |-> n, hash |-> cache[index]]
          /\ found.forked = p.forked /\ found.read = p.read
      <3> HIDE DEF cache, index
      <3>1. QED
        BY <1>1, <1>2, <1>3, <1>4, <2>3 DEF Request
    <2>6. AnswerOfLineage(found)
      <3> DEFINE h == cache[index]
                 m == B - index + 1
      <3>1. found.answer.num = n /\ found.answer.hash = h
        BY <2>5
      <3>2. p.number = B => n + 1 = m
        BY <1>2, <1>3
      <3>3. m \in 1..B /\ h = Prefix(p.block, m)
        BY <2>2, <2>4
      <3> HIDE DEF h, m, found
      <3>4. QED
        BY <2>5, <3>1, <3>2, <3>3 DEF AnswerOfLineage
    <2>7. RequestOK(found)
      <3> HIDE DEF found, cache
      <3>1. QED
        BY <1>2, <1>4, <2>5, <2>6
        DEF RequestOK, CacheIsLineage, WalkAhead, PinnedRead
    <2>8. req' = [req EXCEPT ![r] = found] /\ UNCHANGED <<known, tip, head>>
      BY <1>5 DEF BlockHash, IInv, Types
    <2>9. QED
      <3> HIDE DEF found
      <3>1. QED
        BY <1>2, <2>5, <2>7, <2>8, RequestStep
  <1>6. CASE index > Len(cache)
    <2>1. /\ walks \in Request /\ walks.pc = "walk" /\ walks.block = p.block
          /\ walks.number = p.number /\ walks.cache = cache
          /\ walks.answer = p.answer /\ walks.ask = n
          /\ walks.forked = p.forked /\ walks.read = p.read
      <3> HIDE DEF cache
      <3>1. QED
        BY <1>2, <1>3, <1>4 DEF Request
    <2>2. p.number = B => B - Len(cache) > n
      <3>1. Len(cache) \in Nat /\ p.number - n > Len(cache)
        BY <1>4, <1>6
      <3> HIDE DEF cache, index
      <3>2. QED
        BY <1>2, <1>3, <3>1
    <2>3. RequestOK(walks)
      <3> HIDE DEF walks, cache
      <3>1. cache # <<>> /\ Len(cache) <= B + 1
        BY <1>2, <1>4
      <3>2. QED
        BY <1>2, <1>4, <2>1, <2>2, <3>1
        DEF RequestOK, CacheIsLineage, AnswerOfLineage, WalkAhead, PinnedRead
    <2>4. req' = [req EXCEPT ![r] = walks] /\ UNCHANGED <<known, tip, head>>
      <3>1. ~(index <= Len(cache))
        <4>1. index \in Nat /\ Len(cache) \in Nat
          BY <1>3, <1>4
        <4> HIDE DEF index, cache
        <4>2. QED
          BY <1>6, <4>1
      <3>2. QED
        BY <3>1, Zenon DEF BlockHash
    <2>5. QED
      <3> HIDE DEF walks
      <3>1. QED
        BY <1>2, <2>1, <2>3, <2>4, RequestStep
  <1>7. QED
    BY <1>3, <1>4, <1>5, <1>6

(* The last hash of the cache during a walk. *)
LEMMA LastOfCache ==
  ASSUME IInv, NEW r \in Requests, req[r].pc = "walk"
  PROVE  /\ Len(req[r].cache) \in 1..Len(req[r].block) + 1
         /\ LastKnown(r) = Prefix(req[r].block,
                                  Len(req[r].block) - Len(req[r].cache) + 1)
  <1> DEFINE p == req[r]
             B == Len(p.block)
             C == Len(p.cache)
  <1>1. /\ p \in Request /\ B \in Nat \ {0}
        /\ C \in Nat /\ RequestOK(p)
    BY UnderWay
  <1>2. p.cache \in Seq(Hash) /\ p.cache # <<>>
    BY <1>1 DEF Request, RequestOK, WalkAhead
  <1>3. C \in 1..B + 1
    BY <1>1, <1>2 DEF RequestOK, CacheIsLineage
  <1>4. C \in 1..C
    BY <1>1, <1>3
  <1>5. \A i \in 1..C : p.cache[i] = Prefix(p.block, B - i + 1)
    BY <1>1 DEF RequestOK, CacheIsLineage
  <1>6. QED
    BY <1>3, <1>4, <1>5 DEF LastKnown

LEMMA WalkStep ==
  ASSUME IInv, NEW r \in Requests, Walk(r)
  PROVE  IInv'
  <1> DEFINE p == req[r]
             B == Len(p.block)
             C == Len(p.cache)
             k == B - C + 1
             parent == Parent(GetHeader(r))
             walks == [p EXCEPT !.cache = Append(@, parent)]
             found == [p EXCEPT !.cache = Append(@, parent), !.pc = "run",
                                !.answer = [num |-> p.ask, hash |-> parent]]
  <1>1. p.pc = "walk" /\ p.pc # "idle"
    BY DEF Walk
  <1>2. /\ p \in Request /\ p.block \in known /\ p.block \in Hash
        /\ B \in Nat \ {0} /\ C \in Nat /\ RequestOK(p)
    BY <1>1, UnderWay
  <1>3. /\ C \in 1..B + 1
        /\ GetHeader(r) = Prefix(p.block, k)
    BY <1>1, LastOfCache DEF GetHeader
  <1>4. k \in 0..B /\ k = B - C + 1
    <2> HIDE DEF B, C
    <2>1. QED
      BY <1>2, <1>3
  <1> HIDE DEF k
  <1>5. Len(Prefix(p.block, k)) = k
    BY <1>2, <1>4, PrefixProperties
  <1>6. k # 0
    <2>1. Prefix(p.block, k) \in Hash \ {<<>>}
      BY <1>3 DEF Walk, IInv, Types, Block
    <2>2. ASSUME NEW h \in Hash \ {<<>>} PROVE Len(h) # 0
      BY DEF Hash
    <2>3. QED
      BY <1>5, <2>1, <2>2
  <1>7. /\ parent = Prefix(p.block, k - 1)
        /\ parent \in Hash
        /\ Len(parent) = k - 1
    <2>1. k - 1 \in 0..k /\ k - 1 \in 0..B
      <3> HIDE DEF B, C
      <3>1. QED
        BY <1>2, <1>4, <1>6
    <2>2. parent = Prefix(Prefix(p.block, k), k - 1)
      BY <1>3, <1>5 DEF Parent, Prefix
    <2>3. Prefix(Prefix(p.block, k), k - 1) = Prefix(p.block, k - 1)
      BY <1>2, <1>4, <2>1, PrefixOfPrefix
    <2>4. Prefix(p.block, k - 1) \in Hash /\ Len(Prefix(p.block, k - 1)) = k - 1
      BY <1>2, <2>1, PrefixProperties
    <2>5. QED
      BY <2>2, <2>3, <2>4
  <1> DEFINE cache == Append(p.cache, parent)
  <1>8. /\ cache \in Seq(Hash) /\ Len(cache) = C + 1
        /\ cache # <<>>
        /\ \A i \in 1..Len(cache) :
                cache[i] = Prefix(p.block, B - i + 1)
    <2>1. p.cache \in Seq(Hash)
      BY <1>2 DEF Request
    <2>2. /\ cache \in Seq(Hash) /\ Len(cache) = C + 1
          /\ cache # <<>>
          /\ \A i \in 1..C : cache[i] = p.cache[i]
          /\ cache[C + 1] = parent
      <3> HIDE DEF parent
      <3>1. QED
        BY <1>7, <2>1, AppendProperties
    <2>3. \A i \in 1..C : cache[i] = Prefix(p.block, B - i + 1)
      <3> HIDE DEF parent, cache
      <3>1. QED
        BY <1>2, <2>2 DEF RequestOK, CacheIsLineage
    <2>4. B - (C + 1) + 1 = k - 1
      BY <1>2, <1>4
    <2>5. cache[C + 1] = Prefix(p.block, B - (C + 1) + 1)
      <3> HIDE DEF parent, cache
      <3>1. QED
        BY <1>7, <2>2, <2>4
    <2>6. QED
      <3> HIDE DEF parent, cache
      <3>1. \A i \in 1..Len(cache) : i \in 1..C \/ i = C + 1
        BY <1>2, <2>2
      <3>2. QED
        BY <2>2, <2>3, <2>5, <3>1
  <1>9. p.ask \in Nat /\ p.number \in Nat
    BY <1>2 DEF Request
  <1>10. CASE Number(parent) = p.ask
    <2>1. k - 1 = p.ask + 1 /\ Len(cache) <= B
      <3>1. (k - 1) - 1 = p.ask
        BY <1>7, <1>10 DEF Number
      <3>2. Len(cache) = C + 1
        BY <1>8
      <3> HIDE DEF parent, cache, B, C
      <3>3. QED
        BY <1>2, <1>4, <1>9, <3>1, <3>2
    <2>2. /\ found \in Request /\ found.pc = "run" /\ found.block = p.block
          /\ found.number = p.number /\ found.cache = cache
          /\ found.answer = [num |-> p.ask, hash |-> parent]
          /\ found.forked = p.forked /\ found.read = p.read
      <3> HIDE DEF parent
      <3>1. QED
        BY <1>2, <1>7, <1>8, <1>9 DEF Request
    <2>3. AnswerOfLineage(found)
      <3> HIDE DEF parent, found
      <3>1. found.answer.num = p.ask /\ found.answer.hash = parent
        BY <2>2
      <3>2. k - 1 \in 1..B
        <4> HIDE DEF B, C
        <4>1. QED
          BY <1>2, <1>4, <1>9, <2>1
      <3>3. QED
        BY <1>7, <2>1, <2>2, <3>1, <3>2 DEF AnswerOfLineage
    <2>4. RequestOK(found)
      <3> HIDE DEF found, cache
      <3>1. QED
        BY <1>2, <1>8, <2>1, <2>2, <2>3
        DEF RequestOK, CacheIsLineage, WalkAhead, PinnedRead
    <2>5. req' = [req EXCEPT ![r] = found] /\ UNCHANGED <<known, tip, head>>
      BY <1>10 DEF Walk, IInv, Types
    <2>6. QED
      <3> HIDE DEF found
      <3>1. QED
        BY <1>2, <2>2, <2>4, <2>5, RequestStep
  <1>11. CASE Number(parent) # p.ask
    <2>1. /\ walks \in Request /\ walks.pc = "walk" /\ walks.block = p.block
          /\ walks.number = p.number /\ walks.cache = cache
          /\ walks.answer = p.answer /\ walks.ask = p.ask
          /\ walks.forked = p.forked /\ walks.read = p.read
      <3> HIDE DEF parent
      <3>1. QED
        BY <1>1, <1>2, <1>8 DEF Request
    <2>2. Len(cache) <= B + 1
      <3>1. Len(cache) = C + 1
        BY <1>8
      <3> HIDE DEF cache, B, C
      <3>2. QED
        BY <1>2, <1>4, <1>6, <3>1
    <2>3. p.number = B => B - Len(cache) > p.ask
      <3>1. p.number = B => B - C > p.ask
        BY <1>1, <1>2 DEF RequestOK, WalkAhead
      <3>2. Number(parent) = B - C - 1
        <4>1. Number(parent) = (k - 1) - 1
          BY <1>7 DEF Number
        <4> HIDE DEF parent
        <4>2. QED
          BY <1>2, <1>4, <4>1
      <3>3. Len(cache) = C + 1
        BY <1>8
      <3> HIDE DEF parent, cache, B, C
      <3>4. QED
        BY <1>2, <1>9, <1>11, <3>1, <3>2, <3>3
    <2>4. RequestOK(walks)
      <3> HIDE DEF walks, cache
      <3>1. QED
        BY <1>2, <1>8, <2>1, <2>2, <2>3
        DEF RequestOK, CacheIsLineage, AnswerOfLineage, WalkAhead, PinnedRead
    <2>5. req' = [req EXCEPT ![r] = walks] /\ UNCHANGED <<known, tip, head>>
      BY <1>11 DEF Walk, IInv, Types
    <2>6. QED
      <3> HIDE DEF walks
      <3>1. QED
        BY <1>2, <2>1, <2>4, <2>5, RequestStep
  <1>12. QED
    BY <1>10, <1>11

(* A walk in the next block has only blocks before it that the node has. *)
LEMMA WalkPanicsStep ==
  ASSUME IInv, NEW r \in Requests, WalkPanics(r)
  PROVE  IInv'
  <1> DEFINE p == req[r]
             B == Len(p.block)
             C == Len(p.cache)
             k == B - C + 1
             has == GetHeader(r) \in known
             q == [p EXCEPT !.pc = "panicked", !.failed = has]
  <1>1. p.pc = "walk" /\ p.pc # "idle"
    BY DEF WalkPanics
  <1>2. /\ p \in Request /\ p.block \in known /\ p.block \in Hash
        /\ B \in Nat \ {0} /\ C \in Nat /\ RequestOK(p)
    BY <1>1, UnderWay
  <1>3. p.ask \in Nat /\ has \in BOOLEAN
    BY <1>2 DEF Request
  <1>4. p.number = B => has
    <2>1. SUFFICES ASSUME p.number = B PROVE has
      OBVIOUS
    <2>2. B - C > p.ask
      BY <1>1, <1>2, <2>1 DEF RequestOK, WalkAhead
    <2>3. C \in 1..B + 1 /\ GetHeader(r) = Prefix(p.block, k)
      BY <1>1, LastOfCache DEF GetHeader
    <2>4. k \in 1..B
      <3> HIDE DEF B, C
      <3>1. QED
        BY <1>2, <1>3, <2>2, <2>3
    <2>5. QED
      BY <1>2, <2>3, <2>4 DEF IInv, Closed
  <1>5. /\ q \in Request /\ q.pc = "panicked" /\ q.block = p.block
        /\ q.number = p.number /\ q.cache = p.cache /\ q.answer = p.answer
        /\ q.failed = has /\ q.forked = p.forked /\ q.read = p.read
    <2> HIDE DEF has
    <2>1. QED
      BY <1>2, <1>3 DEF Request
  <1>6. RequestOK(q)
    <2> HIDE DEF q, has
    <2>1. QED
      BY <1>2, <1>4, <1>5
      DEF RequestOK, CacheIsLineage, AnswerOfLineage, WalkAhead, PinnedRead
  <1>7. req' = [req EXCEPT ![r] = q] /\ UNCHANGED <<known, tip, head>>
    BY DEF WalkPanics, IInv, Types
  <1>8. QED
    <2> HIDE DEF q
    <2>1. QED
      BY <1>2, <1>5, <1>6, <1>7, RequestStep

LEMMA FinishStep ==
  ASSUME IInv, NEW r \in Requests, Finish(r)
  PROVE  IInv'
  <1>1. NoRequest \in Request
    BY EmptySeq DEF NoRequest, Request
  <1>2. QED
    BY <1>1, RequestStep DEF Finish

LEMMA Invariance == Spec => []IInv
  <1>1. IInv /\ [Next]_vars => IInv'
    <2> SUFFICES ASSUME IInv, [Next]_vars PROVE IInv'
      OBVIOUS
    <2>1. CASE UNCHANGED vars
      BY <2>1 DEF vars, IInv, Types, Closed, Idle, RequestOK, CacheIsLineage,
         AnswerOfLineage, WalkAhead, PinnedRead
    <2>2. CASE Next
      BY <2>2, MoveTipStep, SetHeadStep, LookupStep, ReadStep,
         NextTransactionStep, BlockHashStep, WalkStep, WalkPanicsStep, FinishStep
      DEF Next
    <2>3. QED
      BY <2>1, <2>2
  <1>2. QED
    BY InitIInv, <1>1, PTL DEF Spec

-----------------------------------------------------------------------------
(* TypeOK: among other things a cache starts with a block the node has, and is
   no longer than that block's lineage. *)
THEOREM TypeCorrect == Spec => []TypeOK
  <1>1. IInv => TypeOK
    <2> SUFFICES ASSUME IInv PROVE TypeOK
      OBVIOUS
    <2>1. ASSUME NEW r \in Requests, req[r].pc # "idle", req[r].cache # <<>>
          PROVE  /\ req[r].cache[1] \in known
                 /\ Len(req[r].cache) <= Len(req[r].block) + 1
      <3>1. /\ req[r] \in Request /\ req[r].block \in known
            /\ req[r].block \in Hash /\ Len(req[r].block) \in Nat \ {0}
            /\ Len(req[r].cache) \in Nat /\ RequestOK(req[r])
        BY <2>1, UnderWay
      <3>2. 1 \in 1..Len(req[r].cache)
        BY <2>1, <3>1 DEF Request
      <3>3. req[r].cache[1] = Prefix(req[r].block, Len(req[r].block) - 1 + 1)
        BY <3>1, <3>2 DEF RequestOK, CacheIsLineage
      <3>4. Len(req[r].block) - 1 + 1 = Len(req[r].block)
        BY <3>1
      <3>5. QED
        BY <3>1, <3>3, <3>4, PrefixFull DEF RequestOK, CacheIsLineage
    <2>2. ASSUME NEW r \in Requests, req[r].pc = "idle"
          PROVE  req[r].cache = <<>>
      BY <2>2 DEF IInv, Types, Idle
    <2>3. ASSUME NEW r \in Requests
          PROVE  /\ req[r].pc \in {"idle", "run", "walk", "panicked"}
                 /\ req[r].number \in Nat
                 /\ req[r].ask \in Nat
                 /\ req[r].pc # "idle" => req[r].block \in known
                 /\ req[r].pc = "walk" => req[r].cache # <<>>
      <3>1. req[r] \in Request
        BY DEF IInv, Types
      <3>2. QED
        BY <3>1 DEF IInv, Types, Request, RequestOK, WalkAhead
    <2>4. QED
      BY <2>1, <2>2, <2>3 DEF IInv, Types, TypeOK, Block
  <1>2. QED
    BY <1>1, Invariance, PTL

(* HashExact: BLOCKHASH in the block after the one found is right, for any
   window, in any order of questions, whatever the node's chain does. *)
THEOREM NextBlockHashes == Spec => []HashExact
  <1>1. IInv => HashExact
    <2> SUFFICES ASSUME IInv, NEW r \in Requests, IsNext(r), req[r].answer # None
                 PROVE  req[r].answer.hash
                            = Ancestor(req[r].block, req[r].answer.num)
      BY DEF HashExact
    <2>1. RequestOK(req[r]) /\ Len(req[r].block) \in Nat
      BY UnderWay DEF IsNext
    <2>2. req[r].number = Len(req[r].block)
      BY <2>1 DEF IsNext, Number
    <2>3. QED
      BY <2>1, <2>2 DEF RequestOK, AnswerOfLineage, Ancestor, Prefix
  <1>2. QED
    BY <1>1, Invariance, PTL

(* HashOfLineage: in any block, BLOCKHASH names the block found or an
   ancestor of it. *)
THEOREM HashesOfOneBranch == Spec => []HashOfLineage
  <1>1. IInv => HashOfLineage
    <2> SUFFICES ASSUME IInv, NEW r \in Requests, req[r].answer # None
                 PROVE  \E n \in 0..Number(req[r].block) :
                            req[r].answer.hash = Ancestor(req[r].block, n)
      BY DEF HashOfLineage
    <2>1. req[r].pc # "idle"
      BY DEF IInv, Types, Idle
    <2>2. RequestOK(req[r]) /\ Len(req[r].block) \in Nat
      BY <2>1, UnderWay
    <2>3. PICK m \in 1..Len(req[r].block) :
                  req[r].answer.hash = Prefix(req[r].block, m)
      BY <2>2 DEF RequestOK, AnswerOfLineage
    <2>4. m - 1 \in 0..Number(req[r].block) /\ (m - 1) + 1 = m
      BY <2>2 DEF Number
    <2>5. QED
      BY <2>3, <2>4 DEF Ancestor, Prefix
  <1>2. QED
    BY <1>1, Invariance, PTL

(* WalkEnds: a walk of the block after the one found has blocks left before it
   reaches the one asked for, and panics only over a call that failed. *)
THEOREM WalksEnd == Spec => []WalkEnds
  <1>1. IInv => WalkEnds
    <2> SUFFICES ASSUME IInv, NEW r \in Requests, IsNext(r)
                 PROVE  /\ req[r].pc = "walk" =>
                                Number(LastKnown(r)) > req[r].ask
                        /\ req[r].pc = "panicked" => req[r].failed
      BY DEF WalkEnds
    <2> DEFINE B == Len(req[r].block)
               C == Len(req[r].cache)
    <2>1. /\ RequestOK(req[r]) /\ req[r].block \in Hash
          /\ B \in Nat \ {0} /\ C \in Nat
      BY UnderWay DEF IsNext
    <2>2. req[r].number = B
      BY <2>1 DEF IsNext, Number
    <2>3. ASSUME req[r].pc = "walk"
          PROVE  Number(LastKnown(r)) > req[r].ask
      <3> DEFINE k == B - C + 1
      <3>1. /\ LastKnown(r) = Prefix(req[r].block, k)
            /\ C \in 1..B + 1
        BY <2>3, LastOfCache
      <3>2. k \in 0..B
        <4> HIDE DEF B, C
        <4>1. QED
          BY <2>1, <3>1
      <3>3. Len(LastKnown(r)) = k
        BY <2>1, <3>1, <3>2, PrefixProperties
      <3>4. B - C > req[r].ask
        BY <2>1, <2>2, <2>3 DEF RequestOK, WalkAhead
      <3>5. req[r].ask \in Nat
        BY <2>3, UnderWay DEF Request
      <3> HIDE DEF B, C
      <3>6. QED
        BY <2>1, <3>3, <3>4, <3>5 DEF Number
    <2>4. QED
      BY <2>1, <2>2, <2>3 DEF RequestOK, WalkAhead
  <1>2. QED
    BY <1>1, Invariance, PTL

(* StateOfHeader: as long as its block is on the chain, a pinned request reads
   the state after that block. *)
THEOREM StateFitsHeader == Spec => []StateOfHeader
  <1>1. IInv => StateOfHeader
    BY DEF IInv, Types, Idle, RequestOK, PinnedRead, StateOfHeader
  <1>2. QED
    BY <1>1, Invariance, PTL
=============================================================================
