---------------------------- MODULE AccountProofs ----------------------------
(***************************************************************************)
(* Machine-checked facts about account entries and the operations on them, *)
(* for all values, slots, entries and blocks.                              *)
(***************************************************************************)
EXTENDS KVOperations, WellFoundedInduction, TLAPS

(* Merging entries gives an entry. *)
LEMMA MergeAccountType ==
  ASSUME NEW o \in Entry, NEW n \in Entry
  PROVE  MergeAccount(o, n) \in Entry
  BY DEF MergeAccount, Or, Entry

(* What decodeAccount returns is an entry in which no nonce and no code is
   zero, and it survives another round trip. *)
LEMMA StoredForm ==
  ASSUME NEW e \in Entry
  PROVE  /\ Encoded(e) \in Entry
         /\ Encoded(e).nonce # 0
         /\ Encoded(e).code # 0
         /\ Encoded(Encoded(e)) = Encoded(e)
  <1>1. /\ OmitZero(e.nonce) \in MaybeValue \ {0}
        /\ OmitZero(e.code) \in MaybeValue \ {0}
    BY DEF OmitZero, Entry, MaybeValue, Value, Nil
  <1>2. QED
    BY <1>1 DEF Encoded, OmitZero, Entry

(* A patch in ProcessState's loop never makes the store forget a balance, a
   nonce, a code or a slot. *)
THEOREM PatchForgetsNothing ==
  ASSUME NEW e \in Entry, e.nonce # 0, e.code # 0, NEW p \in Entry
  PROVE  /\ Patched(e, p) \in Entry
         /\ e.balance # Nil => Patched(e, p).balance # Nil
         /\ \A k \in Slots :
                e.storage[k] # Nil => Patched(e, p).storage[k] # Nil
  <1>1. Patched(e, p) = Encoded(MergeAccount(e, p))
    BY MissingAssumption DEF Patched
  <1>2. Patched(e, p) \in Entry
    BY <1>1, MergeAccountType, StoredForm
  <1>3. QED
    BY <1>1, <1>2 DEF Encoded, MergeAccount, Or, Entry

(* The trace of a transaction is made of entries. *)
LEMMA TraceType ==
  ASSUME NEW s \in ChainAccount, NEW t \in ChainAccount
  PROVE  TracePre(s, t) \in Entry /\ TracePost(s, t) \in Entry
  BY DEF TracePre, TracePost, Changed, OmitZero, ChainAccount, Entry,
         MaybeValue, Value

(* Committing the Pre and Post of a transaction brings an entry up to date,
   however stale it was: whatever blocks were skipped before, balance, nonce
   and code are then the chain's, and so is every slot the transaction set.
   Not covered are what the trace leaves out: slots the transaction cleared,
   and a nonce or code that is zero after it while the entry has another one
   (from before the account was destroyed, or fetched from a later block). *)
THEOREM TransactionHeals ==
  ASSUME NEW s \in ChainAccount, NEW t \in ChainAccount,
         NEW e \in Entry,
         e.nonce \notin {Nil, 0} => t.nonce # 0,
         e.code \notin {Nil, 0} => t.code # 0,
         s.nonce # 0 => t.nonce # 0,
         s.code # 0 => t.code # 0
  PROVE  LET r == Patched(Patched(e, TracePre(s, t)), TracePost(s, t))
         IN  /\ SameFields(r, t)
             /\ \A k \in Slots :
                    Changed(s, t, k) /\ t.storage[k] # 0
                        => r.storage[k] = t.storage[k]
  <1> DEFINE m == Patched(e, TracePre(s, t))
             r == Patched(m, TracePost(s, t))
  <1>1. m = Encoded(MergeAccount(e, TracePre(s, t))) /\ m \in Entry
    <2>1. m = Encoded(MergeAccount(e, TracePre(s, t)))
      BY MissingAssumption DEF Patched
    <2>2. QED
      BY <2>1, TraceType, MergeAccountType, StoredForm
  <1>2. r = Encoded(MergeAccount(m, TracePost(s, t)))
    BY <1>1, MissingAssumption DEF Patched
  <1>3. /\ m.balance = s.balance
        /\ m.nonce = IF s.nonce # 0 THEN s.nonce ELSE OmitZero(e.nonce)
        /\ m.code = IF s.code # 0 THEN s.code ELSE OmitZero(e.code)
    BY <1>1 DEF Encoded, MergeAccount, Or, TracePre, OmitZero, ChainAccount,
                Entry, MaybeValue, Value, Nil
  <1> HIDE DEF m
  <1>4. /\ r.balance = t.balance
        /\ r.nonce = OmitZero(t.nonce)
        /\ CodeOf(r) = t.code
    <2>1. /\ r.balance = Or(TracePost(s, t).balance, m.balance)
          /\ r.nonce = OmitZero(Or(TracePost(s, t).nonce, m.nonce))
          /\ r.code = OmitZero(Or(TracePost(s, t).code, m.code))
      BY <1>2 DEF Encoded, MergeAccount
    <2>2. /\ TracePost(s, t).balance = IF t.balance # s.balance THEN t.balance ELSE Nil
          /\ TracePost(s, t).nonce = IF t.nonce # s.nonce THEN OmitZero(t.nonce) ELSE Nil
          /\ TracePost(s, t).code = IF t.code # s.code THEN OmitZero(t.code) ELSE Nil
      BY DEF TracePost
    <2>3. r.balance = t.balance
      BY <1>3, <2>1, <2>2 DEF Or, ChainAccount, Value, Nil
    <2>4. r.nonce = OmitZero(t.nonce)
      BY <1>3, <2>1, <2>2 DEF Or, OmitZero, ChainAccount, Entry, MaybeValue, Value, Nil
    <2>5. CodeOf(r) = t.code
      BY <1>3, <2>1, <2>2 DEF CodeOf, Or, OmitZero, ChainAccount, Entry, MaybeValue, Value, Nil
    <2>6. QED
      BY <2>3, <2>4, <2>5
  <1>5. ASSUME NEW k \in Slots, Changed(s, t, k), t.storage[k] # 0
        PROVE  r.storage[k] = t.storage[k]
    BY <1>2, <1>5 DEF Encoded, MergeAccount, Or, TracePost, OmitZero,
                      ChainAccount, Value, Nil
  <1>6. QED
    BY <1>4, <1>5 DEF SameFields, m

-----------------------------------------------------------------------------
(* The loops of ProcessState: any number of patches, one after the other. *)

(* Induction over the natural numbers, for a set in place of a predicate. *)
LEMMA NaturalInduction ==
  ASSUME NEW S, 0 \in S, \A n \in Nat : n \in S => n + 1 \in S
  PROVE  Nat \subseteq S
  <1> SUFFICES ASSUME NEW k \in Nat \ S PROVE FALSE
    OBVIOUS
  <1> DEFINE R == { p \in Nat \X Nat : p[1] < p[2] }
  <1>1. IsWellFoundedOn(R, Nat)
    BY NatLessThanWellFounded DEF OpToRel
  <1> HIDE DEF R
  <1>2. PICK x \in Nat \ S : \A y \in Nat \ S : ~(<<y, x>> \in R)
    BY <1>1, WFMin
  <1>3. \A y \in Nat \ S : ~(y < x)
    BY <1>2 DEF R
  <1>4. x # 0 /\ x - 1 \in S
    BY <1>3
  <1>5. QED
    BY <1>4

LEMMA MaxOfInterval ==
  ASSUME NEW n \in Nat, NEW s \in SUBSET (1..(n+1)), n+1 \in s
  PROVE  Max(s) = n + 1
  <1>1. n + 1 \in s /\ \A y \in s : n + 1 >= y
    OBVIOUS
  <1>2. Max(s) \in s /\ \A y \in s : Max(s) >= y
    BY <1>1, Zenon DEF Max
  <1>3. \A x \in s : x >= n + 1 => x = n + 1
    OBVIOUS
  <1>4. QED
    BY <1>1, <1>2, <1>3, Zenon

(* f gives the entry after the patches at each set of indices, of n patches in
   all: the recursion FoldLeft is defined by. *)
IsPatching(f, n, e, patches) ==
    f = [s \in SUBSET (1..n) |->
            IF s = {} THEN e
            ELSE Patched(f[s \ {Max(s)}], patches[Max(s)])]

LEMMA PatchingExists ==
  ASSUME NEW n \in Nat, NEW e, NEW patches
  PROVE  \E f : IsPatching(f, n, e, patches)
  <1> DEFINE Has(m) == \E f : IsPatching(f, m, e, patches)
             S == { m \in Nat : Has(m) }
  <1>1. 0 \in S
    <2> DEFINE f == [s \in SUBSET (1..0) |-> e]
    <2>1. \A s \in SUBSET (1..0) : s = {}
      OBVIOUS
    <2>2. IsPatching(f, 0, e, patches)
      BY <2>1 DEF IsPatching
    <2>3. QED
      BY <2>2
  <1>2. ASSUME NEW m \in Nat, m \in S PROVE m + 1 \in S
    <2>1. PICK g : IsPatching(g, m, e, patches)
      BY <1>2
    <2> DEFINE f == [s \in SUBSET (1..(m+1)) |->
                        IF m+1 \in s THEN Patched(g[s \ {m+1}], patches[m+1])
                        ELSE g[s]]
    <2>2. ASSUME NEW s \in SUBSET (1..(m+1))
          PROVE  f[s] = IF s = {} THEN e
                        ELSE Patched(f[s \ {Max(s)}], patches[Max(s)])
      <3>1. CASE m+1 \in s
        <4>1. Max(s) = m+1 /\ s # {}
          BY <3>1, MaxOfInterval
        <4>2. f[s \ {m+1}] = g[s \ {m+1}]
          OBVIOUS
        <4>3. QED
          BY <3>1, <4>1, <4>2
      <3>2. CASE m+1 \notin s
        <4>1. s \in SUBSET (1..m)
          BY <3>2
        <4>2. f[s] = IF s = {} THEN e
                     ELSE Patched(g[s \ {Max(s)}], patches[Max(s)])
          BY <2>1, <3>2, <4>1 DEF IsPatching
        <4>3. f[s \ {Max(s)}] = g[s \ {Max(s)}]
          BY <3>2
        <4>4. QED
          BY <4>2, <4>3
      <3>3. QED
        BY <3>1, <3>2
    <2>3. IsPatching(f, m+1, e, patches)
      <3>1. f = [s \in SUBSET (1..(m+1)) |-> f[s]]
        OBVIOUS
      <3> HIDE DEF f
      <3>2. QED
        BY <2>2, <3>1 DEF IsPatching
    <2>4. Has(m+1)
      BY <2>3
    <2>5. QED
      BY <2>4
  <1>3. n \in S
    <2> HIDE DEF S
    <2>1. QED
      BY <1>1, <1>2, NaturalInduction
  <1>4. QED
    BY <1>3

LEMMA PatchedAllIsPatching ==
  ASSUME NEW e, NEW patches \in Seq(Entry)
  PROVE  \E f : /\ IsPatching(f, Len(patches), e, patches)
                /\ PatchedAll(e, patches) = f[1..Len(patches)]
  <1> DEFINE f == CHOOSE f : IsPatching(f, Len(patches), e, patches)
  <1>1. IsPatching(f, Len(patches), e, patches)
    <2>1. Len(patches) \in Nat
      OBVIOUS
    <2>2. \E g : IsPatching(g, Len(patches), e, patches)
      BY <2>1, PatchingExists
    <2>3. QED
      BY <2>2, Zenon
  <1>2. DOMAIN patches = 1..Len(patches)
    OBVIOUS
  <1>3. PatchedAll(e, patches) = f[1..Len(patches)]
    BY <1>2, Zenon DEF PatchedAll, FoldLeft, MapThenFoldSet, IsPatching
  <1>4. QED
    BY <1>1, <1>3

(* What each patch preserves, all of them do. *)
LEMMA PatchesPreserve ==
  ASSUME NEW P, NEW e \in P, NEW patches \in Seq(Entry),
         \A x \in P : \A i \in DOMAIN patches : Patched(x, patches[i]) \in P
  PROVE  PatchedAll(e, patches) \in P
  <1> DEFINE n == Len(patches)
  <1>1. PICK f : /\ IsPatching(f, n, e, patches)
                 /\ PatchedAll(e, patches) = f[1..n]
    BY PatchedAllIsPatching
  <1> DEFINE S == { m \in Nat : m <= n => \A s \in SUBSET (1..m) : f[s] \in P }
  <1>2. 0 \in S
    BY <1>1 DEF IsPatching
  <1>3. ASSUME NEW m \in Nat, m \in S PROVE m + 1 \in S
    <2> SUFFICES ASSUME m + 1 <= n, NEW s \in SUBSET (1..(m+1)) PROVE f[s] \in P
      OBVIOUS
    <2>1. CASE m+1 \in s
      <3>1. Max(s) = m + 1
        BY <2>1, MaxOfInterval
      <3>2. /\ s \ {m+1} \in SUBSET (1..m)
            /\ s \in SUBSET (1..n) /\ s # {}
            /\ m+1 \in DOMAIN patches
        BY <2>1
      <3>3. f[s] = Patched(f[s \ {m+1}], patches[m+1])
        BY <1>1, <3>1, <3>2 DEF IsPatching
      <3>4. f[s \ {m+1}] \in P
        BY <1>3, <3>2
      <3>5. QED
        BY <3>2, <3>3, <3>4
    <2>2. CASE m+1 \notin s
      <3>1. s \in SUBSET (1..m)
        BY <2>2
      <3>2. QED
        BY <1>3, <3>1
    <2>3. QED
      BY <2>1, <2>2
  <1>4. n \in S
    <2> HIDE DEF S
    <2>1. n \in Nat
      OBVIOUS
    <2>2. QED
      BY <1>2, <1>3, <2>1, NaturalInduction
  <1>5. QED
    BY <1>1, <1>4

(* The patches of one transaction are applied in their order. *)
LEMMA FewPatches ==
  ASSUME NEW e, NEW p \in Entry, NEW q \in Entry
  PROVE  /\ PatchedAll(e, << >>) = e
         /\ PatchedAll(e, << p >>) = Patched(e, p)
         /\ PatchedAll(e, << p, q >>) = Patched(Patched(e, p), q)
  <1>1. PatchedAll(e, << >>) = e
    <2>1. << >> \in Seq(Entry) /\ Len(<< >>) = 0 /\ 1..0 = {}
      OBVIOUS
    <2>2. PICK f : IsPatching(f, 0, e, << >>) /\ PatchedAll(e, << >>) = f[{}]
      BY <2>1, PatchedAllIsPatching
    <2>3. QED
      BY <2>2 DEF IsPatching
  <1>2. PatchedAll(e, << p >>) = Patched(e, p)
    <2> DEFINE ps == << p >>
    <2>1. ps \in Seq(Entry) /\ Len(ps) = 1 /\ 1..1 = {1} /\ ps[1] = p
      OBVIOUS
    <2> HIDE DEF ps
    <2>2. PICK f : IsPatching(f, 1, e, ps) /\ PatchedAll(e, ps) = f[{1}]
      BY <2>1, PatchedAllIsPatching
    <2>3. Max({1}) = 1
      BY MaxOfInterval
    <2>4. {} \in SUBSET (1..1) /\ {1} \in SUBSET (1..1) /\ {1} # {}
      OBVIOUS
    <2>5. f[{}] = e /\ f[{1}] = Patched(f[{1} \ {1}], ps[1])
      BY <2>2, <2>3, <2>4 DEF IsPatching
    <2>6. {1} \ {1} = {}
      OBVIOUS
    <2>7. QED
      BY <2>1, <2>2, <2>5, <2>6 DEF ps
  <1>3. PatchedAll(e, << p, q >>) = Patched(Patched(e, p), q)
    <2> DEFINE ps == << p, q >>
    <2>1. /\ ps \in Seq(Entry) /\ Len(ps) = 2 /\ 1..2 = {1, 2}
          /\ ps[1] = p /\ ps[2] = q
      OBVIOUS
    <2> HIDE DEF ps
    <2>2. PICK f : IsPatching(f, 2, e, ps) /\ PatchedAll(e, ps) = f[{1, 2}]
      BY <2>1, PatchedAllIsPatching
    <2>3. Max({1}) = 1 /\ Max({1, 2}) = 2
      BY MaxOfInterval
    <2>4. /\ f[{}] = e
          /\ f[{1}] = Patched(f[{1} \ {1}], ps[1])
          /\ f[{1, 2}] = Patched(f[{1, 2} \ {2}], ps[2])
      BY <2>2, <2>3 DEF IsPatching
    <2>5. {1} \ {1} = {} /\ {1, 2} \ {2} = {1}
      OBVIOUS
    <2>6. QED
      BY <2>1, <2>2, <2>4, <2>5 DEF ps
  <1>4. QED
    BY <1>1, <1>2, <1>3

-----------------------------------------------------------------------------
(* The operations of the store *)

(* What decodeAccount can return, or no entry. *)
StoredEntry == { e \in Entry : e.nonce # 0 /\ e.code # 0 }
MaybeStored == StoredEntry \cup {Missing}

LEMMA EncodedIsStored ==
  ASSUME NEW e \in Entry
  PROVE  Encoded(e) \in StoredEntry
  BY StoredForm DEF StoredEntry

LEMMA PatchedIsStored ==
  ASSUME NEW e \in Entry \cup {Missing}, NEW p \in Entry
  PROVE  Patched(e, p) \in StoredEntry
  <1>1. (IF e = Missing THEN p ELSE MergeAccount(e, p)) \in Entry
    BY MergeAccountType
  <1>2. QED
    BY <1>1, EncodedIsStored DEF Patched

(* A block of which part is refused is still a block: of the same accounts,
   with some of their patches. *)
LEMMA SurvivingType ==
  ASSUME NEW op \in Operation, NEW s \in Surviving(op)
  PROVE  /\ s \in Operation
         /\ s.kind = op.kind
         /\ s # op => /\ op.kind = "ProcessState"
                      /\ s.touched = op.touched
                      /\ \A a \in Addrs : \A i \in DOMAIN s.patches[a] :
                            \E j \in DOMAIN op.patches[a] :
                                s.patches[a][i] = op.patches[a][j]
  <1>1. CASE s = op
    BY <1>1
  <1>2. CASE s # op
    <2>1. /\ op.kind = "ProcessState"
          /\ \E kept \in [Addrs -> UNION { Subsequences(op.patches[a]) : a \in Addrs }] :
                /\ \A a \in Addrs : kept[a] \in Subsequences(op.patches[a])
                /\ s = [op EXCEPT !.patches = kept]
      BY <1>2 DEF Surviving
    <2>2. PICK kept \in [Addrs -> UNION { Subsequences(op.patches[a]) : a \in Addrs }] :
                /\ \A a \in Addrs : kept[a] \in Subsequences(op.patches[a])
                /\ s = [op EXCEPT !.patches = kept]
      BY <2>1
    <2>3. op \in [kind : {"ProcessState"}, touched : SUBSET Addrs,
                  patches : [Addrs -> Seq(Entry)]]
      BY <2>1 DEF Operation
    <2>4. ASSUME NEW a \in Addrs
          PROVE  /\ kept[a] \in Seq(Entry)
                 /\ \A i \in DOMAIN kept[a] : \E j \in DOMAIN op.patches[a] :
                        kept[a][i] = op.patches[a][j]
      <3> DEFINE ps == op.patches[a]
      <3>1. ps \in Seq(Entry)
        BY <2>3
      <3>2. PICK f \in UNION { [1..n -> DOMAIN ps] : n \in 0..Len(ps) } :
                kept[a] = [i \in DOMAIN f |-> ps[f[i]]]
        BY <2>2 DEF Subsequences
      <3>3. PICK n \in 0..Len(ps) : f \in [1..n -> DOMAIN ps]
        BY <3>2
      <3>4. n \in Nat /\ \A i \in 1..n : f[i] \in DOMAIN ps /\ ps[f[i]] \in Entry
        BY <3>1, <3>3
      <3> HIDE DEF ps
      <3>5. kept[a] = [i \in 1..n |-> ps[f[i]]]
        BY <3>2, <3>3
      <3>6. kept[a] \in Seq(Entry)
        BY <3>4, <3>5
      <3>7. QED
        BY <3>4, <3>5, <3>6 DEF ps
    <2>5. /\ s.kind = "ProcessState" /\ s.touched = op.touched /\ s.patches = kept
          /\ s = [kind |-> "ProcessState", touched |-> op.touched, patches |-> kept]
      BY <2>2, <2>3
    <2>6. kept \in [Addrs -> Seq(Entry)]
      BY <2>4
    <2>7. s \in Operation
      BY <2>3, <2>5, <2>6 DEF Operation
    <2>8. \A a \in Addrs : \A i \in DOMAIN s.patches[a] :
                \E j \in DOMAIN op.patches[a] : s.patches[a][i] = op.patches[a][j]
      <3>1. s.patches = kept
        BY <2>5
      <3>2. QED
        BY <2>4, <3>1, Zenon
    <2>9. s.kind = op.kind /\ op.kind = "ProcessState" /\ s.touched = op.touched
      BY <2>1, <2>5
    <2>10. QED
      BY <2>7, <2>8, <2>9, Zenon
  <1>3. QED
    BY <1>1, <1>2

(* What an operation writes can be stored. *)
LEMMA NewEntryType ==
  ASSUME NEW op \in Operation, NEW a \in Addrs, NEW e \in MaybeStored
  PROVE  NewEntry(op, a, e) \in MaybeStored
  <1>1. CASE op.kind = "UpdateAccount"
    <2>1. op.entry \in Entry
      BY <1>1 DEF Operation
    <2>2. QED
      BY <1>1, <2>1, EncodedIsStored DEF NewEntry, Overwritten, MaybeStored
  <1>2. CASE op.kind = "UpdateStorage"
    <2>1. op.slot \in Slots /\ op.value \in Value
      BY <1>2 DEF Operation
    <2>2. CASE e # Missing
      <3>1. [e EXCEPT !.storage[op.slot] = op.value] \in Entry
        BY <2>1, <2>2 DEF MaybeStored, StoredEntry, Entry, MaybeValue
      <3>2. QED
        BY <1>2, <2>2, <3>1, EncodedIsStored DEF NewEntry, WithStorage, MaybeStored
    <2>3. QED
      BY <1>2, <2>2 DEF NewEntry, WithStorage, MaybeStored
  <1>3. CASE op.kind = "UpdateContractCode"
    <2>1. op.code \in Value
      BY <1>3 DEF Operation
    <2>2. CASE e # Missing
      <3>1. [e EXCEPT !.code = op.code] \in Entry
        BY <2>1, <2>2 DEF MaybeStored, StoredEntry, Entry, MaybeValue
      <3>2. QED
        BY <1>3, <2>2, <3>1, EncodedIsStored DEF NewEntry, WithCode, MaybeStored
    <2>3. QED
      BY <1>3, <2>2 DEF NewEntry, WithCode, MaybeStored
  <1>4. CASE op.kind = "ProcessState"
    <2>1. op.patches[a] \in Seq(Entry)
      BY <1>4 DEF Operation
    <2>2. ASSUME NEW x \in MaybeStored, NEW i \in DOMAIN op.patches[a]
          PROVE  Patched(x, op.patches[a][i]) \in MaybeStored
      <3>1. op.patches[a][i] \in Entry
        BY <2>1
      <3>2. x \in Entry \cup {Missing}
        BY DEF MaybeStored, StoredEntry
      <3>3. QED
        BY <3>1, <3>2, PatchedIsStored DEF MaybeStored
    <2>3. PatchedAll(e, op.patches[a]) \in MaybeStored
      BY <2>1, <2>2, PatchesPreserve
    <2>4. QED
      BY <1>4, <2>3 DEF NewEntry
  <1>5. QED
    BY <1>1, <1>2, <1>3, <1>4 DEF Operation

(* x has a balance if e has one, and every slot e has. *)
Keeping(e, x) ==
    /\ e.balance # Nil => x.balance # Nil
    /\ \A k \in Slots : e.storage[k] # Nil => x.storage[k] # Nil

(* Only UpdateAccount makes the store forget. *)
LEMMA NewEntryKeeps ==
  ASSUME NEW op \in Operation, op.kind # "UpdateAccount", NEW a \in Addrs,
         NEW e \in StoredEntry
  PROVE  NewEntry(op, a, e) \in StoredEntry /\ Keeping(e, NewEntry(op, a, e))
  <1>0. e # Missing /\ e \in Entry /\ e \in MaybeStored
    BY MissingAssumption DEF StoredEntry, MaybeStored
  <1>1. CASE op.kind = "UpdateStorage"
    <2> DEFINE n == [e EXCEPT !.storage[op.slot] = op.value]
    <2>1. op.slot \in Slots /\ op.value \in Value
      BY <1>1 DEF Operation
    <2>2. n \in Entry /\ NewEntry(op, a, e) = Encoded(n)
      BY <1>0, <1>1, <2>1 DEF NewEntry, WithStorage, Entry, MaybeValue
    <2>3. Keeping(e, Encoded(n))
      BY <1>0, <2>1 DEF Keeping, Encoded, Entry, Value, Nil
    <2>4. QED
      BY <2>2, <2>3, EncodedIsStored
  <1>2. CASE op.kind = "UpdateContractCode"
    <2> DEFINE n == [e EXCEPT !.code = op.code]
    <2>1. op.code \in Value
      BY <1>2 DEF Operation
    <2>2. n \in Entry /\ NewEntry(op, a, e) = Encoded(n)
      BY <1>0, <1>2, <2>1 DEF NewEntry, WithCode, Entry, MaybeValue
    <2>3. Keeping(e, Encoded(n))
      BY <1>0 DEF Keeping, Encoded, Entry
    <2>4. QED
      BY <2>2, <2>3, EncodedIsStored
  <1>3. CASE op.kind = "ProcessState"
    <2> DEFINE P == { x \in StoredEntry : Keeping(e, x) }
    <2>1. op.patches[a] \in Seq(Entry)
      BY <1>3 DEF Operation
    <2>2. e \in P
      BY DEF Keeping
    <2>3. ASSUME NEW x \in P, NEW p \in Entry PROVE Patched(x, p) \in P
      <3>1. Patched(x, p) \in StoredEntry
        BY PatchedIsStored DEF StoredEntry
      <3>2. Keeping(x, Patched(x, p))
        BY PatchForgetsNothing DEF Keeping, StoredEntry
      <3>3. QED
        BY <3>1, <3>2 DEF Keeping
    <2>4. \A x \in P : \A i \in DOMAIN op.patches[a] :
                Patched(x, op.patches[a][i]) \in P
      BY <2>1, <2>3
    <2> HIDE DEF P
    <2>5. PatchedAll(e, op.patches[a]) \in P
      BY <2>1, <2>2, <2>4, PatchesPreserve
    <2>6. QED
      BY <1>3, <2>5 DEF NewEntry, P
  <1>4. QED
    BY <1>1, <1>2, <1>3 DEF Operation
=============================================================================
