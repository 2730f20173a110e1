------------------------------- MODULE Fetcher -------------------------------
(***************************************************************************)
(* rpcFetcher (fetcher/rpc.go) as its concurrent callers see it: Nonce,    *)
(* Balance and Code go through fetchAccount, StorageAt through             *)
(* fetchStorageAt and HeaderHash through fetchHeaderHash.  Each is one     *)
(* call of a singleflight group: a caller that finds a call for its key    *)
(* under way waits for it and shares its outcome.                          *)
(*                                                                         *)
(* The fetcher asks for the latest state (blockNumber is nil, main.go:25). *)
(* A value of that state is named by the time it was read, a block hash by *)
(* the time its block was made; the node's chain grows and reorganises.    *)
(***************************************************************************)
EXTENDS Integers, Sequences

CONSTANTS
    Callers,       \* goroutines using the fetcher
    Accounts,      \* keys of accounts
    StorageSlots,  \* keys of an account's storage slots
    Numbers,       \* block numbers headers are asked for
    MaxTime        \* bound: changes of the node's chain

StateKeys == Accounts \cup StorageSlots
Keys == StateKeys \cup Numbers

ASSUME FetcherAssumption ==
    /\ MaxTime \in Nat
    /\ Numbers \subseteq Nat \ {0}
    /\ Accounts \cap StorageSlots = {}
    /\ StateKeys \cap Numbers = {}

None == -1   \* an error, a hash that is not in headerHashes

VARIABLES
    time,          \* node: how often its chain changed
    chain,         \* node: hash of the canonical block at each height
    headerHashes,  \* field headerHashes, None for absent numbers
    flight,        \* the group's calls: control state, answers received
    caller,        \* the callers: what they asked for and were answered
    returned       \* history: the latest state returned to a caller, by key

vars == <<time, chain, headerHashes, flight, caller, returned>>

NoFlight == [pc |-> "none", got |-> << >>]
Idle == [pc |-> "idle"]

Init ==
    /\ time = 0
    /\ chain = << >>
    /\ headerHashes = [n \in Numbers |-> None]
    /\ flight = [k \in Keys |-> NoFlight]
    /\ caller = [c \in Callers |-> Idle]
    /\ returned = [k \in Keys |-> 0]

-----------------------------------------------------------------------------
(* The node adds a block, or replaces the end of its chain from block n on. *)
NewHead ==
    /\ time < MaxTime
    /\ time' = time + 1
    /\ \E n \in 1 .. Len(chain) + 1 :
            chain' = Append(SubSeq(chain, 1, n - 1), time + 1)
    /\ UNCHANGED <<headerHashes, flight, caller, returned>>

-----------------------------------------------------------------------------
(* singleflight.Group.Do *)

(* What one flight fetches: nonce, balance and code of an account, in this
   order; one value otherwise. *)
Width(k) == IF k \in Accounts THEN 3 ELSE 1

(* A method is called: the key it is about and which of the values fetched
   for the key it returns. *)
Call(c, k) ==
    \E part \in 1 .. Width(k) :
        caller' = [caller EXCEPT ![c] =
            [pc |-> "waiting", key |-> k, part |-> part,
             floor |-> returned[k], answer |-> None]]

(* The first caller for a key runs the fetch. *)
Start(c, k) ==
    /\ caller[c] = Idle
    /\ flight[k] = NoFlight
    /\ flight' = [flight EXCEPT
            ![k].pc = IF k \in Numbers THEN "lookUp" ELSE "call"]
    /\ Call(c, k)
    /\ UNCHANGED <<time, chain, headerHashes, returned>>

(* Later ones wait for it. *)
Join(c, k) ==
    /\ caller[c] = Idle
    /\ flight[k] # NoFlight
    /\ Call(c, k)
    /\ UNCHANGED <<time, chain, headerHashes, flight, returned>>

Waiting(c, k) == caller[c].pc = "waiting" /\ caller[c].key = k

(* The callers after a fetch for k got the answers got, none if it failed. *)
Answered(k, got) ==
    [c \in Callers |->
        IF Waiting(c, k)
        THEN [caller[c] EXCEPT
                !.pc = "answered",
                !.answer = IF got = << >> THEN None ELSE got[caller[c].part]]
        ELSE caller[c]]

(* Mutant: the call stays in the group when it is over. *)
FinishLeft(k, got) ==
    /\ caller' = Answered(k, got)
    /\ UNCHANGED flight

(* Mutant: one of those who wait is woken. *)
FinishOne(k, got) ==
    /\ \E w \in { c \in Callers : Waiting(c, k) } :
            caller' = [caller EXCEPT ![w] = Answered(k, got)[w]]
    /\ flight' = [flight EXCEPT ![k] = NoFlight]

(* The fetch is over: the call leaves the group, and all who wait for it are
   answered. *)
Finish(k, got) ==
    /\ caller' = Answered(k, got)
    /\ flight' = [flight EXCEPT ![k] = NoFlight]

(* The caller goes on with its answer. *)
Return(c) ==
    /\ caller[c].pc = "answered"
    /\ LET k == caller[c].key
       IN  returned' = IF k \in StateKeys /\ caller[c].answer > returned[k]
                       THEN [returned EXCEPT ![k] = caller[c].answer]
                       ELSE returned
    /\ caller' = [caller EXCEPT ![c] = Idle]
    /\ UNCHANGED <<time, chain, headerHashes, flight>>

-----------------------------------------------------------------------------
(* The functions run by the group *)

(* fetchAccount, fetchStorageAt: the node answers the next request of the
   batch. *)
FetchState(k) ==
    /\ k \in StateKeys
    /\ flight[k].pc = "call"
    /\ LET got == Append(flight[k].got, time)
       IN  flight' = [flight EXCEPT ![k] =
                [pc |-> IF Len(got) = Width(k) THEN "land" ELSE "call",
                 got |-> got]]
    /\ UNCHANGED <<time, chain, headerHashes, caller, returned>>

(* The node does not answer, or has no such block: the error goes to all who
   wait. *)
FetchFails(k) ==
    /\ flight[k].pc = "call"
    /\ Finish(k, << >>)
    /\ UNCHANGED <<time, chain, headerHashes, returned>>

Land(k) ==
    /\ flight[k].pc = "land"
    /\ Finish(k, flight[k].got)
    /\ UNCHANGED <<time, chain, headerHashes, returned>>

(* fetchHeaderHash finds the hash in headerHashes. *)
CacheHit(n) ==
    /\ flight[n].pc = "lookUp"
    /\ headerHashes[n] # None
    /\ Finish(n, << headerHashes[n] >>)
    /\ UNCHANGED <<time, chain, headerHashes, returned>>

(* Mutant: headerHashes is written and never looked at. *)
CacheMissAlways(n) ==
    /\ flight[n].pc = "lookUp"
    /\ flight' = [flight EXCEPT ![n].pc = "call"]
    /\ UNCHANGED <<time, chain, headerHashes, caller, returned>>

CacheMiss(n) ==
    /\ flight[n].pc = "lookUp"
    /\ headerHashes[n] = None
    /\ flight' = [flight EXCEPT ![n].pc = "call"]
    /\ UNCHANGED <<time, chain, headerHashes, caller, returned>>

FetchHeader(n) ==
    /\ flight[n].pc = "call"
    /\ n \in 1 .. Len(chain)
    /\ flight' = [flight EXCEPT ![n] = [pc |-> "cache", got |-> << chain[n] >>]]
    /\ UNCHANGED <<time, chain, headerHashes, caller, returned>>

CacheHeader(n) ==
    /\ flight[n].pc = "cache"
    /\ headerHashes' = [headerHashes EXCEPT ![n] = flight[n].got[1]]
    /\ flight' = [flight EXCEPT ![n].pc = "land"]
    /\ UNCHANGED <<time, chain, caller, returned>>

-----------------------------------------------------------------------------
Fetch(k) ==
    \/ FetchState(k) \/ FetchFails(k) \/ Land(k)
    \/ /\ k \in Numbers
       /\ CacheHit(k) \/ CacheMiss(k) \/ FetchHeader(k) \/ CacheHeader(k)

Next ==
    \/ NewHead
    \/ \E c \in Callers : Return(c) \/ \E k \in Keys : Start(c, k) \/ Join(c, k)
    \/ \E k \in Keys : Fetch(k)

Spec == Init /\ [][Next]_vars

(* The goroutine that runs a fetch and those it answers are scheduled, and a
   call to the node comes back, with an answer or an error. *)
Fairness ==
    /\ \A k \in Keys : WF_vars(Fetch(k))
    /\ \A c \in Callers : WF_vars(Return(c))

FairSpec == Spec /\ Fairness

-----------------------------------------------------------------------------
(* Properties *)

Time == 0 .. MaxTime

FlightState == [pc : {"none", "lookUp", "call", "cache", "land"}, got : Seq(Time)]

CallState ==
    [pc : {"waiting", "answered"}, key : Keys, part : 1 .. 3, floor : Time,
     answer : Time \cup {None}]

(* Variables hold values of their types; a fetch lands with everything its
   callers asked for; only header fetches use the cache; and nobody waits for
   a call that is not under way (a lost wake-up). *)
TypeOK ==
    /\ time \in Time
    /\ chain \in Seq(Time)
    /\ headerHashes \in [Numbers -> Time \cup {None}]
    /\ flight \in [Keys -> FlightState]
    /\ caller \in [Callers -> {Idle} \cup CallState]
    /\ returned \in [Keys -> Time]
    /\ \A k \in Keys :
        /\ flight[k].pc = "none" => flight[k].got = << >>
        /\ flight[k].pc = "land" => Len(flight[k].got) = Width(k)
        /\ flight[k].pc \in {"lookUp", "cache"} => k \in Numbers
    /\ \A c \in Callers :
        /\ caller[c] # Idle => caller[c].part <= Width(caller[c].key)
        /\ caller[c].pc = "waiting" => flight[caller[c].key] # NoFlight

(* Joining a fetch that is under way may give a caller a state from before it
   asked, but never one from before an answer already returned to somebody:
   nonce, balance and code asked for one after the other, as GetAccount does,
   come from states in that order. *)
NeverBack ==
    \A c \in Callers :
        caller[c].pc = "answered" /\ caller[c].key \in StateKeys =>
            caller[c].answer = None \/ caller[c].answer >= caller[c].floor

(* All who are answered with a header hash for a number get the same one, the
   one in headerHashes, although the chain may have had others there. *)
HashAgreed ==
    \A c \in Callers :
        caller[c].pc = "answered" /\ caller[c].key \in Numbers =>
            caller[c].answer \in {None, headerHashes[caller[c].key]}

(* Whoever asks is answered: no one waits forever on someone else's call. *)
EveryCallReturns ==
    \A c \in Callers : caller[c] # Idle ~> caller[c] = Idle
=============================================================================
