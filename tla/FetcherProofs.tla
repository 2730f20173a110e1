---------------------------- MODULE FetcherProofs ----------------------------
(***************************************************************************)
(* Machine-checked proofs about the fetcher, for any callers, keys and     *)
(* chains.                                                                 *)
(***************************************************************************)
EXTENDS Fetcher, TLAPS

(* No state is newer than the node's latest, and what a call under way has
   been answered is at least as new as anything returned to a caller, about
   to be returned, or returned when those who wait for the call asked. *)
FlightsAhead ==
    /\ \A k \in Keys : returned[k] <= time
    /\ \A k \in StateKeys : \A i \in 1 .. Len(flight[k].got) :
        /\ flight[k].got[i] <= time
        /\ returned[k] <= flight[k].got[i]
        /\ \A c \in Callers :
            /\ Waiting(c, k) => caller[c].floor <= flight[k].got[i]
            /\ caller[c].pc = "answered" /\ caller[c].key = k =>
                    caller[c].answer <= flight[k].got[i]
    /\ \A c \in Callers : caller[c] # Idle =>
        /\ caller[c].floor <= returned[caller[c].key]
        /\ caller[c].key \in StateKeys => caller[c].answer <= time

(* A hash being fetched is not in headerHashes yet, and one that is about to
   be handed out is. *)
HashesCached ==
    \A n \in Numbers :
        /\ flight[n].pc \in {"call", "cache"} => headerHashes[n] = None
        /\ flight[n].pc = "cache" => Len(flight[n].got) = 1
        /\ flight[n].pc = "land" => flight[n].got = << headerHashes[n] >>

(* The inductive invariant. *)
IInv == TypeOK /\ FlightsAhead /\ HashesCached /\ NeverBack /\ HashAgreed

-----------------------------------------------------------------------------

(* The initial state satisfies the inductive invariant. *)
LEMMA InitInv == Init => IInv
  <1> SUFFICES ASSUME Init PROVE IInv
    OBVIOUS
  <1> USE FetcherAssumption DEF Init
  <1>1. 0 \in Time
    BY DEF Time
  <1>2. NoFlight \in FlightState
    BY DEF NoFlight, FlightState
  <1>3. /\ time \in Time
        /\ chain \in Seq(Time)
        /\ headerHashes \in [Numbers -> Time \cup {None}]
        /\ flight \in [Keys -> FlightState]
        /\ caller \in [Callers -> {Idle} \cup CallState]
        /\ returned \in [Keys -> Time]
    BY <1>1, <1>2
  <1>4. \A c \in Callers : caller[c] = Idle /\ caller[c].pc = "idle"
    BY DEF Idle
  <1>5. \A k \in Keys : flight[k].pc = "none" /\ flight[k].got = << >>
    BY DEF NoFlight
  <1>6. TypeOK
    BY <1>3, <1>4, <1>5 DEF TypeOK
  <1>7. FlightsAhead
    BY <1>3, <1>4, <1>5 DEF FlightsAhead, Keys, StateKeys, Time
  <1>8. HashesCached
    BY <1>5 DEF HashesCached, Keys
  <1>9. NeverBack /\ HashAgreed
    BY <1>4 DEF NeverBack, HashAgreed
  <1>10. QED
    BY <1>6, <1>7, <1>8, <1>9 DEF IInv

(* A step of the node makes the latest state newer and touches nothing else. *)
LEMMA NewHeadStep == IInv /\ NewHead => IInv'
  <1> SUFFICES ASSUME IInv, NewHead PROVE IInv'
    OBVIOUS
  <1> USE FetcherAssumption
  <1>1. TypeOK
    BY DEF IInv
  <1>2. time \in Time /\ time < MaxTime
    BY <1>1 DEF TypeOK, NewHead
  <1>3. time' = time + 1 /\ time' \in Time
    BY <1>2 DEF NewHead, Time
  <1>4. chain' \in Seq(Time)
    <2>1. PICK n \in 1 .. Len(chain) + 1 :
                chain' = Append(SubSeq(chain, 1, n - 1), time + 1)
      BY DEF NewHead
    <2>2. chain \in Seq(Time)
      BY <1>1 DEF TypeOK
    <2>3. SubSeq(chain, 1, n - 1) \in Seq(Time)
      BY <2>1, <2>2
    <2>4. QED
      BY <1>3, <2>1, <2>3
  <1>5. UNCHANGED <<headerHashes, flight, caller, returned>>
    BY DEF NewHead
  <1>6. TypeOK'
    BY <1>1, <1>3, <1>4, <1>5 DEF TypeOK
  <1>7. \A k \in Keys : \A i \in 1 .. Len(flight[k].got) :
            flight[k].got[i] \in Time
    BY <1>1 DEF TypeOK, FlightState
  <1>8. \A c \in Callers : caller[c] # Idle =>
            caller[c].answer \in Time \cup {None}
    BY <1>1 DEF TypeOK, CallState
  <1>9. \A k \in Keys : returned[k] \in Time
    BY <1>1 DEF TypeOK
  <1>10. FlightsAhead'
    BY <1>2, <1>3, <1>5, <1>7, <1>8, <1>9
       DEF IInv, FlightsAhead, Time, None, Keys, Waiting
  <1>11. HashesCached' /\ NeverBack' /\ HashAgreed'
    BY <1>5 DEF IInv, HashesCached, NeverBack, HashAgreed
  <1>12. QED
    BY <1>6, <1>10, <1>11 DEF IInv

(* A method is called, and starts a call of the group or joins one. *)
LEMMA AskStep ==
    ASSUME IInv, NEW c \in Callers, NEW k \in Keys, Start(c, k) \/ Join(c, k)
    PROVE  IInv'
  <1> USE FetcherAssumption
  <1>1. TypeOK
    BY DEF IInv
  <1>2. /\ caller[c] = Idle
        /\ UNCHANGED <<time, chain, headerHashes, returned>>
    BY DEF Start, Join
  <1>3. PICK part \in 1 .. Width(k) :
            caller' = [caller EXCEPT ![c] =
                [pc |-> "waiting", key |-> k, part |-> part,
                 floor |-> returned[k], answer |-> None]]
    BY DEF Start, Join, Call
  <1>4. caller \in [Callers -> {Idle} \cup CallState] /\ returned[k] \in Time
    BY <1>1 DEF TypeOK
  <1>5. /\ caller'[c] = [pc |-> "waiting", key |-> k, part |-> part,
                         floor |-> returned[k], answer |-> None]
        /\ \A d \in Callers \ {c} : caller'[d] = caller[d]
    BY <1>3, <1>4
  <1>6. caller'[c] \in CallState
    <2>1. part \in 1 .. 3
      BY <1>3 DEF Width
    <2>2. QED
      BY <1>4, <1>5, <2>1 DEF CallState
  <1>7. /\ flight' \in [Keys -> FlightState]
        /\ \A j \in Keys : flight'[j].got = flight[j].got
        /\ \A j \in Keys :
            \/ flight'[j] = flight[j]
            \/ /\ j = k
               /\ flight[j] = NoFlight
               /\ flight'[j].pc = IF j \in Numbers THEN "lookUp" ELSE "call"
        /\ flight'[k] # NoFlight
    <2>1. flight \in [Keys -> FlightState]
      BY <1>1 DEF TypeOK
    <2>2. CASE Start(c, k)
      <3>1. /\ flight[k] = NoFlight
            /\ flight' = [flight EXCEPT
                    ![k].pc = IF k \in Numbers THEN "lookUp" ELSE "call"]
        BY <2>2 DEF Start
      <3>2. flight'[k] = [pc |-> IF k \in Numbers THEN "lookUp" ELSE "call",
                          got |-> flight[k].got]
        BY <2>1, <3>1 DEF FlightState
      <3>3. flight'[k] \in FlightState /\ flight'[k] # NoFlight
        BY <2>1, <3>2 DEF FlightState, NoFlight
      <3>4. QED
        BY <2>1, <3>1, <3>2, <3>3
    <2>3. CASE Join(c, k)
      BY <2>1, <2>3 DEF Join
    <2>4. QED
      BY <2>2, <2>3
  <1>8. TypeOK'
    <2>1. caller' \in [Callers -> {Idle} \cup CallState]
      BY <1>3, <1>4, <1>5, <1>6
    <2>2. \A j \in Keys :
            /\ flight'[j].pc = "none" => flight'[j].got = << >>
            /\ flight'[j].pc = "land" => Len(flight'[j].got) = Width(j)
            /\ flight'[j].pc \in {"lookUp", "cache"} => j \in Numbers
      BY <1>1, <1>7 DEF TypeOK
    <2>3. \A d \in Callers :
            /\ caller'[d] # Idle => caller'[d].part <= Width(caller'[d].key)
            /\ caller'[d].pc = "waiting" => flight'[caller'[d].key] # NoFlight
      <3> SUFFICES ASSUME NEW d \in Callers
                   PROVE  /\ caller'[d] # Idle =>
                                caller'[d].part <= Width(caller'[d].key)
                          /\ caller'[d].pc = "waiting" =>
                                flight'[caller'[d].key] # NoFlight
        OBVIOUS
      <3>1. CASE d = c
        BY <1>3, <1>5, <1>7, <3>1 DEF Width
      <3>2. CASE d # c
        <4>1. caller'[d] = caller[d]
          BY <1>5, <3>2
        <4>2. caller[d].pc = "waiting" =>
                caller[d].key \in Keys /\ flight[caller[d].key] # NoFlight
          BY <1>1, <1>4 DEF TypeOK, CallState, Idle
        <4>3. \A j \in Keys : flight[j] # NoFlight => flight'[j] # NoFlight
          BY <1>7
        <4>4. QED
          BY <1>1, <4>1, <4>2, <4>3 DEF TypeOK
      <3>3. QED
        BY <3>1, <3>2
    <2>4. QED
      BY <1>1, <1>2, <1>7, <2>1, <2>2, <2>3 DEF TypeOK
  <1>9. FlightsAhead'
    <2>1. FlightsAhead
      BY DEF IInv
    <2>2. /\ caller'[c].pc = "waiting" /\ caller'[c].key = k
          /\ caller'[c].floor = returned[k] /\ caller'[c].answer = None
      BY <1>5
    <2>3. \A d \in Callers, j \in StateKeys : \A i \in 1 .. Len(flight[j].got) :
            /\ Waiting(d, j)' => caller'[d].floor <= flight[j].got[i]
            /\ caller'[d].pc = "answered" /\ caller'[d].key = j =>
                    caller'[d].answer <= flight[j].got[i]
      BY <1>5, <2>1, <2>2 DEF FlightsAhead, Waiting
    <2>4. \A d \in Callers : caller'[d] # Idle =>
            /\ caller'[d].floor <= returned[caller'[d].key]
            /\ caller'[d].key \in StateKeys => caller'[d].answer <= time
      <3>1. returned[k] <= returned[k] /\ None <= time
        BY <1>1, <1>4 DEF TypeOK, Time, None
      <3>2. QED
        BY <1>5, <2>1, <2>2, <3>1 DEF FlightsAhead
    <2>5. QED
      BY <1>2, <1>7, <2>1, <2>3, <2>4 DEF FlightsAhead, Keys
  <1>10. HashesCached'
    <2>1. \A n \in Numbers : n \in Keys /\ n \notin StateKeys
      BY DEF Keys
    <2>2. QED
      BY <1>2, <1>7, <2>1 DEF IInv, HashesCached
  <1>11. NeverBack' /\ HashAgreed'
    BY <1>2, <1>5 DEF IInv, NeverBack, HashAgreed
  <1>12. QED
    BY <1>8, <1>9, <1>10, <1>11 DEF IInv

(* A fetch ends, and those who wait for it get what it was answered; or an
   error. *)
LEMMA FinishStep ==
    ASSUME IInv, NEW k \in Keys, NEW got,
           Finish(k, got), UNCHANGED <<time, chain, headerHashes, returned>>,
           got # << >> => got \in Seq(Time) /\ Len(got) = Width(k),
           got # << >> /\ k \in StateKeys => got = flight[k].got,
           got # << >> /\ k \in Numbers => got = << headerHashes[k] >>
    PROVE  IInv'
  <1> USE FetcherAssumption
  <1>1. TypeOK /\ FlightsAhead /\ HashesCached /\ NeverBack /\ HashAgreed
    BY DEF IInv
  <1>2. /\ flight \in [Keys -> FlightState]
        /\ caller \in [Callers -> {Idle} \cup CallState]
        /\ time \in Time /\ returned \in [Keys -> Time]
        /\ headerHashes \in [Numbers -> Time \cup {None}]
    BY <1>1 DEF TypeOK
  <1>3. /\ flight' \in [Keys -> FlightState]
        /\ flight'[k] = NoFlight
        /\ \A j \in Keys \ {k} : flight'[j] = flight[j]
    BY <1>2 DEF Finish, NoFlight, FlightState
  <1>4. caller' = Answered(k, got)
    BY DEF Finish
  <1>5. ASSUME NEW c \in Callers, Waiting(c, k)
        PROVE  /\ caller[c] \in CallState
               /\ caller[c].key = k
               /\ caller[c].floor \in Nat
               /\ got # << >> => caller[c].part \in 1 .. Len(got)
    <2>1. caller[c] \in CallState
      BY <1>2, <1>5 DEF Waiting, Idle
    <2>2. /\ caller[c].key = k /\ caller[c] # Idle
          /\ caller[c].part \in 1 .. 3 /\ caller[c].floor \in Nat
      BY <1>5, <2>1 DEF Waiting, Idle, CallState, Time
    <2>3. caller[c].part <= Width(k)
      BY <1>1, <2>2 DEF TypeOK
    <2>4. QED
      BY <2>1, <2>2, <2>3
  <1>6. ASSUME NEW c \in Callers, Waiting(c, k)
        PROVE  /\ caller'[c] \in CallState
               /\ caller'[c].pc = "answered"
               /\ caller'[c].key = k
               /\ caller'[c].part = caller[c].part
               /\ caller'[c].floor = caller[c].floor
               /\ \/ caller'[c].answer = None
                  \/ /\ got # << >>
                     /\ caller'[c].answer = got[caller[c].part]
    <2>1. got # << >> => got[caller[c].part] \in Time
      BY <1>5, <1>6
    <2>2. caller'[c] = [caller[c] EXCEPT
                !.pc = "answered",
                !.answer = IF got = << >> THEN None ELSE got[caller[c].part]]
      BY <1>4, <1>6, Zenon DEF Answered
    <2>3. caller[c] \in CallState /\ caller[c].key = k
      BY <1>5, <1>6
    <2>4. QED
      BY <2>1, <2>2, <2>3 DEF CallState
  <1>7. \A c \in Callers : ~Waiting(c, k) => caller'[c] = caller[c]
    BY <1>4 DEF Answered
  <1>8. TypeOK'
    <2>1. caller' \in [Callers -> {Idle} \cup CallState]
      <3>1. \A c \in Callers : caller'[c] \in {Idle} \cup CallState
        BY <1>2, <1>6, <1>7
      <3>2. QED
        BY <1>4, <3>1 DEF Answered
    <2>2. \A j \in Keys :
            /\ flight'[j].pc = "none" => flight'[j].got = << >>
            /\ flight'[j].pc = "land" => Len(flight'[j].got) = Width(j)
            /\ flight'[j].pc \in {"lookUp", "cache"} => j \in Numbers
      BY <1>1, <1>3 DEF TypeOK, NoFlight
    <2>3. \A c \in Callers :
            /\ caller'[c] # Idle => caller'[c].part <= Width(caller'[c].key)
            /\ caller'[c].pc = "waiting" => flight'[caller'[c].key] # NoFlight
      <3> SUFFICES ASSUME NEW c \in Callers
                   PROVE  /\ caller'[c] # Idle =>
                                caller'[c].part <= Width(caller'[c].key)
                          /\ caller'[c].pc = "waiting" =>
                                flight'[caller'[c].key] # NoFlight
        OBVIOUS
      <3>1. CASE Waiting(c, k)
        <4>1. caller[c].key = k /\ caller[c] # Idle
          BY <3>1 DEF Waiting, Idle
        <4>2. QED
          BY <1>1, <1>6, <3>1, <4>1 DEF TypeOK
      <3>2. CASE ~Waiting(c, k)
        <4>1. caller'[c] = caller[c]
          BY <1>7, <3>2
        <4>2. caller[c].pc = "waiting" => caller[c].key \in Keys \ {k}
          BY <1>2, <3>2 DEF Waiting, Idle, CallState
        <4>3. QED
          BY <1>1, <1>3, <4>1, <4>2 DEF TypeOK
      <3>3. QED
        BY <3>1, <3>2
    <2>4. QED
      BY <1>1, <1>3, <2>1, <2>2, <2>3 DEF TypeOK
  <1>9. FlightsAhead'
    <2>1. \A j \in Keys : flight'[j].got = flight[j].got \/ flight'[j].got = << >>
      BY <1>3 DEF NoFlight
    <2>2. \A j \in StateKeys : j \in Keys
      BY DEF Keys
    <2>3. ASSUME NEW c \in Callers, NEW j \in StateKeys,
                 NEW i \in 1 .. Len(flight'[j].got)
          PROVE  /\ Waiting(c, j)' => caller'[c].floor <= flight'[j].got[i]
                 /\ caller'[c].pc = "answered" /\ caller'[c].key = j =>
                        caller'[c].answer <= flight'[j].got[i]
      <3>1. j # k /\ flight'[j] = flight[j]
        BY <1>3, <2>2, <2>3 DEF NoFlight
      <3>2. CASE Waiting(c, k)
        BY <1>6, <3>1, <3>2 DEF Waiting
      <3>3. CASE ~Waiting(c, k)
        BY <1>1, <1>7, <2>3, <3>1, <3>3 DEF FlightsAhead, Waiting
      <3>4. QED
        BY <3>2, <3>3
    <2>4. ASSUME NEW c \in Callers, caller'[c] # Idle
          PROVE  /\ caller'[c].floor <= returned[caller'[c].key]
                 /\ caller'[c].key \in StateKeys => caller'[c].answer <= time
      <3>1. CASE Waiting(c, k)
        <4>1. caller[c].key = k /\ caller[c] # Idle
          BY <3>1 DEF Waiting, Idle
        <4>2. None <= time
          BY <1>2 DEF Time, None
        <4>3. got # << >> /\ k \in StateKeys => got[caller[c].part] <= time
          BY <1>1, <1>5, <3>1 DEF FlightsAhead
        <4>4. QED
          BY <1>1, <1>6, <3>1, <4>1, <4>2, <4>3 DEF FlightsAhead
      <3>2. CASE ~Waiting(c, k)
        BY <1>1, <1>7, <2>4, <3>2 DEF FlightsAhead
      <3>3. QED
        BY <3>1, <3>2
    <2>5. \A j \in StateKeys : \A i \in 1 .. Len(flight'[j].got) :
            /\ flight'[j].got[i] <= time
            /\ returned[j] <= flight'[j].got[i]
      BY <1>1, <1>3, <2>1, <2>2 DEF FlightsAhead, NoFlight
    <2>6. QED
      BY <1>1, <2>3, <2>4, <2>5 DEF FlightsAhead
  <1>10. HashesCached'
    <2> SUFFICES ASSUME NEW n \in Numbers
                 PROVE  /\ flight'[n].pc \in {"call", "cache"} =>
                                headerHashes[n] = None
                        /\ flight'[n].pc = "cache" => Len(flight'[n].got) = 1
                        /\ flight'[n].pc = "land" =>
                                flight'[n].got = << headerHashes[n] >>
      BY DEF HashesCached
    <2>1. CASE n = k
      BY <1>3, <2>1 DEF NoFlight
    <2>2. CASE n # k
      BY <1>1, <1>3, <2>2 DEF HashesCached, Keys
    <2>3. QED
      BY <2>1, <2>2
  <1>11. NeverBack'
    <2> SUFFICES ASSUME NEW c \in Callers,
                        caller'[c].pc = "answered", caller'[c].key \in StateKeys
                 PROVE  \/ caller'[c].answer = None
                        \/ caller'[c].answer >= caller'[c].floor
      BY DEF NeverBack
    <2>1. CASE Waiting(c, k) /\ got # << >>
      <3>1. k \in StateKeys /\ got = flight[k].got
        BY <1>6, <2>1
      <3>2. caller[c].floor <= got[caller[c].part]
        BY <1>1, <1>5, <2>1, <3>1 DEF FlightsAhead
      <3>3. got[caller[c].part] \in Nat /\ caller[c].floor \in Nat
        BY <1>5, <2>1 DEF Time
      <3>4. QED
        BY <1>6, <2>1, <3>2, <3>3
    <2>2. CASE Waiting(c, k) /\ got = << >>
      BY <1>6, <2>2
    <2>3. CASE ~Waiting(c, k)
      BY <1>1, <1>7, <2>3 DEF NeverBack
    <2>4. QED
      BY <2>1, <2>2, <2>3
  <1>12. HashAgreed'
    <2> SUFFICES ASSUME NEW c \in Callers,
                        caller'[c].pc = "answered", caller'[c].key \in Numbers
                 PROVE  caller'[c].answer \in {None, headerHashes[caller'[c].key]}
      BY DEF HashAgreed
    <2>1. CASE Waiting(c, k)
      <3>1. caller'[c].key = k /\ k \in Numbers
        BY <1>6, <2>1
      <3>2. Width(k) = 1
        BY <3>1 DEF Width, StateKeys
      <3>3. got # << >> =>
                caller[c].part = 1 /\ got = << headerHashes[k] >>
        <4>1. got # << >> => Len(got) = 1
          BY <3>2
        <4>2. got # << >> => caller[c].part = 1
          <5>1. got # << >> => caller[c].part \in 1 .. Len(got)
            BY <1>5, <2>1
          <5>2. \A i \in 1 .. 1 : i = 1
            OBVIOUS
          <5>3. QED
            BY <4>1, <5>1, <5>2
        <4>3. QED
          BY <3>1, <4>2
      <3>4. QED
        BY <1>6, <2>1, <3>1, <3>3
    <2>2. CASE ~Waiting(c, k)
      BY <1>1, <1>7, <2>2 DEF HashAgreed
    <2>3. QED
      BY <2>1, <2>2
  <1>13. QED
    BY <1>8, <1>9, <1>10, <1>11, <1>12 DEF IInv

(* The ways in which a fetch ends. *)
LEMMA EndStep ==
    ASSUME IInv, NEW k \in Keys,
           FetchFails(k) \/ Land(k) \/ (k \in Numbers /\ CacheHit(k))
    PROVE  IInv'
  <1> USE FetcherAssumption
  <1>1. /\ flight[k] \in FlightState
        /\ flight[k].pc = "land" => Len(flight[k].got) = Width(k)
        /\ k \in Numbers => headerHashes[k] \in Time \cup {None}
    BY DEF IInv, TypeOK
  <1>2. k \in Numbers => Width(k) = 1
    BY DEF Width, StateKeys
  <1>3. CASE FetchFails(k)
    BY <1>3, FinishStep DEF FetchFails
  <1>4. CASE Land(k)
    <2>1. flight[k].got \in Seq(Time) /\ Len(flight[k].got) = Width(k)
      BY <1>1, <1>4 DEF Land, FlightState
    <2>2. k \in Numbers => flight[k].got = << headerHashes[k] >>
      BY <1>4 DEF IInv, HashesCached, Land
    <2>3. QED
      BY <1>4, <2>1, <2>2, FinishStep DEF Land
  <1>5. CASE k \in Numbers /\ CacheHit(k)
    <2>1. << headerHashes[k] >> \in Seq(Time) /\ Len(<< headerHashes[k] >>) = 1
      BY <1>1, <1>5 DEF CacheHit
    <2>2. k \notin StateKeys
      BY <1>5
    <2>3. QED
      BY <1>2, <1>5, <2>1, <2>2, FinishStep DEF CacheHit
  <1>6. QED
    BY <1>3, <1>4, <1>5

(* A caller takes its answer. *)
LEMMA ReturnStep == ASSUME IInv, NEW c \in Callers, Return(c) PROVE IInv'
  <1> USE FetcherAssumption
  <1>1. TypeOK /\ FlightsAhead /\ HashesCached /\ NeverBack /\ HashAgreed
    BY DEF IInv
  <1>2. /\ caller[c].pc = "answered" /\ caller[c] # Idle
        /\ UNCHANGED <<time, chain, headerHashes, flight>>
    BY DEF Return, Idle
  <1> DEFINE k == caller[c].key
  <1>3. caller[c] \in CallState /\ k \in Keys
    BY <1>1, <1>2 DEF TypeOK, CallState
  <1>4. caller' = [caller EXCEPT ![c] = Idle]
    BY DEF Return
  <1>5. /\ caller \in [Callers -> {Idle} \cup CallState]
        /\ caller'[c] = Idle
        /\ caller' \in [Callers -> {Idle} \cup CallState]
        /\ \A d \in Callers : caller'[d] # Idle => caller'[d] = caller[d]
        /\ \A d \in Callers : caller'[d].pc # "idle" => caller'[d] = caller[d]
    BY <1>1, <1>4 DEF TypeOK, Idle
  <1>6. returned' = IF k \in StateKeys /\ caller[c].answer > returned[k]
                    THEN [returned EXCEPT ![k] = caller[c].answer]
                    ELSE returned
    BY DEF Return
  <1>7. returned \in [Keys -> Time] /\ time \in Time
    BY <1>1 DEF TypeOK
  <1>8. /\ returned' \in [Keys -> Time]
        /\ \A j \in Keys : \/ returned'[j] = returned[j]
                           \/ /\ j = k /\ k \in StateKeys
                              /\ returned'[j] = caller[c].answer
                              /\ returned'[j] > returned[j]
    <2>1. CASE k \in StateKeys /\ caller[c].answer > returned[k]
      <3>1. caller[c].answer \in Time
        BY <1>3, <1>7, <2>1 DEF CallState, Time, None
      <3>2. returned' = [returned EXCEPT ![k] = caller[c].answer]
        BY <1>6, <2>1
      <3>3. QED
        BY <1>3, <1>7, <2>1, <3>1, <3>2
    <2>2. CASE ~(k \in StateKeys /\ caller[c].answer > returned[k])
      BY <1>6, <1>7, <2>2
    <2>3. QED
      BY <2>1, <2>2
  <1>9. \A j \in Keys : returned[j] <= returned'[j]
    BY <1>7, <1>8 DEF Time
  <1>10. TypeOK'
    <2>1. \A d \in Callers :
            /\ caller'[d] # Idle => caller'[d].part <= Width(caller'[d].key)
            /\ caller'[d].pc = "waiting" => flight[caller'[d].key] # NoFlight
      BY <1>1, <1>5 DEF TypeOK
    <2>2. QED
      BY <1>1, <1>2, <1>5, <1>8, <2>1 DEF TypeOK
  <1>11. FlightsAhead'
    <2>1. \A j \in Keys : returned'[j] <= time
      BY <1>1, <1>2, <1>8 DEF FlightsAhead
    <2>2. \A j \in StateKeys : \A i \in 1 .. Len(flight[j].got) :
            returned'[j] <= flight[j].got[i]
      <3>1. \A j \in StateKeys : j \in Keys
        BY DEF Keys
      <3>2. QED
        BY <1>1, <1>2, <1>8, <3>1 DEF FlightsAhead
    <2>3. \A d \in Callers, j \in StateKeys : \A i \in 1 .. Len(flight[j].got) :
            /\ Waiting(d, j)' => caller'[d].floor <= flight[j].got[i]
            /\ caller'[d].pc = "answered" /\ caller'[d].key = j =>
                    caller'[d].answer <= flight[j].got[i]
      BY <1>1, <1>5 DEF FlightsAhead, Waiting
    <2>4. ASSUME NEW d \in Callers, caller'[d] # Idle
          PROVE  /\ caller'[d].floor <= returned'[caller'[d].key]
                 /\ caller'[d].key \in StateKeys => caller'[d].answer <= time
      <3>1. caller'[d] = caller[d] /\ caller[d] \in CallState
        BY <1>5, <2>4
      <3>2. caller[d].key \in Keys /\ caller[d].floor \in Time
        BY <3>1 DEF CallState
      <3>3. caller[d].floor <= returned[caller[d].key]
        BY <1>1, <2>4, <3>1 DEF FlightsAhead
      <3>4. returned[caller[d].key] <= returned'[caller[d].key]
        BY <1>9, <3>2
      <3>5. caller[d].floor <= returned'[caller[d].key]
        BY <1>7, <1>8, <3>2, <3>3, <3>4 DEF Time
      <3>6. QED
        BY <1>1, <2>4, <3>1, <3>5 DEF FlightsAhead
    <2>5. QED
      BY <1>1, <1>2, <2>1, <2>2, <2>3, <2>4 DEF FlightsAhead
  <1>12. HashesCached' /\ NeverBack' /\ HashAgreed'
    BY <1>1, <1>2, <1>5 DEF HashesCached, NeverBack, HashAgreed
  <1>13. QED
    BY <1>10, <1>11, <1>12 DEF IInv

(* The node answers the next request of a batch. *)
LEMMA FetchStateStep ==
    ASSUME IInv, NEW k \in Keys, FetchState(k) PROVE IInv'
  <1> USE FetcherAssumption
  <1>1. TypeOK /\ FlightsAhead /\ HashesCached /\ NeverBack /\ HashAgreed
    BY DEF IInv
  <1>2. /\ k \in StateKeys /\ k \notin Numbers
        /\ flight[k].pc = "call"
        /\ UNCHANGED <<time, chain, headerHashes, caller, returned>>
    BY DEF FetchState
  <1> DEFINE got == Append(flight[k].got, time)
             pc == IF Len(got) = Width(k) THEN "land" ELSE "call"
  <1>3. flight' = [flight EXCEPT ![k] = [pc |-> pc, got |-> got]]
    BY DEF FetchState
  <1>4. /\ flight \in [Keys -> FlightState] /\ time \in Time
        /\ caller \in [Callers -> {Idle} \cup CallState]
        /\ returned \in [Keys -> Time]
    BY <1>1 DEF TypeOK
  <1>5. flight[k].got \in Seq(Time)
    BY <1>4 DEF FlightState
  <1>6. /\ got \in Seq(Time)
        /\ Len(got) = Len(flight[k].got) + 1
        /\ \A i \in 1 .. Len(flight[k].got) : got[i] = flight[k].got[i]
        /\ got[Len(flight[k].got) + 1] = time
    BY <1>4, <1>5
  <1>7. /\ flight'[k] = [pc |-> pc, got |-> got]
        /\ \A j \in Keys \ {k} : flight'[j] = flight[j]
    BY <1>3, <1>4
  <1>8. [pc |-> pc, got |-> got] \in FlightState
    BY <1>6 DEF FlightState
  <1>9. flight' \in [Keys -> FlightState]
    BY <1>3, <1>4, <1>8
  <1> HIDE DEF got
  <1>10. TypeOK'
    <2>1. \A j \in Keys :
            /\ flight'[j].pc = "none" => flight'[j].got = << >>
            /\ flight'[j].pc = "land" => Len(flight'[j].got) = Width(j)
            /\ flight'[j].pc \in {"lookUp", "cache"} => j \in Numbers
      BY <1>1, <1>7 DEF TypeOK
    <2>2. \A j \in Keys : flight[j] # NoFlight => flight'[j] # NoFlight
      BY <1>7 DEF NoFlight
    <2>3. \A c \in Callers : caller[c].pc = "waiting" =>
            caller[c].key \in Keys /\ flight[caller[c].key] # NoFlight
      BY <1>1, <1>4 DEF TypeOK, CallState, Idle
    <2>4. QED
      BY <1>1, <1>2, <1>9, <2>1, <2>2, <2>3 DEF TypeOK
  <1>11. FlightsAhead'
    <2>1. \A j \in StateKeys : j \in Keys
      BY DEF Keys
    <2>2. ASSUME NEW j \in StateKeys, NEW i \in 1 .. Len(flight'[j].got)
          PROVE  /\ flight'[j].got[i] <= time
                 /\ returned[j] <= flight'[j].got[i]
                 /\ \A c \in Callers :
                    /\ Waiting(c, j) => caller[c].floor <= flight'[j].got[i]
                    /\ caller[c].pc = "answered" /\ caller[c].key = j =>
                            caller[c].answer <= flight'[j].got[i]
      <3>1. CASE \/ j # k
                 \/ j = k /\ i \in 1 .. Len(flight[k].got)
        <4>1. /\ i \in 1 .. Len(flight[j].got)
              /\ flight'[j].got[i] = flight[j].got[i]
          BY <1>6, <1>7, <2>1, <2>2, <3>1
        <4>2. QED
          BY <1>1, <4>1 DEF FlightsAhead
      <3>2. CASE j = k /\ i = Len(flight[k].got) + 1
        <4>1. flight'[j].got[i] = time
          BY <1>6, <1>7, <3>2
        <4>2. returned[k] <= time /\ time <= time
          BY <1>1, <1>4 DEF FlightsAhead, Time
        <4>3. ASSUME NEW c \in Callers, caller[c] # Idle, caller[c].key = k
              PROVE  caller[c].floor <= time /\ caller[c].answer <= time
          <5>1. caller[c].floor <= returned[k] /\ caller[c].answer <= time
            BY <1>1, <1>2, <4>3 DEF FlightsAhead
          <5>2. caller[c].floor \in Time /\ returned[k] \in Time
            BY <1>4, <4>3 DEF CallState
          <5>3. QED
            BY <1>4, <4>2, <5>1, <5>2 DEF Time
        <4>4. \A c \in Callers :
                Waiting(c, k) \/ caller[c].pc = "answered" => caller[c] # Idle
          BY DEF Waiting, Idle
        <4>5. QED
          BY <3>2, <4>1, <4>2, <4>3, <4>4 DEF Waiting
      <3>3. QED
        <4>1. Len(flight[k].got) \in Nat
          BY <1>5
        <4>2. j = k => i \in 1 .. Len(flight[k].got) + 1
          BY <1>6, <1>7, <2>2
        <4>3. QED
          BY <3>1, <3>2, <4>1, <4>2
    <2>3. QED
      BY <1>1, <1>2, <2>2 DEF FlightsAhead, Waiting
  <1>12. HashesCached'
    BY <1>1, <1>2, <1>7 DEF HashesCached, Keys
  <1>13. NeverBack' /\ HashAgreed'
    BY <1>1, <1>2 DEF NeverBack, HashAgreed
  <1>14. QED
    BY <1>10, <1>11, <1>12, <1>13 DEF IInv

(* fetchHeaderHash, between joining the group and handing out its hash. *)
LEMMA HeaderStep ==
    ASSUME IInv, NEW n \in Numbers,
           CacheMiss(n) \/ FetchHeader(n) \/ CacheHeader(n)
    PROVE  IInv'
  <1> USE FetcherAssumption
  <1>1. TypeOK /\ FlightsAhead /\ HashesCached /\ NeverBack /\ HashAgreed
    BY DEF IInv
  <1>2. n \in Keys /\ n \notin StateKeys /\ Width(n) = 1
    BY DEF Keys, StateKeys, Width
  <1>3. /\ flight \in [Keys -> FlightState]
        /\ caller \in [Callers -> {Idle} \cup CallState]
        /\ headerHashes \in [Numbers -> Time \cup {None}]
        /\ chain \in Seq(Time)
    BY <1>1 DEF TypeOK
  <1>4. UNCHANGED <<time, chain, caller, returned>>
    BY DEF CacheMiss, FetchHeader, CacheHeader
  <1>5. /\ flight[n].pc \in {"lookUp", "call", "cache"}
        /\ flight'[n] \in FlightState
        /\ flight'[n].pc \in {"call", "cache", "land"}
        /\ flight'[n].pc = "land" => Len(flight'[n].got) = 1
        /\ \A j \in Keys \ {n} : flight'[j] = flight[j]
        /\ flight' \in [Keys -> FlightState]
        /\ headerHashes' \in [Numbers -> Time \cup {None}]
        /\ \A m \in Numbers \ {n} : headerHashes'[m] = headerHashes[m]
        /\ headerHashes[n] # None => headerHashes' = headerHashes
        /\ flight'[n].pc \in {"call", "cache"} => headerHashes'[n] = None
        /\ flight'[n].pc = "cache" => Len(flight'[n].got) = 1
        /\ flight'[n].pc = "land" => flight'[n].got = << headerHashes'[n] >>
    <2>1. CASE CacheMiss(n)
      <3>1. flight' = [flight EXCEPT ![n].pc = "call"]
        BY <2>1 DEF CacheMiss
      <3>2. flight'[n] = [pc |-> "call", got |-> flight[n].got]
        BY <1>2, <1>3, <3>1 DEF FlightState
      <3>3. flight'[n] \in FlightState
        BY <1>2, <1>3, <3>2 DEF FlightState
      <3>4. QED
        BY <1>2, <1>3, <2>1, <3>1, <3>2, <3>3 DEF CacheMiss
    <2>2. CASE FetchHeader(n)
      <3>1. /\ flight[n].pc = "call" /\ headerHashes' = headerHashes
            /\ flight' = [flight EXCEPT
                    ![n] = [pc |-> "cache", got |-> << chain[n] >>]]
            /\ n \in 1 .. Len(chain)
        BY <2>2 DEF FetchHeader
      <3>2. flight'[n] = [pc |-> "cache", got |-> << chain[n] >>]
        BY <1>2, <1>3, <3>1
      <3>3. << chain[n] >> \in Seq(Time)
        BY <1>3, <3>1
      <3>4. [pc |-> "cache", got |-> << chain[n] >>] \in FlightState
        BY <3>3 DEF FlightState
      <3>5. headerHashes[n] = None
        BY <1>1, <3>1 DEF HashesCached
      <3>6. QED
        BY <1>2, <1>3, <3>1, <3>2, <3>4, <3>5
    <2>3. CASE CacheHeader(n)
      <3>1. /\ flight[n].pc = "cache"
            /\ flight' = [flight EXCEPT ![n].pc = "land"]
            /\ headerHashes' = [headerHashes EXCEPT ![n] = flight[n].got[1]]
        BY <2>3 DEF CacheHeader
      <3>2. /\ flight[n].got \in Seq(Time) /\ Len(flight[n].got) = 1
            /\ headerHashes[n] = None
        BY <1>1, <1>2, <1>3, <3>1 DEF FlightState, HashesCached
      <3>3. flight[n].got[1] \in Time /\ flight[n].got = << flight[n].got[1] >>
        BY <3>2
      <3>4. headerHashes'[n] = flight[n].got[1]
        BY <1>3, <3>1
      <3>5. flight'[n] = [pc |-> "land", got |-> flight[n].got]
        BY <1>2, <1>3, <3>1 DEF FlightState
      <3>6. flight'[n] \in FlightState
        BY <3>2, <3>5 DEF FlightState
      <3>7. QED
        BY <1>2, <1>3, <3>1, <3>2, <3>3, <3>4, <3>5, <3>6
    <2>4. QED
      BY <2>1, <2>2, <2>3
  <1>6. TypeOK'
    <2>1. \A j \in Keys :
            /\ flight'[j].pc = "none" => flight'[j].got = << >>
            /\ flight'[j].pc = "land" => Len(flight'[j].got) = Width(j)
            /\ flight'[j].pc \in {"lookUp", "cache"} => j \in Numbers
      BY <1>1, <1>2, <1>5 DEF TypeOK
    <2>2. \A j \in Keys : flight[j] # NoFlight => flight'[j] # NoFlight
      BY <1>5 DEF NoFlight
    <2>3. \A c \in Callers : caller[c].pc = "waiting" =>
            caller[c].key \in Keys /\ flight[caller[c].key] # NoFlight
      BY <1>1, <1>3 DEF TypeOK, CallState, Idle
    <2>4. QED
      BY <1>1, <1>4, <1>5, <2>1, <2>2, <2>3 DEF TypeOK
  <1>7. FlightsAhead'
    <2>1. \A j \in StateKeys : flight'[j] = flight[j]
      BY <1>2, <1>5 DEF Keys
    <2>2. QED
      BY <1>1, <1>4, <2>1 DEF FlightsAhead, Waiting
  <1>8. HashesCached'
    BY <1>1, <1>5 DEF HashesCached, Keys
  <1>9. NeverBack'
    BY <1>1, <1>4 DEF NeverBack
  <1>10. HashAgreed'
    <2> SUFFICES ASSUME NEW c \in Callers,
                        caller[c].pc = "answered", caller[c].key \in Numbers
                 PROVE  caller[c].answer \in {None, headerHashes'[caller[c].key]}
      BY <1>4 DEF HashAgreed
    <2>1. caller[c].answer \in {None, headerHashes[caller[c].key]}
      BY <1>1 DEF HashAgreed
    <2>2. QED
      BY <1>5, <2>1
  <1>11. QED
    BY <1>6, <1>7, <1>8, <1>9, <1>10 DEF IInv

(* Every step preserves the inductive invariant. *)
LEMMA NextInv == IInv /\ [Next]_vars => IInv'
  <1> SUFFICES ASSUME IInv, [Next]_vars PROVE IInv'
    OBVIOUS
  <1>1. CASE NewHead
    BY <1>1, NewHeadStep
  <1>2. ASSUME NEW c \in Callers, Return(c) PROVE IInv'
    BY <1>2, ReturnStep
  <1>3. ASSUME NEW c \in Callers, NEW k \in Keys, Start(c, k) \/ Join(c, k)
        PROVE  IInv'
    BY <1>3, AskStep
  <1>4. ASSUME NEW k \in Keys, Fetch(k) PROVE IInv'
    <2>1. CASE FetchState(k)
      BY <2>1, FetchStateStep
    <2>2. CASE FetchFails(k) \/ Land(k) \/ (k \in Numbers /\ CacheHit(k))
      BY <2>2, EndStep
    <2>3. CASE /\ k \in Numbers
               /\ CacheMiss(k) \/ FetchHeader(k) \/ CacheHeader(k)
      BY <2>3, HeaderStep
    <2>4. QED
      BY <1>4, <2>1, <2>2, <2>3 DEF Fetch
  <1>5. CASE UNCHANGED vars
    BY <1>5 DEF vars, IInv, TypeOK, FlightsAhead, HashesCached, NeverBack,
                HashAgreed, Waiting
  <1>6. QED
    BY <1>1, <1>2, <1>3, <1>4, <1>5 DEF Next

(* The inductive invariant holds throughout. *)
THEOREM Invariance == Spec => []IInv
  BY InitInv, NextInv, PTL DEF Spec

(* Type correctness, and that nobody waits for a call that is not under way:
   the singleflight group wakes all it has to. *)
THEOREM TypeCorrect == Spec => []TypeOK
  <1>1. IInv => TypeOK
    BY DEF IInv
  <1>2. QED
    BY <1>1, Invariance, PTL

(* However calls are joined, nobody is answered with a state older than one
   returned before it asked. *)
THEOREM AnswersAdvance == Spec => []NeverBack
  <1>1. IInv => NeverBack
    BY DEF IInv
  <1>2. QED
    BY <1>1, Invariance, PTL

(* The hashes handed out for a block number are all the same, through
   reorganisations and concurrent calls. *)
THEOREM OneHashPerNumber == Spec => []HashAgreed
  <1>1. IInv => HashAgreed
    BY DEF IInv
  <1>2. QED
    BY <1>1, Invariance, PTL
=============================================================================
