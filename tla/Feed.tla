--------------------------------- MODULE Feed --------------------------------
(***************************************************************************)
(* What the backend may expect of the block feed: numbered updates, counted *)
(* in rising order, go one after the other through a pipeline of two       *)
(* places.  One update may wait while another is worked on, so the update  *)
(* published next need not be the latest that is counted, and none is      *)
(* dropped.                                                                *)
(*                                                                         *)
(* StateStream implements this with two goroutines and a channel; LiveDb   *)
(* uses its actions.                                                       *)
(***************************************************************************)
EXTENDS Naturals

CONSTANTS
    Numbers,  \* block numbers
    NoHead    \* the head before the first update is published

VARIABLES
    blockHead,  \* number of the last update counted
    waiting,    \* whether that update is still to be handed over
    work,       \* what updateState is doing, and with which update
    head        \* number of the published block

feedVars == <<blockHead, waiting, work, head>>

Init ==
    /\ blockHead = 0
    /\ waiting = FALSE
    /\ work = [pc |-> "recv", num |-> 0]
    /\ head = NoHead

(* The poller has block n, above all it had before, and its trace.  It polls
   no further until the update is handed over. *)
Count(n) ==
    /\ ~waiting
    /\ n > blockHead
    /\ blockHead' = n
    /\ waiting' = TRUE
    /\ UNCHANGED <<work, head>>

(* updateState receives it. *)
Hand ==
    /\ waiting
    /\ work.pc = "recv"
    /\ waiting' = FALSE
    /\ work' = [pc |-> "process", num |-> blockHead]
    /\ UNCHANGED <<blockHead, head>>

(* ProcessState returns, with or without an error. *)
Commit ==
    /\ work.pc = "process"
    /\ work' = [work EXCEPT !.pc = "setHead"]
    /\ UNCHANGED <<blockHead, waiting, head>>

(* SetHead. *)
Publish ==
    /\ work.pc = "setHead"
    /\ head' = work.num
    /\ work' = [work EXCEPT !.pc = "recv"]
    /\ UNCHANGED <<blockHead, waiting>>

Next == (\E n \in Numbers : Count(n)) \/ Hand \/ Commit \/ Publish

Spec == Init /\ [][Next]_feedVars
=============================================================================
