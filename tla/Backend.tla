------------------------------ MODULE Backend ------------------------------
(***************************************************************************)
(* What include/dsio/backend.hpp promises of a Backend, whichever of the   *)
(* two implementations it is: at most Depth requests are in flight, every  *)
(* one is handed back by exactly one reap, and a reap that succeeds        *)
(* returns no fewer than `min' completions, clamped to the room and to     *)
(* what is in flight.  A reap can fail only while it waits, and then       *)
(* every request stays in flight.                                          *)
(*                                                                         *)
(* EarlySpec is what is left of this where `min' is above 1 and the        *)
(* backend is io_uring's (src/uring.cpp:71-80).                            *)
(***************************************************************************)
EXTENDS Integers, FiniteSets

CONSTANT Depth

VARIABLES
  in_flight,  (* the requests submitted and not handed back                 *)
  reaped,     (* the requests handed back                                   *)
  lost,       (* the requests that no reap can hand back any more           *)
  call,       (* the reap call under way: its `min' and out.size()          *)
  outcome     (* whether the last reap returned "ok" or an "error"          *)

vars == <<in_flight, reaped, lost, call, outcome>>

NoCall == [min |-> 0, room |-> 0, active |-> FALSE]

Init ==
  /\ in_flight = {} /\ reaped = {} /\ lost = {}
  /\ call = NoCall /\ outcome = "ok"

Submit(requests) ==
  /\ ~call.active
  /\ Cardinality(in_flight \cup requests) <= Depth
  /\ requests \cap (in_flight \cup reaped \cup lost) = {}
  /\ in_flight' = in_flight \cup requests
  /\ UNCHANGED <<reaped, lost, call, outcome>>

BeginReap ==
  /\ ~call.active
  /\ call'.active
  /\ UNCHANGED <<in_flight, reaped, lost, outcome>>

Lowest(a, b) == IF a < b THEN a ELSE b

\* The completions a reap has to wait for.
Wanted == Lowest(call.min, call.room)
Owed == Lowest(Wanted, Cardinality(in_flight))

\* The same of a reap that stops once it has as many as are still out.
OwedEarly == Lowest(Wanted, (Cardinality(in_flight) + 1) \div 2)

EndReap(completions, owed) ==
  /\ call.active
  /\ completions \subseteq in_flight
  /\ Cardinality(completions) <= call.room
  /\ Cardinality(completions) >= owed
  /\ in_flight' = in_flight \ completions
  /\ reaped' = reaped \cup completions
  /\ call' = NoCall
  /\ outcome' = "ok"
  /\ UNCHANGED lost

\* A reap that fails has been waiting; it hands nothing back, and the requests
\* `dropped' it had taken from the device are gone.
FailReap(dropped, owed) ==
  /\ call.active
  /\ dropped \subseteq in_flight
  /\ Cardinality(dropped) < owed
  /\ in_flight' = in_flight \ dropped
  /\ lost' = lost \cup dropped
  /\ call' = NoCall
  /\ outcome' = "error"
  /\ UNCHANGED reaped

Between == Submit(in_flight' \ in_flight) \/ BeginReap

Next == Between \/ EndReap(reaped' \ reaped, Owed) \/ FailReap({}, Owed)

Spec == Init /\ [][Next]_vars

EarlyNext ==
  \/ Between
  \/ EndReap(reaped' \ reaped, OwedEarly)
  \/ FailReap(lost' \ lost, OwedEarly)
=============================================================================
