----------------------------- MODULE OpenBackend -----------------------------
(***************************************************************************)
(* What open_backend of src/uring.cpp hands out: the io_uring backend when *)
(* the ring can be created, else the thread pool.  Its caller sees one     *)
(* Backend; both keep the reap under way, and what was issued and reaped,  *)
(* in the same variables here.                                             *)
(***************************************************************************)
EXTENDS BackendOptions

CONSTANTS SubmitMayFail, WaitMayFail

VARIABLES
  kind,                                       (* "io_uring" or "thread"     *)
  pc, min, room, got, issued, reaped, outcome,
  sq, kernel, cq, in_flight_,                 (* UringBackend               *)
  threads, queue, running, ready, pending_    (* ThreadBackend              *)

ringVars == <<sq, kernel, cq, in_flight_>>
poolVars == <<threads, queue, running, ready, pending_>>
vars == <<kind, pc, min, room, got, issued, reaped, outcome, ringVars, poolVars>>

Ring == INSTANCE UringBackend
Pool == INSTANCE ThreadBackend

\* The ring may not be available; the other backend is never made.
Init ==
  /\ kind \in {"io_uring", "thread"}
  /\ Ring!Init
  /\ Pool!Init

InRing(A) == kind = "io_uring" /\ A /\ UNCHANGED <<kind, poolVars>>
InPool(A) == kind = "thread" /\ A /\ UNCHANGED <<kind, ringVars, outcome>>

Next == InRing(Ring!Next) \/ InPool(Pool!Next)

Spec == Init /\ [][Next]_vars

\* The fairness of the one that was opened.
FairSpec ==
  /\ Spec
  /\ WF_vars(InRing(Ring!Kernel)) /\ WF_vars(InRing(Ring!WaitCqe \/ Ring!EndReap))
  /\ WF_vars(InPool(Pool!Workers)) /\ WF_vars(InPool(Pool!Reaping))

-----------------------------------------------------------------------------
Contract ==
  INSTANCE Backend WITH
    in_flight <- IF kind = "io_uring" THEN Ring!Held \cup Elements(got)
                                      ELSE Elements(pending_) \cup Elements(got),
    lost <- IF kind = "io_uring" THEN Ring!Lost ELSE {},
    call <- [min |-> min, room |-> room, active |-> pc # "idle"]

(* Whichever backend open_backend picks, its caller gets the contract of    *)
(* backend.hpp, completions back exactly once, enough of them and no more   *)
(* than fit, for a `min' of 0 or 1; for a larger `min' only if it is the    *)
(* thread pool, else what UringBackend's ImplementsBackend leaves of it.    *)
ImplementsBackend ==
  Contract!Init
    /\ [][IF kind = "thread" \/ min <= 1 THEN Contract!Next ELSE Contract!EarlyNext]_(Contract!vars)

(* The ring's own count of what is in flight never drifts from its queues,  *)
(* through failing and partial submissions and failing waits.               *)
InFlightExact == kind = "io_uring" => Ring!InFlightExact

(* The thread pool hands completions back in the order of submission.       *)
InSubmissionOrder == kind = "thread" => Pool!InSubmissionOrder

(* Every reap returns; one on the ring may wait for ever only if entries    *)
(* are left in the submission queue (UringBackend's ReapReturns).           *)
ReapReturns == pc = "wait" /\ sq = <<>> ~> pc = "idle"
=============================================================================
