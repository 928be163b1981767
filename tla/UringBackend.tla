---------------------------- MODULE UringBackend ----------------------------
(***************************************************************************)
(* UringBackend of src/uring.cpp, over an io_uring reduced to its queues:  *)
(* the submission queue `sq', the requests the kernel has taken and the    *)
(* completion queue `cq'.  Requests are numbered in the order they are     *)
(* submitted; a number stands for the whole request and its token.         *)
(***************************************************************************)
EXTENDS BackendOptions

CONSTANTS
  SubmitMayFail,(* io_uring_submit may fail or take only some entries       *)
  WaitMayFail   (* io_uring_wait_cqe may fail                               *)

VARIABLES
  sq,           (* entries filled in and not yet taken by the kernel        *)
  kernel,       (* requests being read                                      *)
  cq,           (* completions not yet seen                                 *)
  in_flight_,   (* the backend's own count                                  *)
  pc,           (* "wait" inside reap, "idle" outside                       *)
  min, room,    (* the arguments of the reap under way                      *)
  got,          (* the completions it has put in `out'                      *)
  outcome,      (* whether the last reap returned "ok" or an "error"        *)
  issued,       (* history: requests accepted from the caller               *)
  reaped        (* history: requests handed back to the caller              *)

vars == <<sq, kernel, cq, in_flight_, pc, min, room, got, outcome, issued, reaped>>

Drop(s, n) == SubSeq(s, n + 1, Len(s))

Init ==
  /\ sq = <<>> /\ kernel = {} /\ cq = <<>> /\ in_flight_ = 0
  /\ pc = "idle" /\ min = 0 /\ room = 0 /\ got = <<>>
  /\ outcome = "ok" /\ issued = 0 /\ reaped = {}

-----------------------------------------------------------------------------
(* submit                                                                   *)

\* A call that does not fit fails with "queue full" and changes nothing.
Fits(n) == in_flight_ + n <= Depth

NewRequests(n) == [i \in 1 .. n |-> issued + i]

\* Every entry counts as in flight once it is filled in, whatever
\* io_uring_submit says of it afterwards: the kernel takes `taken' of them.
SubmitTaking(n, taken) ==
  /\ pc = "idle"
  /\ n \in 1 .. MaxRequests - issued
  /\ Fits(n)
  /\ LET filledIn == sq \o NewRequests(n)
     IN  /\ kernel' = kernel \cup Elements(SubSeq(filledIn, 1, taken))
         /\ sq' = Drop(filledIn, taken)
  /\ in_flight_' = in_flight_ + n
  /\ issued' = issued + n
  /\ UNCHANGED <<cq, pc, min, room, got, outcome, reaped>>

Submit(n) == SubmitTaking(n, Len(sq) + n)

\* A negative result (reported) takes nothing, a short one (ignored) a part.
SubmitFaulty(n) ==
  /\ SubmitMayFail
  /\ \E taken \in 0 .. Len(sq) + n - 1 : SubmitTaking(n, taken)

-----------------------------------------------------------------------------
(* reap                                                                     *)

BeginReap(m, size) ==
  /\ pc = "idle"
  /\ pc' = "wait"
  /\ min' = m
  /\ room' = size
  /\ got' = <<>>
  /\ UNCHANGED <<sq, kernel, cq, in_flight_, outcome, issued, reaped>>

Clamped == Smaller(min, room)

\* Mutants: a wait also when nothing is in flight; one completion too few.
MustWaitAlways == Len(got) < Clamped
MustWaitForOneLess == Len(got) + 1 < Clamped /\ Len(got) < in_flight_

\* in_flight_ has already gone down by the completions in `got'.
MustWait == Len(got) < Clamped /\ Len(got) < in_flight_

WaitCqe ==
  /\ pc = "wait"
  /\ MustWait
  /\ cq # <<>>
  /\ got' = Append(got, Head(cq))
  /\ cq' = Tail(cq)
  /\ in_flight_' = in_flight_ - 1
  /\ UNCHANGED <<sq, kernel, pc, min, room, outcome, issued, reaped>>

\* The completions already taken from the ring go with the error.
WaitFails ==
  /\ WaitMayFail
  /\ pc = "wait"
  /\ MustWait
  /\ got' = <<>>
  /\ outcome' = "error"
  /\ pc' = "idle"
  /\ min' = 0 /\ room' = 0
  /\ UNCHANGED <<sq, kernel, cq, in_flight_, issued, reaped>>

\* io_uring_peek_batch_cqe, at most 64 at a time, and the return.
PeekLimit == 64

\* Mutant: everything that is complete is taken, whether it fits or not.
PeekedAll == Len(cq)
Peeked == Smaller(Smaller(room - Len(got), PeekLimit), Len(cq))

\* Mutant: the drained completions are not taken off the count.
InFlightKept(n) == in_flight_
InFlightAfter(n) == in_flight_ - n

EndReap ==
  /\ pc = "wait"
  /\ ~MustWait
  /\ reaped' = reaped \cup Elements(got) \cup Elements(SubSeq(cq, 1, Peeked))
  /\ cq' = Drop(cq, Peeked)
  /\ in_flight_' = InFlightAfter(Peeked)
  /\ outcome' = "ok"
  /\ pc' = "idle"
  /\ got' = <<>>
  /\ min' = 0 /\ room' = 0
  /\ UNCHANGED <<sq, kernel, issued>>

-----------------------------------------------------------------------------
(* The kernel finishes reads in any order.                                  *)
KernelCompletes(r) ==
  /\ r \in kernel
  /\ kernel' = kernel \ {r}
  /\ cq' = Append(cq, r)
  /\ UNCHANGED <<sq, in_flight_, pc, min, room, got, outcome, issued, reaped>>

Kernel == \E r \in kernel : KernelCompletes(r)

Reaping == WaitCqe \/ WaitFails \/ EndReap

Caller ==
  \/ \E n \in 1 .. MaxRequests : Submit(n) \/ SubmitFaulty(n)
  \/ \E m \in 0 .. MaxMin, size \in 0 .. MaxRoom : BeginReap(m, size)

Next == Caller \/ Reaping \/ Kernel

Spec == Init /\ [][Next]_vars

\* The kernel finishes the reads it has taken, and a reap under way runs; the
\* caller need not call again, and no wait has to fail.
FairSpec == Spec /\ WF_vars(Kernel) /\ WF_vars(WaitCqe \/ EndReap)

-----------------------------------------------------------------------------
Held == Elements(sq) \cup kernel \cup Elements(cq)

(* Every variable keeps its type; the count stays between 0 and the queue  *)
(* depth (submit's bound, reap's decrements).                              *)
TypeOK ==
  /\ sq \in Seq(1 .. MaxRequests) /\ cq \in Seq(1 .. MaxRequests)
  /\ kernel \subseteq 1 .. MaxRequests /\ reaped \subseteq 1 .. MaxRequests
  /\ in_flight_ \in 0 .. Depth
  /\ pc \in {"idle", "wait"}
  /\ min \in 0 .. MaxMin /\ room \in 0 .. MaxRoom
  /\ got \in Seq(1 .. MaxRequests) /\ outcome \in {"ok", "error"}
  /\ issued \in 0 .. MaxRequests

(* The count agrees with the ring, also after a submission that failed or  *)
(* was taken in part: in_flight_ is what sits in the submission queue, the *)
(* kernel and the completion queue.  So the submission queue never holds   *)
(* more than Depth entries and io_uring_get_sqe always finds one.          *)
InFlightExact == in_flight_ = Len(sq) + Cardinality(kernel) + Len(cq)

\* The completions that failing waits have dropped.
Lost == (1 .. issued) \ (Held \cup Elements(got) \cup reaped)

Contract ==
  INSTANCE Backend WITH
    in_flight <- Held \cup Elements(got),
    lost <- Lost,
    call <- [min |-> min, room |-> room, active |-> pc = "wait"]

(* Calls with a `min' of 0 or 1, as ShardStream's, keep the contract of     *)
(* backend.hpp whatever other calls have asked for: every request is handed *)
(* back exactly once, no reap overruns `out' or succeeds with too few, a    *)
(* poll never fails and a wait that fails loses nothing.  For a `min' above *)
(* 1 a reap may succeed with about half of what is in flight, and one that  *)
(* fails loses what it had taken; nothing worse happens.                    *)
ImplementsBackend ==
  Contract!Init
    /\ [][IF min <= 1 THEN Contract!Next ELSE Contract!EarlyNext]_(Contract!vars)

(* "Waits until at least `min' completions are available" (backend.hpp):    *)
(* the contract for every `min'.                                            *)
WaitsForMinimum == Contract!Spec

(* Every reap returns, unless a submission that failed or was taken in part*)
(* left entries in the submission queue: in_flight_ counts them, and       *)
(* io_uring_wait_cqe then waits for reads the kernel does not have.        *)
ReapReturns == pc = "wait" /\ sq = <<>> ~> pc = "idle"
=============================================================================
