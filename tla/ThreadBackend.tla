--------------------------- MODULE ThreadBackend ---------------------------
(***************************************************************************)
(* ThreadBackend of src/thread_backend.cpp: submit enqueues one read_once  *)
(* per request on a thread pool and keeps the futures, oldest first, in    *)
(* pending_; reap waits for the oldest and hands back those that are ready *)
(* at the front.  The pool (fp::ThreadPool) is a FIFO of tasks and Threads *)
(* workers.  Requests are numbered in the order they are submitted.        *)
(***************************************************************************)
EXTENDS BackendOptions

VARIABLES
  threads,      (* the pool's size, fixed                                   *)
  queue,        (* tasks no worker has started                              *)
  running,      (* requests a worker is reading                             *)
  ready,        (* requests whose future is ready                           *)
  pending_,     (* the futures not handed back, in the order of submission  *)
  pc,           (* "wait" and "drain" inside reap, "idle" outside           *)
  min, room,    (* the arguments of the reap under way                      *)
  got,          (* the completions it has put in `out'                      *)
  issued,       (* history: requests accepted from the caller               *)
  reaped        (* history: requests handed back to the caller              *)

vars == <<threads, queue, running, ready, pending_, pc, min, room, got, issued, reaped>>

\* Mutant: 0 threads are taken at their word.
PoolSizeAsAsked(n) == n
PoolSize(n) == IF n = 0 THEN 2 ELSE n

Init ==
  /\ threads \in {PoolSize(n) : n \in ThreadCounts}
  /\ queue = <<>> /\ running = {} /\ ready = {} /\ pending_ = <<>>
  /\ pc = "idle" /\ min = 0 /\ room = 0 /\ got = <<>>
  /\ issued = 0 /\ reaped = {}

-----------------------------------------------------------------------------
\* A call that does not fit fails with "queue full" and changes nothing.
Fits(n) == Len(pending_) + n <= Depth

Submit(n) ==
  /\ pc = "idle"
  /\ n \in 1 .. MaxRequests - issued
  /\ Fits(n)
  /\ LET new == [i \in 1 .. n |-> issued + i]
     IN  /\ queue' = queue \o new
         /\ pending_' = pending_ \o new
  /\ issued' = issued + n
  /\ UNCHANGED <<threads, running, ready, pc, min, room, got, reaped>>

BeginReap(m, size) ==
  /\ pc = "idle"
  /\ pc' = "wait"
  /\ min' = m
  /\ room' = size
  /\ got' = <<>>
  /\ UNCHANGED <<threads, queue, running, ready, pending_, issued, reaped>>

\* Both clamps of `min'; pending_ does not change before the drain.
Clamped == Smaller(Smaller(min, room), Len(pending_))

\* Mutant: only the oldest future is waited for.
OldestReadyOnly == Clamped > 0 => pending_[1] \in ready
OldestReady == \A i \in 1 .. Clamped : pending_[i] \in ready

\* The oldest `min' futures are waited for one after the other.
WaitOldest ==
  /\ pc = "wait"
  /\ OldestReady
  /\ pc' = "drain"
  /\ UNCHANGED <<threads, queue, running, ready, pending_, min, room, got, issued, reaped>>

\* The loop's condition.
MoreReady == Len(got) < room /\ pending_ # <<>> /\ pending_[1] \in ready

\* Mutant: any future that is ready is taken.
DrainAny ==
  /\ pc = "drain"
  /\ \E i \in DOMAIN pending_ :
       /\ Len(got) < room /\ pending_[i] \in ready
       /\ got' = Append(got, pending_[i])
       /\ pending_' = SubSeq(pending_, 1, i - 1) \o SubSeq(pending_, i + 1, Len(pending_))
  /\ UNCHANGED <<threads, queue, running, ready, pc, min, room, issued, reaped>>

DrainOne ==
  /\ pc = "drain"
  /\ MoreReady
  /\ got' = Append(got, Head(pending_))
  /\ pending_' = Tail(pending_)
  /\ UNCHANGED <<threads, queue, running, ready, pc, min, room, issued, reaped>>

EndReap ==
  /\ pc = "drain"
  /\ ~MoreReady
  /\ reaped' = reaped \cup Elements(got)
  /\ ready' = ready \ Elements(got)
  /\ got' = <<>>
  /\ pc' = "idle"
  /\ min' = 0 /\ room' = 0
  /\ UNCHANGED <<threads, queue, running, pending_, issued>>

-----------------------------------------------------------------------------
(* The workers.  read_once repeats a pread that EINTR interrupted and       *)
(* always yields a completion, with bytes or with an errno.                 *)
WorkerStarts ==
  /\ queue # <<>>
  /\ Cardinality(running) < threads
  /\ running' = running \cup {Head(queue)}
  /\ queue' = Tail(queue)
  /\ UNCHANGED <<threads, ready, pending_, pc, min, room, got, issued, reaped>>

WorkerFinishes(r) ==
  /\ r \in running
  /\ running' = running \ {r}
  /\ ready' = ready \cup {r}
  /\ UNCHANGED <<threads, queue, pending_, pc, min, room, got, issued, reaped>>

Workers == WorkerStarts \/ \E r \in running : WorkerFinishes(r)

Reaping == WaitOldest \/ DrainOne \/ EndReap

Caller ==
  \/ \E n \in 1 .. MaxRequests : Submit(n)
  \/ \E m \in 0 .. MaxMin, size \in 0 .. MaxRoom : BeginReap(m, size)

Next == Caller \/ Reaping \/ Workers

Spec == Init /\ [][Next]_vars

\* The pool's workers run, preads end, and a reap under way runs.
FairSpec == Spec /\ WF_vars(Workers) /\ WF_vars(Reaping)

-----------------------------------------------------------------------------
(* Every variable keeps its type; pending_ stays within the queue depth.   *)
TypeOK ==
  /\ threads \in {PoolSize(n) : n \in ThreadCounts}
  /\ queue \in Seq(1 .. MaxRequests) /\ pending_ \in Seq(1 .. MaxRequests)
  /\ Len(pending_) <= Depth
  /\ running \subseteq 1 .. MaxRequests /\ ready \subseteq 1 .. MaxRequests
  /\ pc \in {"idle", "wait", "drain"}
  /\ min \in 0 .. MaxMin /\ room \in 0 .. MaxRoom
  /\ got \in Seq(1 .. MaxRequests)
  /\ issued \in 0 .. MaxRequests /\ reaped \subseteq 1 .. MaxRequests

Contract ==
  INSTANCE Backend WITH
    in_flight <- Elements(pending_) \cup Elements(got),
    lost <- {},
    outcome <- "ok",
    call <- [min |-> min, room |-> room, active |-> pc # "idle"]

(* The fallback keeps the Backend contract for every `min': every request  *)
(* handed back exactly once, never more than Depth in flight, no reap that *)
(* returns too few or overruns `out', none that fails.                     *)
ImplementsBackend == Contract!Spec

(* Completions come back in the order of submission, whatever order the    *)
(* workers finish in.                                                      *)
InSubmissionOrder ==
  \A r \in reaped \cup Elements(got) : \A q \in 1 .. r : q \in reaped \cup Elements(got)

(* Every reap returns.                                                     *)
ReapReturns == pc = "wait" ~> pc = "idle"
=============================================================================
