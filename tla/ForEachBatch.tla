---------------------------- MODULE ForEachBatch ----------------------------
(***************************************************************************)
(* dsio::for_each_batch (src/dataset.cpp): one producer task reads batches *)
(* from the shard stream into recycled buffers, the calling thread hands   *)
(* them to the callback.  The two sides meet in two fp::Channels, `free'   *)
(* (empty buffers) and `ready' (filled ones), and in SharedError.          *)
(*                                                                         *)
(* A batch buffer is a heap block, named 0..prefetch; content[b] is the    *)
(* number of the stream batch whose bytes it holds (Dirty while it is      *)
(* being overwritten).  The shard stream is reduced to what the pipeline   *)
(* sees of it: `total' non-empty batches, then the end, a failed read at   *)
(* any point and, when ReadMayThrow, an exception that is not an Outcome.  *)
(***************************************************************************)
EXTENDS Integers, Sequences

CONSTANTS
  Options,      (* the BatchOptions the caller may pass                     *)
  Totals,       (* the numbers of batches the shard set may amount to       *)
  ReadMayThrow  (* stream.read may throw (std::bad_alloc from carry_.resize)*)

ASSUME OptionsAssumption ==
  Options \subseteq [batch_bytes : Nat, prefetch : Nat, read_depth : Nat]
ASSUME TotalsAssumption == Totals \subseteq Nat
ASSUME ThrowAssumption == ReadMayThrow \in BOOLEAN

VARIABLES
  options,      (* the call's BatchOptions, fixed                           *)
  total,        (* batches in the stream, fixed                             *)
  free, ready,  (* the queued buffers of the two channels                   *)
  freeOpen,     (* FALSE after free.close()                                 *)
  readyOpen,    (* FALSE after ready.close()                                *)
  content,      (* content[b]: the batch whose bytes buffer b holds         *)
  produced,     (* batches the stream has yielded                           *)
  ppc, pbuf,    (* the producer's place in its loop and its local `batch'   *)
  cpc, cbuf,    (* the caller's place in its loop and its local `batch'     *)
  keep_going,   (* what the callback last returned                          *)
  error,        (* SharedError holds an error                               *)
  result,       (* what for_each_batch returns                              *)
  seen          (* history: the batches the callback has read, in order     *)

producerVars == <<produced, ppc, pbuf>>
consumerVars == <<cpc, cbuf, keep_going, result, seen>>
vars == <<options, total, free, ready, freeOpen, readyOpen, content,
          produced, ppc, pbuf, cpc, cbuf, keep_going, error, result, seen>>

Dirty == 0
Buffers == 0 .. options.prefetch
ProducerStates == {"unborn", "recv", "read", "send", "fail", "close", "done",
                   "thrown"}
ConsumerStates == {"start", "recv", "callback", "recycle", "close_free",
                   "close_ready", "take", "join", "returned"}

ValidOptions ==
  options.batch_bytes > 0 /\ options.prefetch > 0 /\ options.read_depth > 0

Init ==
  /\ options \in Options
  /\ total \in Totals
  /\ free = <<>> /\ ready = <<>>
  /\ freeOpen = TRUE /\ readyOpen = TRUE
  /\ content = [b \in Buffers |-> Dirty]
  /\ produced = 0
  /\ ppc = "unborn" /\ pbuf = 0
  /\ cpc = "start" /\ cbuf = 0
  /\ keep_going = TRUE
  /\ error = FALSE
  /\ result = "none"
  /\ seen = <<>>

-----------------------------------------------------------------------------
(* fp::Channel, as for_each_batch relies on it: bounded and blocking; recv  *)
(* drains what was queued before a close and throws once nothing is left;   *)
(* send throws on a closed channel, also when it was blocked on a full one. *)

RecvThrows(queue, open) == queue = <<>> /\ ~open
HasRoom(queue, capacity) == Len(queue) < capacity

ReadyCapacity == options.prefetch

\* Mutant: both channels get the same capacity.
FreeCapacityOneShort == options.prefetch
FreeCapacity == options.prefetch + 1

-----------------------------------------------------------------------------
(* The call: validation, then the buffers and the producer task.           *)

RejectOptions ==
  /\ cpc = "start"
  /\ ~ValidOptions
  /\ result' = "err"
  /\ cpc' = "returned"
  /\ UNCHANGED <<options, total, free, ready, freeOpen, readyOpen, content,
                 producerVars, cbuf, keep_going, error, seen>>

\* free.send in a loop fills `free' to its capacity, prefetch + 1.
Start ==
  /\ cpc = "start"
  /\ ValidOptions
  /\ free' = [i \in 1 .. options.prefetch + 1 |-> i - 1]
  /\ ppc' = "recv"
  /\ cpc' = "recv"
  /\ UNCHANGED <<options, total, ready, freeOpen, readyOpen, content, produced,
                 pbuf, cbuf, keep_going, error, result, seen>>

-----------------------------------------------------------------------------
(* The producer task.                                                       *)

PRecv ==
  /\ ppc = "recv"
  /\ free # <<>>
  /\ pbuf' = Head(free)
  /\ free' = Tail(free)
  /\ content' = [content EXCEPT ![Head(free)] = Dirty]
  /\ ppc' = "read"
  /\ UNCHANGED <<options, total, ready, freeOpen, readyOpen, produced, error,
                 consumerVars>>

\* free.recv throws: the catch block ends the task.
PRecvClosed ==
  /\ ppc = "recv"
  /\ RecvThrows(free, freeOpen)
  /\ ppc' = "done"
  /\ UNCHANGED <<options, total, free, ready, freeOpen, readyOpen, content,
                 produced, pbuf, error, consumerVars>>

\* Mutant: one batch too many.
MoreInStreamOffByOne == produced <= total
MoreInStream == produced < total

PReadOk ==
  /\ ppc = "read"
  /\ MoreInStream
  /\ produced' = produced + 1
  /\ content' = [content EXCEPT ![pbuf] = produced + 1]
  /\ ppc' = "send"
  /\ UNCHANGED <<options, total, free, ready, freeOpen, readyOpen, pbuf, error,
                 consumerVars>>

PReadEnd ==
  /\ ppc = "read"
  /\ ~MoreInStream
  /\ ppc' = "close"
  /\ UNCHANGED <<options, total, free, ready, freeOpen, readyOpen, content,
                 produced, pbuf, error, consumerVars>>

\* Mutant: a failed read is taken for the end of the stream.
PReadFailsSilently ==
  /\ ppc = "read"
  /\ ppc' = "close"
  /\ UNCHANGED <<options, total, free, ready, freeOpen, readyOpen, content,
                 produced, pbuf, error, consumerVars>>

PReadFails ==
  /\ ppc = "read"
  /\ ppc' = "fail"
  /\ UNCHANGED <<options, total, free, ready, freeOpen, readyOpen, content,
                 produced, pbuf, error, consumerVars>>

\* The catch block takes a std::runtime_error for a closed channel; any other
\* exception goes to the future that enqueue returned and nobody reads.  Either
\* way the task ends with `ready' open.
PReadThrows ==
  /\ ReadMayThrow
  /\ ppc = "read"
  /\ ppc' = "thrown"
  /\ UNCHANGED <<options, total, free, ready, freeOpen, readyOpen, content,
                 produced, pbuf, error, consumerVars>>

PSetError ==
  /\ ppc = "fail"
  /\ error' = TRUE
  /\ ppc' = "close"
  /\ UNCHANGED <<options, total, free, ready, freeOpen, readyOpen, content,
                 produced, pbuf, consumerVars>>

PClose ==
  /\ ppc = "close"
  /\ readyOpen' = FALSE
  /\ ppc' = "done"
  /\ UNCHANGED <<options, total, free, ready, freeOpen, content, produced, pbuf,
                 error, consumerVars>>

\* Mutant: the batch is dropped, not waited with, when `ready' is full.
PSendOrDrop ==
  /\ ppc = "send"
  /\ readyOpen
  /\ ready' = IF HasRoom(ready, ReadyCapacity) THEN Append(ready, pbuf) ELSE ready
  /\ ppc' = "recv"
  /\ UNCHANGED <<options, total, free, freeOpen, readyOpen, content, produced,
                 pbuf, error, consumerVars>>

PSend ==
  /\ ppc = "send"
  /\ readyOpen
  /\ HasRoom(ready, ReadyCapacity)
  /\ ready' = Append(ready, pbuf)
  /\ ppc' = "recv"
  /\ UNCHANGED <<options, total, free, freeOpen, readyOpen, content, produced,
                 pbuf, error, consumerVars>>

PSendClosed ==
  /\ ppc = "send"
  /\ ~readyOpen
  /\ ppc' = "done"
  /\ UNCHANGED <<options, total, free, ready, freeOpen, readyOpen, content,
                 produced, pbuf, error, consumerVars>>

Producer ==
  \/ PRecv \/ PRecvClosed
  \/ PReadOk \/ PReadEnd \/ PReadFails \/ PReadThrows
  \/ PSetError \/ PClose
  \/ PSend \/ PSendClosed

-----------------------------------------------------------------------------
(* The calling thread.                                                      *)

\* Mutant: the buffer goes back to `free' before the callback has used it.
CRecvRecyclesEarly ==
  /\ cpc = "recv"
  /\ ready # <<>>
  /\ cbuf' = Head(ready)
  /\ ready' = Tail(ready)
  /\ free' = Append(free, Head(ready))
  /\ cpc' = "callback"
  /\ UNCHANGED <<options, total, freeOpen, readyOpen, content, producerVars,
                 keep_going, error, result, seen>>

CRecv ==
  /\ cpc = "recv"
  /\ ready # <<>>
  /\ cbuf' = Head(ready)
  /\ ready' = Tail(ready)
  /\ cpc' = "callback"
  /\ UNCHANGED <<options, total, free, freeOpen, readyOpen, content, producerVars,
                 keep_going, error, result, seen>>

\* ready.recv throws: end of stream, or a producer error found by CTake.
CRecvClosed ==
  /\ cpc = "recv"
  /\ RecvThrows(ready, readyOpen)
  /\ cpc' = "close_free"
  /\ UNCHANGED <<options, total, free, ready, freeOpen, readyOpen, content,
                 producerVars, cbuf, keep_going, error, result, seen>>

\* The callback reads its span and returns `more'.
CCallback(more) ==
  /\ cpc = "callback"
  /\ seen' = Append(seen, content[cbuf])
  /\ keep_going' = more
  /\ cpc' = "recycle"
  /\ UNCHANGED <<options, total, free, ready, freeOpen, readyOpen, content,
                 producerVars, cbuf, error, result>>

CCallbackThrows ==
  /\ cpc = "callback"
  /\ seen' = Append(seen, content[cbuf])
  /\ result' = "throw"
  /\ cpc' = "close_free"
  /\ UNCHANGED <<options, total, free, ready, freeOpen, readyOpen, content,
                 producerVars, cbuf, keep_going, error>>

CRecycle ==
  /\ cpc = "recycle"
  /\ HasRoom(free, FreeCapacity)
  /\ free' = Append(free, cbuf)
  /\ cpc' = IF keep_going THEN "recv" ELSE "close_free"
  /\ UNCHANGED <<options, total, ready, freeOpen, readyOpen, content,
                 producerVars, cbuf, keep_going, error, result, seen>>

CCloseFree ==
  /\ cpc = "close_free"
  /\ freeOpen' = FALSE
  /\ cpc' = "close_ready"
  /\ UNCHANGED <<options, total, free, ready, readyOpen, content, producerVars,
                 cbuf, keep_going, error, result, seen>>

\* Mutant: only `free' is closed, a producer blocked in ready.send stays there.
CCloseReadyForgotten ==
  /\ cpc = "close_ready"
  /\ cpc' = IF result = "throw" THEN "join" ELSE "take"
  /\ UNCHANGED <<options, total, free, ready, freeOpen, readyOpen, content,
                 producerVars, cbuf, keep_going, error, result, seen>>

CCloseReady ==
  /\ cpc = "close_ready"
  /\ readyOpen' = FALSE
  /\ cpc' = IF result = "throw" THEN "join" ELSE "take"
  /\ UNCHANGED <<options, total, free, ready, freeOpen, content, producerVars,
                 cbuf, keep_going, error, result, seen>>

\* error.take() runs before the pool's destructor has joined the producer; the
\* std::optional it moves from still holds a (moved-from) error.
CTake ==
  /\ cpc = "take"
  /\ result' = IF error THEN "err" ELSE "ok"
  /\ cpc' = "join"
  /\ UNCHANGED <<options, total, free, ready, freeOpen, readyOpen, content,
                 producerVars, cbuf, keep_going, error, seen>>

\* ~ThreadPool waits for the task.
CJoin ==
  /\ cpc = "join"
  /\ ppc \in {"done", "thrown"}
  /\ cpc' = "returned"
  /\ UNCHANGED <<options, total, free, ready, freeOpen, readyOpen, content,
                 producerVars, cbuf, keep_going, error, result, seen>>

Consumer ==
  \/ RejectOptions \/ Start
  \/ CRecv \/ CRecvClosed
  \/ \E more \in BOOLEAN : CCallback(more)
  \/ CCallbackThrows
  \/ CRecycle
  \/ CCloseFree \/ CCloseReady \/ CTake \/ CJoin

-----------------------------------------------------------------------------
Returned == cpc = "returned"

Finished == Returned /\ UNCHANGED vars

Next == Producer \/ Consumer \/ Finished

Spec == Init /\ [][Next]_vars

\* Both threads are scheduled, reads complete and the callback returns.
FairSpec == Spec /\ WF_vars(Producer) /\ WF_vars(Consumer)

-----------------------------------------------------------------------------
ProducerHolds == ppc \in {"read", "send", "fail", "close"}
ConsumerHolds == cpc \in {"callback", "recycle"}

(* Every variable keeps its type; in particular no buffer ever holds a     *)
(* batch the stream does not have (for_each_batch's two loops).            *)
TypeOK ==
  /\ options \in Options
  /\ total \in Totals
  /\ free \in Seq(Buffers) /\ ready \in Seq(Buffers)
  /\ freeOpen \in BOOLEAN /\ readyOpen \in BOOLEAN
  /\ content \in [Buffers -> 0 .. total]
  /\ produced \in 0 .. total
  /\ ppc \in ProducerStates /\ pbuf \in Buffers
  /\ cpc \in ConsumerStates /\ cbuf \in Buffers
  /\ keep_going \in BOOLEAN /\ error \in BOOLEAN
  /\ result \in {"none", "ok", "err", "throw"}
  /\ seen \in Seq(0 .. total)

(* A batch buffer is in one place at a time: in `free', in `ready', in the *)
(* producer's hands or in the callback's (the std::move of Batch through   *)
(* the channels), so no two threads ever use the same bytes.               *)
NoSharing ==
  /\ \A i, j \in DOMAIN free : free[i] = free[j] => i = j
  /\ \A i, j \in DOMAIN ready : ready[i] = ready[j] => i = j
  /\ \A i \in DOMAIN free, j \in DOMAIN ready : free[i] # ready[j]
  /\ ProducerHolds => /\ \A i \in DOMAIN free : free[i] # pbuf
                      /\ \A i \in DOMAIN ready : ready[i] # pbuf
  /\ ConsumerHolds => /\ \A i \in DOMAIN free : free[i] # cbuf
                      /\ \A i \in DOMAIN ready : ready[i] # cbuf
  /\ ProducerHolds /\ ConsumerHolds => pbuf # cbuf

(* The callback sees batch 1, 2, 3, ... of the stream: none skipped, none  *)
(* twice, none whose buffer the producer had begun to overwrite.           *)
InOrder == \A i \in DOMAIN seen : seen[i] = i

(* The span handed to the callback keeps its bytes until the callback has  *)
(* returned ("the span is valid for the duration of the call").            *)
SpanStable == [][cpc = "callback" => content'[cbuf] = content[cbuf]]_vars

(* At most prefetch + 1 batches are read that the callback has not been    *)
(* given: the bound on memory and on how far the producer runs ahead.      *)
ReadAheadBounded == produced <= Len(seen) + options.prefetch + 1

(* The caller never blocks giving a buffer back: `free' always has room    *)
(* when CRecycle comes, so the pipeline cannot wedge on free.send.         *)
RecycleNeverBlocks ==
  cpc = "recycle" => freeOpen /\ HasRoom(free, FreeCapacity)

(* When the callback never asked to stop, every batch the stream yielded   *)
(* reached it before for_each_batch returned, also when the producer       *)
(* failed after reading ahead; ok means the stream was read to its end;    *)
(* and an error in SharedError is always returned, none is set after the   *)
(* caller has looked.                                                      *)
NothingDropped ==
  Returned /\ keep_going /\ result # "throw" /\ ValidOptions =>
    /\ Len(seen) = produced
    /\ error => result = "err"
    /\ result = "ok" => produced = total

(* for_each_batch returns, whatever the callback does, with the producer   *)
(* joined.  Only an exception out of stream.read keeps it: the task is gone *)
(* without ready.close(), and a caller that has not been asked to stop     *)
(* waits in ready.recv for ever.                                           *)
Terminates == <>Returned \/ <>[](ppc = "thrown" /\ cpc = "recv")

(* docs/usage.md: "Returning `false` stops cleanly (`for_each_batch`       *)
(* returns ok)".                                                           *)
StopReturnsOk ==
  Returned /\ ~keep_going /\ result # "throw" => result = "ok"
=============================================================================
