---------------------------- MODULE ShardStream ----------------------------
(***************************************************************************)
(* The ShardStream class of src/dataset.cpp: read() fills one batch after  *)
(* another from a list of shards, each a window of a file read through an  *)
(* asynchronous backend with several segment reads in flight.              *)
(*                                                                         *)
(* Bytes are extents [sh, at, n]: n bytes of shard sh from file offset     *)
(* `at'.  mem[s] is the extent the last finished read left in slot s, so a *)
(* buffer reused too early shows up as wrong bytes in `out'.               *)
(*                                                                         *)
(* The backend is what backend.hpp promises: reads in flight finish in any *)
(* order (Complete), reap returns finished ones.  A backend that is reset  *)
(* with reads in flight either waits for them (the thread pool's join) or  *)
(* leaves them to the kernel (io_uring_queue_exit): ResetWaits.  The       *)
(* second is io_uring's, whose submit may also leave entries in the ring   *)
(* that count as in flight (UringBackend's submission queue).              *)
(***************************************************************************)
EXTENDS Integers, Sequences, FiniteSets

CONSTANTS
  ShardLists,   (* the shard lists, in stream order, a call may be given    *)
  Options,      (* the BatchOptions it may be given                         *)
  SegmentCap,   (* the default segment's cap, 256 KiB                       *)
  ResetWaits,   (* destroying the backend waits for its reads               *)
  ShortReads    (* a read may return fewer bytes than the file holds        *)

\* What a shard is to the stream: its window, and its file's size and block,
\* whether the file is there, and whether calls for it may fail: opens and
\* allocations, submit, reap, and reads.
ShardType ==
  [offset : Nat, length : Nat, size : Nat, block : Nat \ {0}, exists : BOOLEAN,
   faulty : BOOLEAN]
OptionsType ==
  [batch_bytes : Nat \ {0}, read_depth : Nat \ {0}, segment_bytes : Nat]

ASSUME ShardListsAssumption == ShardLists \subseteq Seq(ShardType)
ASSUME OptionsAssumption == Options \subseteq OptionsType
ASSUME SegmentAssumption == SegmentCap \in Nat
ASSUME FlagsAssumption == ResetWaits \in BOOLEAN /\ ShortReads \in BOOLEAN

VARIABLES
  shards, options,            (* the constructor's arguments, fixed          *)
  next, open,                 (* the shard being read, and whether it is open*)
  window_end, next_offset,    (* its window's end, and the next byte to ask  *)
  block, segment,             (* the geometry the buffers were prepared for  *)
  free,                       (* free[s]: slot s may be taken                *)
  pending,                    (* the segment reads of this shard, in order   *)
  requests, start_offset,     (* the locals of fill_pipeline                 *)
  carry,                      (* bytes read that did not fit the last batch  *)
  filled, lastRet,            (* bytes put in this batch; last read()'s value*)
  pc,                         (* where the thread is in read()               *)
  gen,                        (* generation of buffers_; older ones are freed*)
  mem,                        (* what the slots' buffers hold                *)
  flight, cq,                 (* the backend: reads in flight, completions   *)
  ring,                       (* those in flight that the kernel has not     *)
                              (* taken                                       *)
  orphans,                    (* reads a destroyed backend left to the kernel*)
  out                         (* history: the extents copied into batches    *)

inputs == <<shards, options>>
shardVars == <<next, open, window_end, next_offset>>
bufferVars == <<block, segment, gen>>
slotVars == <<free, pending, requests, start_offset>>
batchVars == <<carry, filled, lastRet, out>>
deviceVars == <<mem, flight, ring, cq, orphans>>
vars == <<inputs, shardVars, bufferVars, slotVars, batchVars, deviceVars, pc>>

read_depth == options.read_depth
Slots == 0 .. read_depth - 1
Min2(a, b) == IF a < b THEN a ELSE b
Max2(a, b) == IF a < b THEN b ELSE a
NoBytes == [sh |-> 0, at |-> 0, n |-> 0]

\* The first n bytes of extent e, and what follows them.
Prefix(e, n) == [e EXCEPT !.n = n]
\* Mutant: the rest is copied from the start of the buffer again.
RestFromStart(e, n) == [e EXCEPT !.n = e.n - n]
Rest(e, n) == [sh |-> e.sh, at |-> e.at + n, n |-> e.n - n]
Copied(seq, e) == IF e.n = 0 THEN seq ELSE Append(seq, e)

Init ==
  /\ shards \in ShardLists /\ options \in Options
  /\ next = 1 /\ open = FALSE
  /\ window_end = 0 /\ next_offset = 0
  /\ block = 0 /\ segment = 0 /\ gen = 0
  /\ free = [s \in Slots |-> FALSE]
  /\ pending = <<>> /\ requests = <<>> /\ start_offset = 0
  /\ carry = NoBytes /\ filled = 0 /\ lastRet = options.batch_bytes /\ out = <<>>
  /\ mem = [s \in Slots |-> NoBytes]
  /\ flight = {} /\ ring = {} /\ cq = {} /\ orphans = {}
  /\ pc = "idle"

-----------------------------------------------------------------------------
(* read(): the carried bytes first, then segment after segment.            *)

\* flush_carry
Read ==
  /\ pc = "idle"
  /\ LET take == Min2(carry.n, options.batch_bytes)
     IN  /\ out' = Copied(out, Prefix(carry, take))
         /\ carry' = Rest(carry, take)
         /\ filled' = take
  /\ pc' = "loop"
  /\ UNCHANGED <<inputs, shardVars, bufferVars, slotVars, lastRet, deviceVars>>

BatchFull == filled = options.batch_bytes

\* Mutant: a batch does not span shards.
StreamDoneAtShardEnd == ~open /\ (next > Len(shards) \/ filled > 0)
StreamDone == ~open /\ next > Len(shards)

\* A read of no bytes is the end of the stream, and the producer's last.
ReadReturns ==
  /\ pc = "loop"
  /\ BatchFull \/ StreamDone
  /\ lastRet' = filled
  /\ pc' = IF filled = 0 THEN "end" ELSE "idle"
  /\ UNCHANGED <<inputs, shardVars, bufferVars, slotVars, carry, filled, out,
                 deviceVars>>

-----------------------------------------------------------------------------
(* open_shard and prepare_buffers.                                          *)

SegmentFor(blk) ==
  LET target == IF options.segment_bytes # 0
                  THEN options.segment_bytes
                  ELSE Min2(Max2(blk, options.batch_bytes), SegmentCap)
  IN  target - (target % blk)

MustOpen == pc = "loop" /\ ~BatchFull /\ ~open /\ next <= Len(shards)

\* Buffers of the right geometry are kept, with whatever free_ says of them.
PrepareBuffers(blk, seg) ==
  IF gen > 0 /\ block = blk /\ segment = seg
    THEN UNCHANGED <<bufferVars, free, mem>>
    ELSE /\ block' = blk /\ segment' = seg
         /\ gen' = gen + 1
         /\ free' = [s \in Slots |-> TRUE]
         /\ mem' = [s \in Slots |-> NoBytes]

OpenShard ==
  /\ MustOpen
  /\ LET shard == shards[next]
     IN  /\ shard.exists
         /\ PrepareBuffers(shard.block, SegmentFor(shard.block))
         /\ window_end' = shard.offset + shard.length
         /\ next_offset' = shard.offset
  /\ open' = TRUE
  /\ UNCHANGED <<inputs, next, pending, requests, start_offset, batchVars,
                 flight, ring, cq, orphans, pc>>

\* What an allocation of no bytes does is up to the allocator.
AllocatesNothing ==
  /\ SegmentFor(shards[next].block) = 0
  /\ ~(gen > 0 /\ block = shards[next].block /\ segment = 0)

\* File::open or the first allocation fails: nothing has changed.
OpenFails ==
  /\ MustOpen
  /\ shards[next].faulty \/ ~shards[next].exists \/ AllocatesNothing
  /\ pc' = "failed"
  /\ UNCHANGED <<inputs, shardVars, bufferVars, slotVars, batchVars, deviceVars>>

\* open_backend fails, after the buffers were replaced.
OpenBackendFails ==
  /\ MustOpen
  /\ LET shard == shards[next]
     IN  /\ shard.exists /\ shard.faulty
         /\ PrepareBuffers(shard.block, SegmentFor(shard.block))
  /\ pc' = "failed"
  /\ UNCHANGED <<inputs, shardVars, pending, requests, start_offset, batchVars,
                 flight, ring, cq, orphans>>

-----------------------------------------------------------------------------
(* fill_pipeline.                                                           *)

BeginFill ==
  /\ pc = "loop" /\ ~BatchFull /\ open
  /\ requests' = <<>>
  /\ start_offset' = next_offset
  /\ pc' = "fill"
  /\ UNCHANGED <<inputs, shardVars, bufferVars, free, pending, batchVars,
                 deviceVars>>

\* take_free: the lowest slot that is free.
TakesSlot(s) == free[s] /\ \A t \in Slots : t < s => ~free[t]

\* Every request of this call counts twice, in pending_ and in requests.
FillMore ==
  /\ Len(pending) + Len(requests) < read_depth
  /\ next_offset < window_end
  /\ \E s \in Slots : free[s]

\* Mutant: the tail is asked for to the byte.
RequestLengthUnrounded(remaining) == Min2(segment, remaining)
RequestLength(remaining) ==
  LET length == Min2(segment, remaining)
      whole == length - (length % block)
  IN  IF whole = 0 THEN block ELSE whole

FillOne(s) ==
  /\ pc = "fill"
  /\ FillMore
  /\ TakesSlot(s)
  /\ RequestLength(window_end - next_offset) <= segment
  /\ LET remaining == window_end - next_offset
         length == RequestLength(remaining)
     IN  /\ requests' = Append(requests,
                          [slot |-> s, offset |-> next_offset, length |-> length])
         /\ pending' = Append(pending,
                          [slot |-> s, offset |-> next_offset, bytes |-> 0, done |-> FALSE])
         /\ next_offset' = next_offset + Min2(length, remaining)
  /\ free' = [free EXCEPT ![s] = FALSE]
  /\ UNCHANGED <<inputs, next, open, window_end, bufferVars, start_offset,
                 batchVars, deviceVars, pc>>

\* span().first(length) with more bytes than the buffer has is undefined: there
\* the model stops.
Overrun ==
  /\ pc = "fill"
  /\ FillMore
  /\ RequestLength(window_end - next_offset) > segment
  /\ pc' = "overrun"
  /\ UNCHANGED <<inputs, shardVars, bufferVars, slotVars, batchVars, deviceVars>>

\* The requests as the backend sees them: which file, which buffers.
InFlight(r) ==
  [sh |-> next, gen |-> gen, slot |-> r.slot, offset |-> r.offset, length |-> r.length]

QueueFull == Cardinality(flight \cup cq) + Len(requests) > read_depth

Requested == {InFlight(requests[i]) : i \in DOMAIN requests}

SubmitLeaving(submitted, left) ==
  /\ pc = "fill" /\ ~FillMore
  /\ requests # <<>>
  /\ ~QueueFull
  /\ flight' = flight \cup submitted
  /\ ring' = left
  /\ pc' = "await"
  /\ UNCHANGED <<inputs, shardVars, bufferVars, slotVars, batchVars, mem, cq,
                 orphans>>

\* Mutant: the first request stands for all.
SubmitFirst == SubmitLeaving({InFlight(requests[1])}, {})
Submit == SubmitLeaving(Requested, {})

\* io_uring_submit takes only the first of the entries in the ring; the stream
\* is told that all is well.
SubmitPart ==
  /\ pc = "fill"
  /\ ~ResetWaits /\ shards[next].faulty
  /\ \E r \in ring \cup Requested :
       SubmitLeaving(Requested, {q \in ring \cup Requested : q.offset >= r.offset})

\* The last Len(requests) entries of pending_ are undone.
SubmitFails ==
  /\ pc = "fill" /\ ~FillMore
  /\ requests # <<>>
  /\ shards[next].faulty \/ QueueFull
  /\ free' = [s \in Slots |-> free[s] \/ \E i \in DOMAIN requests : requests[i].slot = s]
  /\ pending' = SubSeq(pending, 1, Len(pending) - Len(requests))
  /\ next_offset' = start_offset
  /\ pc' = "failed"
  /\ UNCHANGED <<inputs, next, open, window_end, bufferVars, requests,
                 start_offset, batchVars, deviceVars>>

\* No pending entry left means, to the code, that the shard is exhausted.
NothingToSubmit ==
  /\ pc = "fill" /\ ~FillMore
  /\ requests = <<>>
  /\ pc' = IF pending = <<>> THEN "close" ELSE "await"
  /\ UNCHANGED <<inputs, shardVars, bufferVars, slotVars, batchVars, deviceVars>>

-----------------------------------------------------------------------------
(* await_front, and what read() does with the finished front entry.         *)

AwaitsFront == pc = "await" /\ ~pending[1].done

\* pending_'s entries with the completion's token; reap takes the first.
EntriesOf(token) == {i \in DOMAIN pending : pending[i].slot = token}

\* The window trims what the whole-block read of its tail brought in.
Finish(entry, c) ==
  [slot |-> entry.slot, offset |-> entry.offset,
   bytes |-> Min2(c.bytes, window_end - entry.offset), done |-> TRUE]

Reap(c) ==
  /\ AwaitsFront
  /\ c \in cq
  /\ cq' = cq \ {c}
  /\ \/ /\ c.error \/ EntriesOf(c.token) = {}
        /\ pc' = "failed"
        /\ UNCHANGED pending
     \/ /\ ~c.error
        /\ \E i \in EntriesOf(c.token) :
             /\ \A j \in EntriesOf(c.token) : i <= j
             /\ pending' = [pending EXCEPT ![i] = Finish(pending[i], c)]
        /\ UNCHANGED pc
  /\ UNCHANGED <<inputs, shardVars, bufferVars, free, requests, start_offset,
                 batchVars, mem, flight, ring, orphans>>

\* reap fails, or returns 0 because nothing is in flight.
ReapFails ==
  /\ AwaitsFront
  /\ shards[next].faulty \/ flight \cup cq = {}
  /\ pc' = "failed"
  /\ UNCHANGED <<inputs, shardVars, bufferVars, slotVars, batchVars, deviceVars>>

\* Mutant: the batch's room is not respected.
TakeLengthUnbounded(entry) == entry.bytes
TakeLength(entry) == Min2(options.batch_bytes - filled, entry.bytes)

\* Mutant: the slot of a segment that was read is not given back.
ReleasedNever(slot) == free
Released(slot) == [free EXCEPT ![slot] = TRUE]

\* With bytes left over the batch is full, so the break is the loop's end.
TakeFront ==
  /\ pc = "await" /\ pending[1].done
  /\ LET entry == pending[1]
         take == TakeLength(entry)
         bytes == Prefix(mem[entry.slot], entry.bytes)
     IN  /\ out' = Copied(out, Prefix(bytes, take))
         /\ filled' = filled + take
         /\ carry' = IF entry.bytes > take THEN Rest(bytes, take) ELSE carry
         /\ free' = Released(entry.slot)
         /\ pc' = IF entry.bytes = 0 THEN "close" ELSE "loop"
  /\ pending' = Tail(pending)
  /\ UNCHANGED <<inputs, shardVars, bufferVars, requests, start_offset, lastRet,
                 deviceVars>>

\* A pool's destructor waits for the reads in flight.
\* Mutant: it does not.
ResetAtOnce == TRUE
ResetDone == ResetWaits => flight = {}

\* close_shard leaves slots `freed' free and goes on with shard `successor'.
CloseWith(successor, freed) ==
  /\ pc = "close"
  /\ ResetDone
  /\ orphans' = orphans \cup (flight \ ring)
  /\ flight' = {} /\ ring' = {} /\ cq' = {}
  /\ pending' = <<>>
  /\ open' = FALSE
  /\ next' = successor
  /\ free' = freed
  /\ pc' = "loop"
  /\ UNCHANGED <<inputs, window_end, next_offset, bufferVars, requests,
                 start_offset, batchVars, mem>>

\* Mutants: the shard is not left behind; the pending slots are released.
CloseShardSame == CloseWith(next, free)
CloseShardReleasesAll == CloseWith(next + 1, [s \in Slots |-> TRUE])

\* backend_.reset() with reads in flight; their slots are not released.
CloseShard == CloseWith(next + 1, free)

-----------------------------------------------------------------------------
(* The destructor: the members in reverse order, buffers_ before backend_.  *)

DestroyBuffers ==
  /\ pc \in {"idle", "end", "failed"}
  /\ gen' = gen + 1
  /\ pc' = "destroying"
  /\ UNCHANGED <<inputs, shardVars, block, segment, slotVars, batchVars,
                 deviceVars>>

DestroyBackend ==
  /\ pc = "destroying"
  /\ ResetDone
  /\ orphans' = orphans \cup (flight \ ring)
  /\ flight' = {} /\ ring' = {} /\ cq' = {}
  /\ pc' = "destroyed"
  /\ UNCHANGED <<inputs, shardVars, bufferVars, slotVars, batchVars, mem>>

-----------------------------------------------------------------------------
(* The device.                                                              *)

\* What the file has for a read; O_DIRECT refuses a misaligned one.
Available(r) == Max2(0, Min2(r.length, shards[r.sh].size - r.offset))
Misaligned(r) == r.offset % shards[r.sh].block # 0

Outcomes(r) ==
  LET full == Available(r)
      counts == IF ShortReads THEN Min2(1, full) .. full ELSE {full}
  IN  (IF Misaligned(r) THEN {} ELSE [bytes : counts, error : {FALSE}])
        \cup (IF Misaligned(r) \/ shards[r.sh].faulty THEN {[bytes |-> 0, error |-> TRUE]} ELSE {})

Writes(r, n) ==
  mem' = IF r.gen = gen
           THEN [mem EXCEPT ![r.slot] = [sh |-> r.sh, at |-> r.offset, n |-> n]]
           ELSE mem

Complete(r) ==
  /\ r \in flight \ ring
  /\ flight' = flight \ {r}
  /\ \E o \in Outcomes(r) :
       /\ Writes(r, o.bytes)
       /\ cq' = cq \cup {[token |-> r.slot, bytes |-> o.bytes, error |-> o.error]}
  /\ UNCHANGED <<inputs, shardVars, bufferVars, slotVars, batchVars, ring, orphans, pc>>

CompleteOrphan(r) ==
  /\ r \in orphans
  /\ orphans' = orphans \ {r}
  /\ \E o \in Outcomes(r) : Writes(r, o.bytes)
  /\ UNCHANGED <<inputs, shardVars, bufferVars, slotVars, batchVars, flight, ring,
                 cq, pc>>

-----------------------------------------------------------------------------
Device ==
  \/ \E r \in flight \ ring : Complete(r)
  \/ \E r \in orphans : CompleteOrphan(r)

Reader ==
  \/ Read \/ ReadReturns
  \/ OpenShard \/ OpenFails \/ OpenBackendFails
  \/ BeginFill \/ (\E s \in Slots : FillOne(s)) \/ Overrun
  \/ Submit \/ SubmitPart \/ SubmitFails \/ NothingToSubmit
  \/ (\E c \in cq : Reap(c)) \/ ReapFails \/ TakeFront \/ CloseShard

Destructor == DestroyBuffers \/ DestroyBackend

Finished == pc \in {"destroyed", "overrun"} /\ UNCHANGED vars

Next == Reader \/ Destructor \/ Device \/ Finished

Spec == Init /\ [][Next]_vars

-----------------------------------------------------------------------------
ExtentType == [sh : Nat, at : Nat, n : Nat]
PendingType == [slot : Slots, offset : Nat, bytes : Nat, done : BOOLEAN]
RequestType == [slot : Slots, offset : Nat, length : Nat]
CompletionType == [token : Slots, bytes : Nat, error : BOOLEAN]
FlightType ==
  [sh : Nat, gen : Nat, slot : Slots, offset : Nat, length : Nat]

(* Every variable keeps its type: entries name slots that exist, offsets   *)
(* and counts never go below zero (std::size_t arithmetic never wraps).    *)
TypeOK ==
  /\ shards \in ShardLists /\ options \in Options
  /\ next \in 1 .. Len(shards) + 1 /\ open \in BOOLEAN
  /\ window_end \in Nat /\ next_offset \in Nat
  /\ block \in Nat /\ segment \in Nat /\ gen \in Nat
  /\ free \in [Slots -> BOOLEAN]
  /\ pending \in Seq(PendingType)
  /\ requests \in Seq(RequestType) /\ start_offset \in Nat
  /\ carry \in ExtentType
  /\ filled \in 0 .. options.batch_bytes /\ lastRet \in 0 .. options.batch_bytes
  /\ pc \in {"idle", "loop", "fill", "await", "close", "end", "failed",
             "destroying", "destroyed", "overrun"}
  /\ mem \in [Slots -> ExtentType]
  /\ flight \subseteq FlightType /\ ring \subseteq flight
  /\ orphans \subseteq FlightType
  /\ cq \subseteq CompletionType
  /\ out \in Seq(ExtentType)

(* No read that may still write (in flight, or orphaned by close_shard)    *)
(* targets a buffer the stream may hand out again or has yet to copy from: *)
(* its slot is neither free nor that of a finished entry, and no two reads *)
(* share a slot.                                                           *)
SlotsExclusive ==
  /\ \A i, j \in DOMAIN pending : pending[i].slot = pending[j].slot => i = j
  /\ \A i \in DOMAIN pending : ~free[pending[i].slot]
  /\ \A r \in flight \cup orphans : r.gen = gen =>
       /\ ~free[r.slot]
       /\ \A i \in DOMAIN pending : pending[i].done => pending[i].slot # r.slot
       /\ \A q \in flight \cup orphans : q.gen = gen /\ q.slot = r.slot => q = r

(* While the stream waits for its oldest segment, the backend holds the    *)
(* read of every unfinished entry and nothing else, whatever the kernel    *)
(* left in the ring: reap cannot return 0, no completion is for an unknown *)
(* request and submit is never full.                                       *)
BackendAgrees ==
  /\ AwaitsFront =>
       {pending[i].slot : i \in {j \in DOMAIN pending : ~pending[j].done}}
         = {r.slot : r \in flight} \cup {c.token : c \in cq}
  /\ pc = "fill" => ~QueueFull

(* fill_pipeline always has a slot to work with unless entries are pending,*)
(* so "no pending entry" really means "the shard is exhausted" even though *)
(* close_shard does not give the slots of unread segments back.            *)
NeverStarved == open /\ pending = <<>> => \E s \in Slots : free[s]

(* The requests of a shard whose window starts on a block boundary are     *)
(* whole blocks at block boundaries and fit their buffer, up to and        *)
(* including the tail (the O_DIRECT rounding in fill_pipeline); one that   *)
(* does not fit is met only with buffers of no bytes, where segment_bytes  *)
(* or the default segment is less than a block.                            *)
RequestsAligned ==
  /\ \A i \in DOMAIN requests : pc = "fill" =>
       /\ requests[i].length \in 1 .. segment
       /\ requests[i].length % block = 0
       /\ shards[next].offset % block = 0 => requests[i].offset % block = 0
  /\ pc = "overrun" => segment = 0

Stream == INSTANCE ByteStream WITH ended <- lastRet = 0

(* What read() copies out is the continuous byte stream of the shard set,  *)
(* and it returns 0 only at its end.                                       *)
DeliversStream == Stream!Spec

(* "Only the last batch is short": after a read() that did not fill its    *)
(* batch no byte is delivered any more.                                    *)
OnlyLastShort == [][lastRet < options.batch_bytes => out' = out]_vars

\* A file is missing, calls for it may fail, its window starts inside a block, or
\* its block is larger than a segment.
Disturbed ==
  \E k \in DOMAIN shards :
    \/ ~shards[k].exists \/ shards[k].faulty
    \/ shards[k].offset % shards[k].block # 0
    \/ SegmentFor(shards[k].block) = 0

(* read() fails only when something outside it did: it never asks for what  *)
(* O_DIRECT or a full queue refuses, never waits for a completion that does *)
(* not come, and never meets one it cannot place (await_front's own two     *)
(* errors), whatever comes back short or was left behind by other shards.   *)
NeverFailsAlone == pc = "failed" => Disturbed

(* "The descriptor and every request's buffer must outlive the requests"   *)
(* (include/dsio/backend.hpp).                                             *)
BuffersOutliveRequests == \A r \in flight : r.gen = gen

(* The same until the destructor: with a backend whose reset waits,        *)
(* prepare_buffers frees the buffers of one shard for those of the next    *)
(* only when no read can write to them any more.                           *)
BuffersKept ==
  ResetWaits /\ pc \notin {"destroying", "destroyed"} =>
    \A r \in flight \cup orphans : r.gen = gen

(* "The pipeline emits every byte exactly once in order" (docs/roadmap.md):*)
(* within a shard each extent starts where the one before it stopped.      *)
NoGap ==
  \A i \in 1 .. Len(out) - 1 :
    out[i].sh = out[i + 1].sh => out[i].at + out[i].n = out[i + 1].at
=============================================================================
