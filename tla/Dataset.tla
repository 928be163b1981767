------------------------------ MODULE Dataset ------------------------------
(***************************************************************************)
(* dsio::for_each_batch on a real ShardStream (src/dataset.cpp): the two   *)
(* threads of ForEachBatch, whose `stream.read' is not one step here but   *)
(* the steps of ShardStream, with the device finishing reads meanwhile and *)
(* the stream destroyed when the call returns.                             *)
(*                                                                         *)
(* The variables are those of both modules, under their names there; the   *)
(* stream's free_ is called slots.  Exceptions out of stream.read are left *)
(* to ForEachBatch; calls that need not return are left to ShardStream:    *)
(* those with a segment below a block, and submissions io_uring takes only *)
(* in part, whose reads may never finish.                                  *)
(***************************************************************************)
EXTENDS Integers, Sequences

CONSTANTS
  ShardLists,   (* the shard sets, in stream order, a call may be given     *)
  Options,      (* the valid BatchOptions it may be given, and              *)
  SegmentSizes, (* their segment_bytes                                      *)
  SegmentCap,   (* the default segment's cap                                *)
  ResetWaits    (* destroying the backend waits for its reads               *)

ASSUME OptionsAssumption ==
  Options \subseteq [batch_bytes : Nat \ {0}, prefetch : Nat \ {0}, read_depth : Nat \ {0}]

ASSUME SegmentAssumption ==
  /\ SegmentSizes \subseteq Nat /\ SegmentCap \in Nat
  /\ \A list \in ShardLists, size \in SegmentSizes : \A k \in DOMAIN list :
       list[k].block <= (IF size = 0 THEN SegmentCap ELSE size)
ASSUME FlagsAssumption == ResetWaits \in BOOLEAN

VARIABLES
  segment_bytes, (* options.segment_bytes, which ForEachBatch does not know  *)
  (* ForEachBatch *)
  options, total, free, ready, freeOpen, readyOpen, content, produced, ppc,
  pbuf, cpc, cbuf, keep_going, error, result, seen,
  (* ShardStream *)
  shards, next, open, window_end, next_offset, block, segment, slots, pending,
  requests, start_offset, carry, filled, lastRet, pc, gen, mem, flight, ring,
  cq, orphans, out,
  cuts           (* history: cuts[k] extents of `out' make up batches 1 to k *)

pipelineVars == <<total, free, ready, freeOpen, readyOpen, content,
                  produced, ppc, pbuf, cpc, cbuf, keep_going, error, result, seen>>
streamVars == <<shards, next, open, window_end, next_offset, block, segment,
                slots, pending, requests, start_offset, carry, filled, lastRet,
                pc, gen, mem, flight, ring, cq, orphans, out>>
fixed == <<options, segment_bytes>>
vars == <<fixed, pipelineVars, streamVars, cuts>>

StreamOptions(o, size) ==
  [batch_bytes |-> o.batch_bytes, read_depth |-> o.read_depth,
   segment_bytes |-> size]

P == INSTANCE ForEachBatch WITH Totals <- Nat, ReadMayThrow <- FALSE

S == INSTANCE ShardStream WITH
       options <- StreamOptions(options, segment_bytes),
       Options <- {StreamOptions(o, size) : o \in Options, size \in SegmentSizes},
       free <- slots,
       ShortReads <- FALSE

ASSUME ShardListsAssumption == ShardLists \subseteq Seq(S!ShardType)

-----------------------------------------------------------------------------
(* The reference: the bytes of the shard set, <<shard, offset>> each, in    *)
(* stream order, as far as the files hold them.                             *)

ExtentBytes(e) == [i \in 1 .. e.n |-> <<e.sh, e.at + i - 1>>]
BytesOf(extents) ==
  LET bytes[n \in 0 .. Len(extents)] ==
        IF n = 0 THEN <<>> ELSE bytes[n - 1] \o ExtentBytes(extents[n])
  IN  bytes[Len(extents)]

Window(k) ==
  LET held == S!Min2(shards[k].offset + shards[k].length, shards[k].size)
  IN  [sh |-> k, at |-> shards[k].offset, n |-> S!Max2(0, held - shards[k].offset)]
SetBytes == BytesOf([k \in DOMAIN shards |-> Window(k)])

CeilDiv(a, b) == (a + b - 1) \div b

Init ==
  /\ options \in Options /\ segment_bytes \in SegmentSizes
  /\ shards \in ShardLists
  /\ total = CeilDiv(Len(SetBytes), options.batch_bytes)
  /\ P!Init
  /\ S!Init
  /\ cuts = <<>>

-----------------------------------------------------------------------------
(* The producer task; a read is many steps, with the device in between.    *)

BetweenReads ==
  /\ \/ P!PRecv \/ P!PRecvClosed
     \/ P!PSetError \/ P!PClose
     \/ P!PSend \/ P!PSendClosed
  /\ UNCHANGED <<segment_bytes, streamVars, cuts>>

InRead ==
  /\ ppc = "read"
  /\ UNCHANGED <<fixed, pipelineVars, cuts>>
  /\ \/ S!Read
     \/ S!OpenShard \/ S!OpenFails \/ S!OpenBackendFails
     \/ S!BeginFill \/ (\E s \in S!Slots : S!FillOne(s))
     \/ S!Submit \/ S!SubmitFails \/ S!NothingToSubmit
     \/ (\E c \in cq : S!Reap(c)) \/ S!ReapFails
     \/ S!TakeFront \/ S!CloseShard

\* Mutant: a batch that is not full is taken for the end.
GotShort(n) == n < options.batch_bytes
GotNothing(n) == n = 0

ReadOk ==
  /\ ppc = "read"
  /\ ~GotNothing(filled)
  /\ UNCHANGED fixed
  /\ S!ReadReturns
  /\ cuts' = Append(cuts, Len(out))
  /\ produced' = produced + 1
  /\ content' = [content EXCEPT ![pbuf] = produced + 1]
  /\ ppc' = "send"
  /\ UNCHANGED <<total, free, ready, freeOpen, readyOpen, pbuf, cpc, cbuf,
                 keep_going, error, result, seen>>

\* Mutant: the end of the stream is taken for a failed read.
ReadEndFails ==
  /\ ppc = "read"
  /\ GotNothing(filled)
  /\ UNCHANGED fixed
  /\ S!ReadReturns
  /\ ppc' = "fail"
  /\ UNCHANGED <<total, free, ready, freeOpen, readyOpen, content, produced,
                 pbuf, cpc, cbuf, keep_going, error, result, seen, cuts>>

ReadEnd ==
  /\ ppc = "read"
  /\ GotNothing(filled)
  /\ UNCHANGED fixed
  /\ S!ReadReturns
  /\ ppc' = "close"
  /\ UNCHANGED <<total, free, ready, freeOpen, readyOpen, content, produced,
                 pbuf, cpc, cbuf, keep_going, error, result, seen, cuts>>

\* Mutant: `ready' is closed, but no error is set.
ReadFailsSilently ==
  /\ pc = "failed"
  /\ P!PReadFailsSilently
  /\ UNCHANGED <<segment_bytes, streamVars, cuts>>

ReadFails ==
  /\ pc = "failed"
  /\ P!PReadFails
  /\ UNCHANGED <<segment_bytes, streamVars, cuts>>

Producer == BetweenReads \/ InRead \/ ReadOk \/ ReadEnd \/ ReadFails

-----------------------------------------------------------------------------
(* The calling thread.  Its locals go in reverse order: the pool, which     *)
(* joins the producer, and then the stream.                                 *)

DestroyStream ==
  /\ cpc = "join"
  /\ ppc = "done"
  /\ UNCHANGED <<fixed, pipelineVars, cuts>>
  /\ S!Destructor

\* The call has returned when the stream, too, is gone.
Caller ==
  /\ cpc = "join" => pc = "destroyed"
  /\ P!Consumer
  /\ UNCHANGED <<segment_bytes, streamVars, cuts>>

Device == UNCHANGED <<fixed, pipelineVars, cuts>> /\ S!Device

Finished == P!Returned /\ UNCHANGED vars

Next == Producer \/ DestroyStream \/ Caller \/ Device \/ Finished

Spec == Init /\ [][Next]_vars

\* Both threads are scheduled, the callback returns, and the device finishes
\* what was submitted.
FairSpec ==
  /\ Spec
  /\ WF_vars(Producer) /\ WF_vars(DestroyStream \/ Caller) /\ WF_vars(Device)

-----------------------------------------------------------------------------
(* To the pipeline the stream is what ForEachBatch takes it for: so many    *)
(* batches as the bytes of the set fill, then the end, or a failure; and a  *)
(* read that was begun returns: no endless loop over shards, no wait for a  *)
(* completion that never comes, also when the caller has stopped.           *)
ImplementsPipeline == P!FairSpec

BatchBytes(k) ==
  IF k = P!Dirty THEN <<>>
  ELSE BytesOf(SubSeq(out, IF k = 1 THEN 1 ELSE cuts[k - 1] + 1, cuts[k]))

(* The i-th call of the callback gets the bytes of the set from            *)
(* (i - 1) * batch_bytes on, batch_bytes of them unless the set ends       *)
(* before, whatever the shards, segments, prefetch and read depth are; and *)
(* a call that returns ok without having been stopped has given it all.    *)
CallbackGetsTheSet ==
  /\ \A i \in DOMAIN seen :
       LET from == (i - 1) * options.batch_bytes
       IN  /\ BatchBytes(seen[i]) =
                SubSeq(SetBytes, from + 1, S!Min2(from + options.batch_bytes, Len(SetBytes)))
           /\ from < Len(SetBytes)
  /\ P!Returned /\ result = "ok" /\ keep_going =>
       Len(seen) * options.batch_bytes >= Len(SetBytes)

(* for_each_batch returns an error only if a file was missing, a window     *)
(* began inside a block or a call failed; otherwise it returns ok, or       *)
(* rethrows what the callback threw.                                        *)
ErrorsHaveCause ==
  error \/ (P!Returned /\ result \notin {"ok", "throw"}) => S!Disturbed

(* How far the stream runs ahead of the callback: the bytes of the set that *)
(* were read or asked for and that no callback got yet are never more than  *)
(* (prefetch + 1) batches and read_depth segments, however slow the         *)
(* callback is and however fast the device.  These are bytes of the set,    *)
(* not of memory: the vector carry_ and a change of buffers need more.      *)
ReadAheadBounded ==
  Len(BytesOf(out)) + carry.n + Len(pending) * segment
    <= Len(seen) * options.batch_bytes
         + (options.prefetch + 1) * options.batch_bytes
         + options.read_depth * segment

(* Nor do reads outlive their buffers while both threads run and shards of  *)
(* different geometry follow each other (ShardStream's BuffersKept).        *)
BuffersKept == S!BuffersKept
=============================================================================
