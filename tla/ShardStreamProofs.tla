------------------------- MODULE ShardStreamProofs -------------------------
(***************************************************************************)
(* Proofs about ShardStream for every shard list, every read depth and     *)
(* every geometry: it is well typed, fill_pipeline never runs out of slots *)
(* with nothing pending, and no read that may still write, not even one    *)
(* that a destroyed backend left to the kernel, targets a buffer in use.   *)
(* From there: the backend holds what the stream waits for and has room,   *)
(* requests are whole blocks, and buffers outlive the reads of a backend   *)
(* whose teardown waits.  And about the bytes it delivers: it implements   *)
(* ByteStream, as long as no read returns less than its file holds, and    *)
(* only the last batch is short, however the segment reads overtake each   *)
(* other, whatever slots are reused, and wherever the stream is left.      *)
(***************************************************************************)
EXTENDS ShardStream, SequenceTheorems, FiniteSetTheorems, TLAPS

\* buffers_ has not been destroyed.
Alive == pc \notin {"destroying", "destroyed"}

HasSlot == \E s \in Slots : free[s]

\* The reads that may still write to a buffer of buffers_.
Writers == {r \in flight \cup orphans : r.gen = gen}

\* What the places in read() imply, and where the reads come from.
Places ==
  /\ open => next <= Len(shards) /\ block > 0
  /\ pc \in {"fill", "await", "close"} => open
  /\ pc = "await" => pending # <<>>
  /\ ~open => pending = <<>> /\ flight = {} /\ cq = {}
  /\ \A i \in DOMAIN pending : pending[i].offset <= window_end
  /\ \A r \in flight \cup orphans : r.sh \in 1 .. Len(shards) /\ r.gen <= gen
  /\ Alive => /\ \A r \in flight : r.gen = gen /\ r.sh = next
              /\ \A r \in orphans : r.sh < next
  /\ flight \cap orphans = {}

\* close_shard drops entries with their slots, but one slot stays free.
Supplied ==
  /\ NeverStarved
  /\ pc = "close" => HasSlot
  /\ ~open /\ gen > 0 /\ Alive => HasSlot

\* The last entries of pending_ are those of `requests', and nothing writes
\* to their slots yet.
Filling ==
  pc = "fill" =>
    /\ Len(requests) <= Len(pending)
    /\ \A i \in DOMAIN requests :
         /\ pending[Len(pending) - Len(requests) + i].slot = requests[i].slot
         /\ ~pending[Len(pending) - Len(requests) + i].done
         /\ \A r \in Writers : r.slot # requests[i].slot
         /\ \A c \in cq : c.token # requests[i].slot

\* A completion not yet reaped keeps its slot.
Completed ==
  Alive => \A c \in cq :
    /\ ~free[c.token]
    /\ \A r \in Writers : r.slot # c.token
    /\ \A i \in DOMAIN pending : pending[i].done => pending[i].slot # c.token
    /\ \A d \in cq : d.token = c.token => d = c

\* A submission, whatever it leaves in the ring.
Submits ==
  /\ pc = "fill" /\ pc' = "await"
  /\ requests # <<>> /\ ~FillMore /\ ~QueueFull
  /\ flight' = flight \cup {InFlight(requests[i]) : i \in DOMAIN requests}
  /\ UNCHANGED <<inputs, shardVars, bufferVars, slotVars, batchVars, mem, cq, orphans>>

IInv ==
  TypeOK /\ Places /\ Supplied /\ SlotsExclusive /\ Filling /\ Completed

-----------------------------------------------------------------------------
(* Type correctness.                                                        *)

(* The arguments of the stream are numbers, blocks are not empty.          *)
LEMMA InputFacts ==
  ASSUME TypeOK
  PROVE  /\ options.read_depth \in Nat \ {0} /\ options.batch_bytes \in Nat \ {0}
         /\ options.segment_bytes \in Nat /\ SegmentCap \in Nat
         /\ Len(shards) \in Nat /\ DOMAIN shards = 1 .. Len(shards)
         /\ \A k \in 1 .. Len(shards) :
              /\ shards[k].offset \in Nat /\ shards[k].length \in Nat
              /\ shards[k].size \in Nat /\ shards[k].block \in Nat \ {0}
<1>1. options \in OptionsType /\ shards \in Seq(ShardType)
  BY OptionsAssumption, ShardListsAssumption DEF TypeOK
<1>2. \A k \in 1 .. Len(shards) : shards[k] \in ShardType
  BY <1>1, LenProperties
<1> QED
  BY <1>1, <1>2, SegmentAssumption, LenProperties DEF OptionsType, ShardType

(* A submission puts every request in flight; the ring holds some of those. *)
LEMMA SubmitFacts ==
  ASSUME Submit \/ SubmitPart
  PROVE  Submits /\ (ring \subseteq flight => ring' \subseteq flight')
<1>1. CASE Submit
  BY <1>1 DEF Submit, SubmitLeaving, Submits, Requested
<1>2. CASE SubmitPart
  <2>1. PICK r \in ring \cup Requested :
          SubmitLeaving(Requested, {q \in ring \cup Requested : q.offset >= r.offset})
    BY <1>2 DEF SubmitPart
  <2>2. flight' = flight \cup Requested /\ ring' \subseteq ring \cup Requested
    BY <2>1 DEF SubmitLeaving
  <2> QED
    BY <2>1, <2>2 DEF SubmitLeaving, Submits, Requested
<1> QED
  BY <1>1, <1>2

(* The constructor's arguments never change.                               *)
LEMMA InputsFixed ==
  ASSUME [Next]_vars
  PROVE  shards' = shards /\ options' = options /\ Slots' = Slots
<1>1. shards' = shards /\ options' = options
  BY SubmitFacts DEF Next, Reader, Destructor, Device, Finished, vars, inputs, Read,
     ReadReturns, OpenShard, OpenFails, Overrun, OpenBackendFails, BeginFill, FillOne, Submits,
     SubmitFails, NothingToSubmit, Reap, ReapFails, TakeFront, CloseShard, CloseWith,
     DestroyBuffers, DestroyBackend, Complete, CompleteOrphan
<1> QED
  BY <1>1 DEF Slots, read_depth

(* Rounding down to whole blocks never takes more than there is.           *)
LEMMA ModFacts ==
  ASSUME NEW a \in Nat, NEW b \in Nat \ {0}
  PROVE  a % b \in Nat /\ a - (a % b) \in Nat
<1>1. a % b \in 0 .. b - 1
  OBVIOUS
<1>2. CASE a >= b
  BY <1>1, <1>2
<1>3. CASE a < b
  <2>1. a % b = a
    BY <1>3
  <2> QED
    BY <2>1
<1> QED
  BY <1>2, <1>3

(* Segments and requests have a length.                                    *)
LEMMA LengthFacts ==
  ASSUME TypeOK
  PROVE  /\ \A blk \in Nat \ {0} : SegmentFor(blk) \in Nat
         /\ block > 0 => \A remaining \in Nat : RequestLength(remaining) \in Nat
<1>1. ASSUME NEW blk \in Nat \ {0} PROVE SegmentFor(blk) \in Nat
  BY InputFacts, ModFacts DEF SegmentFor, Min2, Max2
<1>2. ASSUME block > 0, NEW remaining \in Nat PROVE RequestLength(remaining) \in Nat
  <2>1. Min2(segment, remaining) \in Nat /\ block \in Nat \ {0}
    BY <1>2 DEF TypeOK, Min2
  <2> QED
    BY <2>1, ModFacts DEF RequestLength
<1> QED
  BY <1>1, <1>2

(* The initial state is well typed.                                        *)
LEMMA InitTypeOK == Init => TypeOK
<1> SUFFICES ASSUME Init PROVE TypeOK
  OBVIOUS
<1>1. options \in OptionsType /\ shards \in Seq(ShardType)
  BY OptionsAssumption, ShardListsAssumption DEF Init
<1>2. Len(shards) \in Nat /\ options.batch_bytes \in Nat
  BY <1>1, LenProperties DEF OptionsType
<1>3. carry \in ExtentType /\ mem \in [Slots -> ExtentType]
  BY DEF Init, NoBytes, ExtentType
<1>4. free \in [Slots -> BOOLEAN]
  BY DEF Init
<1>5. filled \in 0 .. options.batch_bytes /\ lastRet \in 0 .. options.batch_bytes
  BY <1>2 DEF Init
<1>6. /\ pending \in Seq(PendingType) /\ requests \in Seq(RequestType)
      /\ out \in Seq(ExtentType)
  BY DEF Init
<1>7. /\ flight \subseteq FlightType /\ orphans \subseteq FlightType
      /\ cq \subseteq CompletionType /\ ring \subseteq flight
  BY DEF Init
<1>8. next \in 1 .. Len(shards) + 1
  BY <1>2 DEF Init
<1>9. /\ window_end \in Nat /\ next_offset \in Nat /\ start_offset \in Nat
      /\ block \in Nat /\ segment \in Nat /\ gen \in Nat
  BY DEF Init
<1>10. /\ shards \in ShardLists /\ options \in Options
       /\ open \in BOOLEAN /\ pc = "idle"
  BY DEF Init
<1> QED
  BY <1>3, <1>4, <1>5, <1>6, <1>7, <1>8, <1>9, <1>10 DEF TypeOK

(* Cutting extents yields extents.                                         *)
LEMMA ExtentFacts ==
  ASSUME NEW e \in ExtentType, NEW n \in Nat
  PROVE  /\ Prefix(e, n) \in ExtentType /\ Prefix(e, n).n = n
         /\ n <= e.n => Rest(e, n) \in ExtentType
         /\ \A s \in Seq(ExtentType) : Copied(s, e) \in Seq(ExtentType)
<1>1. e.sh \in Nat /\ e.at \in Nat /\ e.n \in Nat
  BY DEF ExtentType
<1>2. Prefix(e, n) \in ExtentType /\ Prefix(e, n).n = n
  BY <1>1 DEF Prefix, ExtentType
<1>3. n <= e.n => Rest(e, n) \in ExtentType
  BY <1>1 DEF Rest, ExtentType
<1>4. \A s \in Seq(ExtentType) : Copied(s, e) \in Seq(ExtentType)
  BY AppendProperties, LenProperties DEF Copied
<1> QED
  BY <1>2, <1>3, <1>4

(* prepare_buffers leaves buffers for every slot.                          *)
LEMMA PrepareFacts ==
  ASSUME TypeOK, NEW blk \in Nat \ {0}, PrepareBuffers(blk, SegmentFor(blk)),
         Slots' = Slots
  PROVE  /\ block' = blk /\ segment' \in Nat /\ gen' \in Nat /\ gen' > 0
         /\ free' \in [Slots -> BOOLEAN] /\ mem' \in [Slots -> ExtentType]
<1>1. SegmentFor(blk) \in Nat
  BY LengthFacts
<1>2. NoBytes \in ExtentType
  BY DEF NoBytes, ExtentType
<1>3. CASE gen > 0 /\ block = blk /\ segment = SegmentFor(blk)
  BY <1>3 DEF PrepareBuffers, TypeOK, bufferVars
<1>4. CASE ~(gen > 0 /\ block = blk /\ segment = SegmentFor(blk))
  <2>1. block' = blk /\ segment' = SegmentFor(blk) /\ gen' = gen + 1
    BY <1>4 DEF PrepareBuffers
  <2>2. free' = [s \in Slots |-> TRUE] /\ mem' = [s \in Slots |-> NoBytes]
    BY <1>4 DEF PrepareBuffers
  <2>3. free' \in [Slots -> BOOLEAN]
    BY <2>2
  <2>4. mem' \in [Slots -> ExtentType]
    BY <1>2, <2>2
  <2>5. gen \in Nat
    BY DEF TypeOK
  <2> QED
    BY <1>1, <2>1, <2>3, <2>4, <2>5
<1> QED
  BY <1>3, <1>4

(* A read that finishes leaves an extent in its slot.                      *)
LEMMA WritesFacts ==
  ASSUME TypeOK, NEW r \in FlightType, r.sh \in 1 .. Len(shards),
         NEW o \in Outcomes(r), Writes(r, o.bytes)
  PROVE  /\ mem' \in [Slots -> ExtentType]
         /\ [token |-> r.slot, bytes |-> o.bytes, error |-> o.error] \in CompletionType
<1>1. /\ r.slot \in Slots /\ r.offset \in Nat /\ r.length \in Nat /\ r.sh \in Nat
      /\ shards[r.sh].size \in Nat
  BY InputFacts DEF FlightType
<1>2. Available(r) \in Nat
  BY <1>1 DEF Available, Min2, Max2
<1>3. o.bytes \in Nat /\ o.error \in BOOLEAN
  <2> DEFINE counts == IF ShortReads THEN Min2(1, Available(r)) .. Available(r)
                                     ELSE {Available(r)}
  <2>1. counts \subseteq Nat
    BY <1>2 DEF Min2
  <2>2. o \in [bytes : counts, error : {FALSE}] \/ o = [bytes |-> 0, error |-> TRUE]
    BY DEF Outcomes
  <2> HIDE DEF counts
  <2>3. CASE o \in [bytes : counts, error : {FALSE}]
    BY <2>1, <2>3
  <2>4. CASE o = [bytes |-> 0, error |-> TRUE]
    BY <2>4
  <2> QED
    BY <2>2, <2>3, <2>4
<1> QED
  BY <1>1, <1>3 DEF Writes, TypeOK, ExtentType, CompletionType

(* Every step of the reading thread, of the device and of the destructor   *)
(* keeps the variables' types.                                             *)
LEMMA NextTypeOK == TypeOK /\ Places /\ [Next]_vars => TypeOK'
<1> SUFFICES ASSUME TypeOK, Places, [Next]_vars PROVE TypeOK'
  OBVIOUS
<1>0. /\ shards' = shards /\ options' = options /\ Slots' = Slots
      /\ PendingType' = PendingType /\ RequestType' = RequestType
      /\ CompletionType' = CompletionType /\ FlightType' = FlightType
  BY InputsFixed DEF PendingType, RequestType, CompletionType, FlightType
<1> USE <1>0
<1>1. CASE Read
  <2> DEFINE take == Min2(carry.n, options.batch_bytes)
  <2>1. carry \in ExtentType /\ carry.n \in Nat /\ options.batch_bytes \in Nat
    BY InputFacts DEF TypeOK, ExtentType
  <2>2. take \in 0 .. options.batch_bytes /\ take \in Nat /\ take <= carry.n
    BY <2>1 DEF Min2
  <2>3. out' \in Seq(ExtentType) /\ carry' \in ExtentType
    BY <1>1, <2>1, <2>2, ExtentFacts DEF Read, TypeOK
  <2> QED
    BY <1>1, <2>2, <2>3 DEF Read, TypeOK, shardVars, bufferVars, slotVars, deviceVars
<1>2. CASE ReadReturns
  BY <1>2 DEF ReadReturns, TypeOK, shardVars, bufferVars, slotVars, deviceVars
<1>3. CASE OpenShard
  <2>1. next \in 1 .. Len(shards)
    BY <1>3 DEF OpenShard, MustOpen, TypeOK
  <2>2. /\ shards[next].block \in Nat \ {0}
        /\ shards[next].offset \in Nat /\ shards[next].length \in Nat
    BY <2>1, InputFacts
  <2>3. PrepareBuffers(shards[next].block, SegmentFor(shards[next].block))
    BY <1>3 DEF OpenShard
  <2>4. /\ block' \in Nat /\ segment' \in Nat /\ gen' \in Nat
        /\ free' \in [Slots -> BOOLEAN] /\ mem' \in [Slots -> ExtentType]
    BY <2>2, <2>3, PrepareFacts
  <2>5. window_end' \in Nat /\ next_offset' \in Nat
    BY <1>3, <2>2 DEF OpenShard
  <2> QED
    BY <1>3, <2>4, <2>5 DEF OpenShard, TypeOK, batchVars
<1>4. CASE OpenBackendFails
  <2>1. next \in 1 .. Len(shards)
    BY <1>4 DEF OpenBackendFails, MustOpen, TypeOK
  <2>2. shards[next].block \in Nat \ {0}
    BY <2>1, InputFacts
  <2>3. PrepareBuffers(shards[next].block, SegmentFor(shards[next].block))
    BY <1>4 DEF OpenBackendFails
  <2>4. /\ block' \in Nat /\ segment' \in Nat /\ gen' \in Nat
        /\ free' \in [Slots -> BOOLEAN] /\ mem' \in [Slots -> ExtentType]
    BY <2>2, <2>3, PrepareFacts
  <2> QED
    BY <1>4, <2>4 DEF OpenBackendFails, TypeOK, shardVars, batchVars
<1>5. CASE OpenFails \/ Overrun \/ NothingToSubmit \/ ReapFails \/ UNCHANGED vars
  BY <1>5 DEF OpenFails, Overrun, NothingToSubmit, ReapFails, TypeOK, vars, inputs, shardVars,
     bufferVars, slotVars, batchVars, deviceVars
<1>6. CASE BeginFill
  BY <1>6 DEF BeginFill, TypeOK, shardVars, bufferVars, batchVars, deviceVars
<1>7. ASSUME NEW s \in Slots, FillOne(s) PROVE TypeOK'
  <2> DEFINE remaining == window_end - next_offset
             length == RequestLength(remaining)
             request == [slot |-> s, offset |-> next_offset, length |-> length]
             entry == [slot |-> s, offset |-> next_offset, bytes |-> 0, done |-> FALSE]
  <2>1. next_offset \in Nat /\ remaining \in Nat
    BY <1>7 DEF FillOne, FillMore, TypeOK
  <2>2. length \in Nat
    <3>1. block > 0
      BY <1>7 DEF FillOne, Places
    <3> QED
      BY <2>1, <3>1, LengthFacts
  <2> HIDE DEF length
  <2>3. request \in RequestType /\ entry \in PendingType
    BY <2>1, <2>2 DEF RequestType, PendingType
  <2> HIDE DEF request, entry
  <2>4. /\ requests' = Append(requests, request) /\ pending' = Append(pending, entry)
        /\ next_offset' = next_offset + Min2(length, remaining)
    BY <1>7 DEF FillOne, request, entry, length
  <2>5. requests' \in Seq(RequestType) /\ pending' \in Seq(PendingType)
    BY <2>3, <2>4, AppendProperties, LenProperties DEF TypeOK
  <2>6. next_offset' \in Nat
    BY <2>1, <2>2, <2>4 DEF Min2
  <2>7. free' \in [Slots -> BOOLEAN]
    BY <1>7 DEF FillOne, TypeOK
  <2> QED
    BY <1>7, <2>5, <2>6, <2>7 DEF FillOne, TypeOK, bufferVars, batchVars, deviceVars
<1>8. CASE Submits /\ ring' \subseteq flight'
  <2>1. \A i \in DOMAIN requests : InFlight(requests[i]) \in FlightType
    <3>1. next \in Nat /\ gen \in Nat
      BY InputFacts DEF TypeOK
    <3> SUFFICES ASSUME NEW i \in DOMAIN requests PROVE InFlight(requests[i]) \in FlightType
      OBVIOUS
    <3>2. requests[i] \in RequestType
      BY DEF TypeOK
    <3> QED
      BY <3>1, <3>2 DEF InFlight, FlightType, RequestType
  <2>2. flight' \subseteq FlightType
    BY <1>8, <2>1 DEF Submits, TypeOK
  <2> QED
    BY <1>8, <2>2 DEF Submits, TypeOK, shardVars, bufferVars, slotVars, batchVars
<1>9. CASE SubmitFails
  <2>1. pending' \in Seq(PendingType)
    BY <1>9 DEF SubmitFails, TypeOK
  <2>2. free' \in [Slots -> BOOLEAN]
    BY <1>9 DEF SubmitFails, TypeOK
  <2> QED
    BY <1>9, <2>1, <2>2 DEF SubmitFails, TypeOK, bufferVars, batchVars, deviceVars
<1>10. ASSUME NEW c \in cq, Reap(c) PROVE TypeOK'
  <2>1. pending' \in Seq(PendingType)
    <3>1. c.bytes \in Nat /\ window_end \in Nat /\ pending \in Seq(PendingType)
      BY DEF TypeOK, CompletionType
    <3>2. CASE pending' = pending
      BY <3>1, <3>2
    <3>3. ASSUME NEW i \in DOMAIN pending,
                 pending' = [pending EXCEPT ![i] = Finish(pending[i], c)]
          PROVE  pending' \in Seq(PendingType)
      <4>1. pending[i] \in PendingType /\ pending[i].offset <= window_end
        BY <3>1 DEF Places
      <4>2. Finish(pending[i], c) \in PendingType
        BY <3>1, <4>1 DEF Finish, PendingType, Min2
      <4> QED
        BY <3>1, <3>3, <4>2, ExceptSeq
    <3> QED
      BY <1>10, <3>2, <3>3 DEF Reap, EntriesOf
  <2>2. cq' \subseteq CompletionType
    BY <1>10 DEF Reap, TypeOK
  <2>3. pc' \in {pc, "failed"}
    BY <1>10 DEF Reap
  <2> QED
    BY <1>10, <2>1, <2>2, <2>3 DEF Reap, TypeOK, shardVars, bufferVars, batchVars
<1>11. CASE TakeFront
  <2> DEFINE entry == pending[1]
             take == TakeLength(entry)
             bytes == Prefix(mem[entry.slot], entry.bytes)
  <2>1. pending # <<>>
    BY <1>11 DEF TakeFront, Places
  <2>2. entry \in PendingType /\ pending' \in Seq(PendingType)
    BY <1>11, <2>1, HeadTailProperties, EmptySeq, LenProperties DEF TakeFront, TypeOK
  <2>3. entry.slot \in Slots /\ entry.bytes \in Nat
    BY <2>2 DEF PendingType
  <2>4. filled \in 0 .. options.batch_bytes /\ options.batch_bytes \in Nat
    BY InputFacts DEF TypeOK
  <2>5. take \in Nat /\ take <= entry.bytes /\ filled + take \in 0 .. options.batch_bytes
    BY <2>3, <2>4 DEF TakeLength, Min2
  <2>6. mem[entry.slot] \in ExtentType
    BY <2>3 DEF TypeOK
  <2>7. bytes \in ExtentType /\ bytes.n = entry.bytes
    BY <2>3, <2>6, ExtentFacts
  <2> HIDE DEF bytes
  <2>8. Prefix(bytes, take) \in ExtentType /\ Rest(bytes, take) \in ExtentType
    BY <2>5, <2>7, ExtentFacts
  <2>9. /\ out' = Copied(out, Prefix(bytes, take)) /\ filled' = filled + take
        /\ carry' = IF entry.bytes > take THEN Rest(bytes, take) ELSE carry
        /\ free' = [free EXCEPT ![entry.slot] = TRUE]
    BY <1>11 DEF TakeFront, Released, bytes
  <2>10. out' \in Seq(ExtentType)
    BY <2>8, <2>9, ExtentFacts DEF TypeOK
  <2>11. carry' \in ExtentType /\ filled' \in 0 .. options.batch_bytes
    BY <2>5, <2>8, <2>9 DEF TypeOK
  <2>12. free' \in [Slots -> BOOLEAN]
    BY <2>9 DEF TypeOK
  <2> QED
    BY <1>11, <2>2, <2>10, <2>11, <2>12 DEF TakeFront, TypeOK, shardVars, bufferVars,
       deviceVars
<1>12. CASE CloseShard
  <2>1. next' \in 1 .. Len(shards) + 1
    BY <1>12, InputFacts DEF CloseShard, CloseWith, Places, TypeOK
  <2>2. /\ flight' \subseteq FlightType /\ orphans' \subseteq FlightType /\ cq' = {}
        /\ ring' = {}
    BY <1>12 DEF CloseShard, CloseWith, TypeOK
  <2>3. pending' \in Seq(PendingType) /\ free' = free /\ open' = FALSE /\ pc' = "loop"
    BY <1>12 DEF CloseShard, CloseWith
  <2>4. UNCHANGED <<window_end, next_offset, block, segment, gen, requests, start_offset,
                    carry, filled, lastRet, out, mem>>
    BY <1>12 DEF CloseShard, CloseWith, bufferVars, batchVars
  <2> QED
    BY <2>1, <2>2, <2>3, <2>4 DEF TypeOK
<1>13. CASE DestroyBuffers \/ DestroyBackend
  <2>1. UNCHANGED <<shardVars, block, segment, slotVars, batchVars, mem>>
    BY <1>13 DEF DestroyBuffers, DestroyBackend, bufferVars, deviceVars
  <2>2. pc' \in {"destroying", "destroyed"} /\ gen' \in Nat
    BY <1>13 DEF DestroyBuffers, DestroyBackend, TypeOK, bufferVars
  <2>3. /\ flight \subseteq FlightType /\ ring \subseteq flight
        /\ orphans \subseteq FlightType /\ cq \subseteq CompletionType
    BY DEF TypeOK
  <2>4. /\ flight' \subseteq FlightType /\ ring' \subseteq flight'
        /\ orphans' \subseteq FlightType /\ cq' \subseteq CompletionType
    <3>1. CASE DestroyBuffers
      BY <2>3, <3>1 DEF DestroyBuffers, deviceVars
    <3>2. CASE DestroyBackend
      BY <2>3, <3>2 DEF DestroyBackend
    <3> QED
      BY <1>13, <3>1, <3>2
  <2> QED
    BY <2>1, <2>2, <2>4 DEF TypeOK, shardVars, slotVars, batchVars
<1>14. ASSUME NEW r \in flight, Complete(r) PROVE TypeOK'
  <2>1. r \in FlightType /\ r.sh \in 1 .. Len(shards)
    BY DEF TypeOK, Places
  <2>2. mem' \in [Slots -> ExtentType] /\ cq' \subseteq CompletionType
    BY <1>14, <2>1, WritesFacts DEF Complete, TypeOK
  <2> QED
    BY <1>14, <2>2 DEF Complete, TypeOK, shardVars, bufferVars, slotVars, batchVars
<1>15. ASSUME NEW r \in orphans, CompleteOrphan(r) PROVE TypeOK'
  <2>1. r \in FlightType /\ r.sh \in 1 .. Len(shards)
    BY DEF TypeOK, Places
  <2>2. mem' \in [Slots -> ExtentType]
    BY <1>15, <2>1, WritesFacts DEF CompleteOrphan
  <2> QED
    BY <1>15, <2>2 DEF CompleteOrphan, TypeOK, shardVars, bufferVars, slotVars, batchVars
<1>16. ring \subseteq flight
  BY DEF TypeOK
<1> QED
  BY <1>1, <1>2, <1>3, <1>4, <1>5, <1>6, <1>7, <1>8, <1>9, <1>10, <1>11, <1>12,
     <1>13, <1>14, <1>15, <1>16, SubmitFacts
  DEF Next, Reader, Destructor, Device, Finished

-----------------------------------------------------------------------------
(* The places in read().                                                    *)

(* Nothing is open, pending or in flight at first.                         *)
LEMMA InitPlaces == Init => Places
BY DEF Init, Places

(* The steps of the stream, of the device and of the destructor keep what  *)
(* the places in read() imply.                                             *)
LEMMA NextPlaces == TypeOK /\ Places /\ Filling /\ [Next]_vars => Places'
<1> SUFFICES ASSUME TypeOK, Places, Filling, [Next]_vars PROVE Places'
  OBVIOUS
<1>0. shards' = shards /\ options' = options /\ Slots' = Slots
  BY InputsFixed
<1> USE <1>0
<1>1. CASE Read \/ ReadReturns \/ OpenFails \/ Overrun \/ NothingToSubmit \/ ReapFails \/ BeginFill
             \/ UNCHANGED vars
  <2>1. UNCHANGED <<shardVars, bufferVars, pending, deviceVars>>
    BY <1>1 DEF Read, ReadReturns, OpenFails, Overrun, NothingToSubmit, ReapFails, BeginFill,
       slotVars, vars
  <2>2. UNCHANGED <<next, open, window_end, block, gen, pending, flight, cq, orphans>>
    BY <2>1 DEF shardVars, bufferVars, deviceVars
  <2>3. /\ Alive' => Alive
        /\ pc' \in {"fill", "await", "close"} => open
        /\ pc' = "await" => pending # <<>>
    <3>1. CASE Read \/ ReadReturns \/ OpenFails \/ Overrun \/ ReapFails
      <4>1. pc' \in {"loop", "idle", "end", "failed", "overrun"} /\ Alive
        BY <3>1 DEF Read, ReadReturns, OpenFails, Overrun, ReapFails, MustOpen, AwaitsFront, Alive
      <4> QED
        BY <4>1
    <3>2. CASE BeginFill
      BY <3>2 DEF BeginFill, Alive
    <3>3. CASE NothingToSubmit
      BY <3>3 DEF NothingToSubmit, Alive, Places
    <3>4. CASE UNCHANGED vars
      BY <3>4 DEF vars, Alive, Places
    <3> QED
      BY <1>1, <3>1, <3>2, <3>3, <3>4
  <2> QED
    BY <2>2, <2>3 DEF Places
<1>2. CASE OpenShard \/ OpenBackendFails
  <2>1. /\ ~open /\ next \in 1 .. Len(shards) /\ pc = "loop"
        /\ PrepareBuffers(shards[next].block, SegmentFor(shards[next].block))
    BY <1>2 DEF OpenShard, OpenBackendFails, MustOpen, TypeOK
  <2>2. shards[next].block \in Nat \ {0}
    BY <2>1, InputFacts
  <2>3. block' > 0
    BY <2>1, <2>2, PrepareFacts
  <2>4. gen' \in {gen, gen + 1} /\ gen \in Nat
    BY <2>1 DEF PrepareBuffers, bufferVars, TypeOK
  <2>5. pending' = <<>> /\ flight' = {} /\ cq' = {} /\ orphans' = orphans /\ next' = next
    BY <1>2, <2>1 DEF OpenShard, OpenBackendFails, Places, shardVars
  <2>6. pc' \in {"loop", "failed"}
    BY <1>2, <2>1 DEF OpenShard, OpenBackendFails
  <2>7. \A r \in orphans' : r.sh \in 1 .. Len(shards) /\ r.gen <= gen' /\ r.sh < next'
    <3> SUFFICES ASSUME NEW r \in orphans
                 PROVE  r.sh \in 1 .. Len(shards) /\ r.gen <= gen' /\ r.sh < next
      BY <2>5
    <3>1. r.gen \in Nat /\ r.gen <= gen /\ r.sh \in 1 .. Len(shards) /\ r.sh < next
      BY <2>1 DEF TypeOK, FlightType, Places, Alive
    <3> QED
      BY <2>4, <3>1
  <2> QED
    BY <2>1, <2>3, <2>5, <2>6, <2>7 DEF Places
<1>3. ASSUME NEW s \in Slots, FillOne(s) PROVE Places'
  <2> DEFINE entry == [slot |-> s, offset |-> next_offset, bytes |-> 0, done |-> FALSE]
  <2>1. pending' = Append(pending, entry) /\ pending \in Seq(PendingType)
    BY <1>3 DEF FillOne, TypeOK
  <2>2. entry \in PendingType /\ entry.offset <= window_end
    BY <1>3 DEF FillOne, FillMore, TypeOK, PendingType
  <2> HIDE DEF entry
  <2>3. \A i \in DOMAIN pending' : pending'[i].offset <= window_end
    BY <2>1, <2>2, AppendProperties, LenProperties DEF Places
  <2> QED
    BY <1>3, <2>3 DEF FillOne, Places, Alive, bufferVars, batchVars, deviceVars
<1>4. CASE Submits
  <2>1. \A i \in DOMAIN requests :
          /\ InFlight(requests[i]).sh \in 1 .. Len(shards) /\ InFlight(requests[i]).sh = next
          /\ InFlight(requests[i]).gen = gen
    BY <1>4 DEF Submits, InFlight, Places, TypeOK
  <2>2. gen \in Nat /\ Alive
    BY <1>4 DEF Submits, TypeOK, Alive
  <2>3. pending # <<>>
    <3>1. requests \in Seq(RequestType) /\ requests # <<>> /\ Len(requests) <= Len(pending)
      BY <1>4 DEF Submits, Filling, TypeOK
    <3> QED
      BY <3>1, EmptySeq, LenProperties
  <2>4. /\ UNCHANGED <<next, open, window_end, block, gen, pending, cq, orphans>>
        /\ open /\ pc' = "await"
        /\ flight' = flight \cup {InFlight(requests[i]) : i \in DOMAIN requests}
    BY <1>4 DEF Submits, Places, shardVars, bufferVars, slotVars
  <2>5. \A r \in flight' : r.sh \in 1 .. Len(shards) /\ r.sh = next /\ r.gen = gen
    BY <2>1, <2>2, <2>4 DEF Places, InFlight
  <2>6. next \in Nat /\ \A r \in orphans : r.sh \in 1 .. Len(shards) /\ r.sh < next
    BY <2>2, InputFacts DEF Places, TypeOK
  <2>7. flight' \cap orphans = {}
    BY <2>5, <2>6
  <2> QED
    BY <2>2, <2>3, <2>4, <2>5, <2>6, <2>7 DEF Places
<1>5. CASE SubmitFails
  <2>1. \A i \in DOMAIN pending' : pending'[i].offset <= window_end
    BY <1>5 DEF SubmitFails, Places, TypeOK
  <2> QED
    BY <1>5, <2>1 DEF SubmitFails, Places, Alive, bufferVars, batchVars, deviceVars
<1>6. ASSUME NEW c \in cq, Reap(c) PROVE Places'
  <2>1. pending' # <<>> /\ \A i \in DOMAIN pending' : pending'[i].offset <= window_end
    <3>1. pending # <<>> /\ pending \in Seq(PendingType)
      BY <1>6 DEF Reap, AwaitsFront, Places, TypeOK
    <3>2. CASE pending' = pending
      BY <3>1, <3>2 DEF Places
    <3>3. ASSUME NEW i \in DOMAIN pending,
                 pending' = [pending EXCEPT ![i] = Finish(pending[i], c)]
          PROVE  /\ pending' # <<>>
                 /\ \A k \in DOMAIN pending' : pending'[k].offset <= window_end
      <4>1. \A k \in DOMAIN pending : pending'[k].offset = pending[k].offset
        BY <3>1, <3>3 DEF Finish
      <4> QED
        BY <3>1, <3>3, <4>1 DEF Places
    <3> QED
      BY <1>6, <3>2, <3>3 DEF Reap, EntriesOf
  <2> QED
    BY <1>6, <2>1 DEF Reap, AwaitsFront, Places, Alive, shardVars, bufferVars, batchVars
<1>7. CASE TakeFront
  <2>1. \A i \in DOMAIN pending' : pending'[i].offset <= window_end
    <3>1. pending' = Tail(pending) /\ window_end' = window_end /\ pc = "await"
      BY <1>7 DEF TakeFront, shardVars
    <3>2. pending \in Seq(PendingType) /\ pending # <<>>
      BY <3>1 DEF Places, TypeOK
    <3>3. /\ Len(pending) \in Nat \ {0} /\ DOMAIN pending' = 1 .. Len(pending) - 1
          /\ \A k \in 1 .. Len(pending) - 1 : pending'[k] = pending[k + 1]
      BY <3>1, <3>2, HeadTailProperties, EmptySeq, LenProperties
    <3>4. \A k \in 1 .. Len(pending) - 1 : k + 1 \in DOMAIN pending
      BY <3>2, <3>3, LenProperties
    <3> QED
      BY <3>3, <3>4 DEF Places
  <2> QED
    BY <1>7, <2>1 DEF TakeFront, Places, Alive, shardVars, bufferVars, deviceVars
<1>8. CASE CloseShard
  <2>1. /\ pending' = <<>> /\ flight' = {} /\ cq' = {} /\ orphans' = orphans \cup (flight \ ring)
        /\ gen' = gen /\ next' = next + 1 /\ open' = FALSE /\ pc' = "loop" /\ Alive
    BY <1>8 DEF CloseShard, CloseWith, bufferVars, Alive
  <2>2. \A r \in orphans' : r.sh \in 1 .. Len(shards) /\ r.gen <= gen /\ r.sh < next + 1
    <3>1. next \in Nat /\ gen \in Nat
      BY InputFacts DEF TypeOK
    <3>2. \A r \in flight \cup orphans : r.sh \in 1 .. Len(shards) /\ r.gen <= gen
      BY DEF Places
    <3>3. (\A r \in flight : r.sh = next) /\ (\A r \in orphans : r.sh < next)
      BY <2>1 DEF Places
    <3>4. \A r \in flight \cup orphans : r.sh < next + 1
      <4>1. ASSUME NEW r \in flight PROVE r.sh < next + 1
        BY <3>1, <3>3
      <4>2. ASSUME NEW r \in orphans PROVE r.sh < next + 1
        <5>1. r.sh \in Int /\ r.sh < next
          BY <3>2, <3>3, InputFacts
        <5> QED
          BY <3>1, <5>1
      <4> QED
        BY <4>1, <4>2
    <3> QED
      BY <2>1, <3>2, <3>4
  <2> QED
    BY <2>1, <2>2 DEF Places
<1>9. CASE DestroyBuffers
  <2>1. \A r \in flight \cup orphans : r.gen <= gen + 1
    <3> SUFFICES ASSUME NEW r \in flight \cup orphans PROVE r.gen <= gen + 1
      OBVIOUS
    <3>1. r.gen \in Nat /\ gen \in Nat /\ r.gen <= gen
      BY DEF TypeOK, FlightType, Places
    <3> QED
      BY <3>1
  <2> QED
    BY <1>9, <2>1 DEF DestroyBuffers, Places, Alive, shardVars, slotVars, batchVars, deviceVars
<1>10. CASE DestroyBackend
  BY <1>10 DEF DestroyBackend, Places, Alive, shardVars, bufferVars, slotVars, batchVars
<1>11. CASE \E r \in flight : Complete(r)
  BY <1>11 DEF Complete, Places, Alive, shardVars, bufferVars, slotVars, batchVars
<1>12. CASE \E r \in orphans : CompleteOrphan(r)
  BY <1>12 DEF CompleteOrphan, Places, Alive, shardVars, bufferVars, slotVars, batchVars
<1> QED
  BY <1>1, <1>2, <1>3, <1>4, <1>5, <1>6, <1>7, <1>8, <1>9, <1>10, <1>11, <1>12, SubmitFacts
  DEF Next, Reader, Destructor, Device, Finished

-----------------------------------------------------------------------------
(* Slots never run out.                                                     *)

(* There are no buffers at first.                                          *)
LEMMA InitSupplied == Init => Supplied
BY DEF Init, Supplied, NeverStarved

(* A fill leaves entries pending, a segment that was read gives its slot   *)
(* back before close_shard can drop the others.                            *)
LEMMA NextSupplied == TypeOK /\ Places /\ Supplied /\ [Next]_vars => Supplied'
<1> SUFFICES ASSUME TypeOK, Places, Supplied, [Next]_vars PROVE Supplied'
  OBVIOUS
<1>0. shards' = shards /\ options' = options /\ Slots' = Slots
  BY InputsFixed
<1> USE <1>0
<1>1. CASE Read \/ ReadReturns \/ OpenFails \/ Overrun \/ ReapFails \/ BeginFill \/ UNCHANGED vars
             \/ Submits \/ DestroyBackend
             \/ (\E r \in flight : Complete(r)) \/ (\E r \in orphans : CompleteOrphan(r))
  <2>1. UNCHANGED <<open, gen, free, pending>>
    BY <1>1 DEF Read, ReadReturns, OpenFails, Overrun, ReapFails, BeginFill, Submits,
       DestroyBackend, Complete, CompleteOrphan, shardVars, bufferVars, slotVars, vars
  <2>2. (pc' = "close" => pc = "close") /\ (Alive' => Alive)
    BY <1>1 DEF Read, ReadReturns, OpenFails, Overrun, ReapFails, BeginFill, Submits,
       DestroyBackend, Complete, CompleteOrphan, Alive, vars, MustOpen, AwaitsFront
  <2> QED
    BY <2>1, <2>2 DEF Supplied, NeverStarved, HasSlot
<1>2. CASE NothingToSubmit
  <2>1. UNCHANGED <<open, gen, free, pending>> /\ pc = "fill" /\ open
    BY <1>2 DEF NothingToSubmit, shardVars, bufferVars, slotVars, Places
  <2>2. pc' = "close" => pending = <<>>
    BY <1>2 DEF NothingToSubmit
  <2> QED
    BY <2>1, <2>2 DEF Supplied, NeverStarved, HasSlot
<1>3. CASE OpenShard \/ OpenBackendFails
  <2>1. /\ PrepareBuffers(shards[next].block, SegmentFor(shards[next].block))
        /\ ~open /\ Alive /\ pc' \in {"loop", "failed"}
    BY <1>3 DEF OpenShard, OpenBackendFails, MustOpen, Alive
  <2>2. HasSlot'
    <3>1. CASE gen > 0 /\ free' = free
      BY <2>1, <3>1 DEF Supplied, HasSlot
    <3>2. CASE free' = [s \in Slots |-> TRUE]
      <4>1. 0 \in Slots
        BY InputFacts DEF Slots, read_depth
      <4> QED
        BY <3>2, <4>1 DEF HasSlot
    <3> QED
      BY <2>1, <3>1, <3>2 DEF PrepareBuffers
  <2> QED
    BY <2>1, <2>2 DEF Supplied, NeverStarved, HasSlot
<1>4. ASSUME NEW s \in Slots, FillOne(s) PROVE Supplied'
  <2> DEFINE entry == [slot |-> s, offset |-> next_offset, bytes |-> 0, done |-> FALSE]
  <2>a. pending' = Append(pending, entry)
    BY <1>4 DEF FillOne
  <2>b. pending \in Seq(PendingType) /\ next_offset \in Nat
    BY DEF TypeOK
  <2>c. entry \in PendingType
    BY <1>4, <2>b DEF PendingType
  <2> HIDE DEF entry
  <2>d. Append(pending, entry) # <<>>
    BY <2>b, <2>c, AppendProperties
  <2>0. pending' # <<>>
    BY <2>a, <2>d
  <2>1. pending' # <<>> /\ open' /\ pc' = "fill"
    BY <1>4, <2>0 DEF FillOne, Places
  <2> QED
    BY <2>1 DEF Supplied, NeverStarved
<1>5. CASE SubmitFails
  <2>1. open' /\ pc' = "failed"
    BY <1>5 DEF SubmitFails, Places
  <2>2. 1 \in DOMAIN requests /\ requests[1].slot \in Slots
    <3>1. 1 \in DOMAIN requests /\ requests[1] \in RequestType
      BY <1>5, HeadTailProperties, EmptySeq, LenProperties DEF SubmitFails, TypeOK
    <3> QED
      BY <3>1 DEF RequestType
  <2>3. free'[requests[1].slot]
    BY <1>5, <2>2 DEF SubmitFails
  <2> QED
    BY <2>1, <2>2, <2>3 DEF Supplied, NeverStarved, HasSlot
<1>6. ASSUME NEW c \in cq, Reap(c) PROVE Supplied'
  <2>1. pending # <<>> /\ open /\ pc = "await"
    BY <1>6 DEF Reap, AwaitsFront, Places
  <2>2. pending' # <<>>
    BY <1>6, <2>1 DEF Reap, TypeOK
  <2>3. open' = open /\ pc' \in {"await", "failed"}
    BY <1>6, <2>1 DEF Reap, shardVars
  <2> QED
    BY <2>1, <2>2, <2>3 DEF Supplied, NeverStarved
<1>7. CASE TakeFront
  <2>1. pending[1].slot \in Slots
    <3>1. pending[1] \in PendingType
      BY <1>7, HeadTailProperties, EmptySeq, LenProperties DEF TakeFront, Places, TypeOK
    <3> QED
      BY <3>1 DEF PendingType
  <2>2. free'[pending[1].slot]
    BY <1>7, <2>1 DEF TakeFront, Released, TypeOK
  <2> QED
    BY <2>1, <2>2 DEF Supplied, NeverStarved, HasSlot
<1>8. CASE CloseShard
  BY <1>8 DEF CloseShard, CloseWith, Supplied, NeverStarved, HasSlot
<1>9. CASE DestroyBuffers
  <2>1. UNCHANGED <<open, free, pending>> /\ pc' = "destroying"
    BY <1>9 DEF DestroyBuffers, shardVars, slotVars
  <2> QED
    BY <2>1 DEF Supplied, NeverStarved, Alive
<1> QED
  BY <1>1, <1>2, <1>3, <1>4, <1>5, <1>6, <1>7, <1>8, <1>9, SubmitFacts
  DEF Next, Reader, Destructor, Device, Finished

-----------------------------------------------------------------------------
(* No read writes to a buffer in use.                                       *)

(* No slot is taken and nothing is read at first.                          *)
LEMMA InitExclusive == Init => SlotsExclusive /\ Filling /\ Completed
BY DEF Init, SlotsExclusive, Filling, Completed

(* The sequences' domains and elements, as the next lemma uses them.       *)
LEMMA SlotFacts ==
  ASSUME TypeOK
  PROVE  /\ pending \in Seq(PendingType) /\ requests \in Seq(RequestType)
         /\ Len(pending) \in Nat /\ Len(requests) \in Nat
         /\ DOMAIN pending = 1 .. Len(pending) /\ DOMAIN requests = 1 .. Len(requests)
         /\ \A i \in 1 .. Len(pending) : pending[i] \in PendingType /\ pending[i].slot \in Slots
         /\ \A i \in 1 .. Len(requests) : requests[i] \in RequestType /\ requests[i].slot \in Slots
         /\ \A r \in flight \cup orphans : r.slot \in Slots /\ r.gen \in Nat
         /\ \A c \in cq : c.token \in Slots
<1>1. pending \in Seq(PendingType) /\ requests \in Seq(RequestType)
  BY DEF TypeOK
<1>2. \A i \in 1 .. Len(pending) : pending[i] \in PendingType
  BY <1>1, LenProperties
<1>3. \A i \in 1 .. Len(requests) : requests[i] \in RequestType
  BY <1>1, LenProperties
<1>4. \A r \in flight \cup orphans : r.slot \in Slots /\ r.gen \in Nat
  BY DEF TypeOK, FlightType
<1>5. \A c \in cq : c.token \in Slots
  BY DEF TypeOK, CompletionType
<1> QED
  BY <1>1, <1>2, <1>3, <1>4, <1>5, LenProperties DEF PendingType, RequestType

(* A slot is taken only when it is free and released only by the entry     *)
(* whose read is over, so a step never puts a buffer in two uses.          *)
LEMMA NextExclusive == IInv /\ [Next]_vars => SlotsExclusive' /\ Filling' /\ Completed'
<1> SUFFICES ASSUME IInv, [Next]_vars PROVE SlotsExclusive' /\ Filling' /\ Completed'
  OBVIOUS
<1>0. /\ shards' = shards /\ options' = options /\ Slots' = Slots
      /\ TypeOK /\ Places /\ SlotsExclusive /\ Filling /\ Completed
  BY InputsFixed DEF IInv
<1>1. CASE Read \/ ReadReturns \/ OpenFails \/ Overrun \/ NothingToSubmit \/ ReapFails \/ UNCHANGED vars
  <2>1. UNCHANGED <<gen, free, pending, requests, flight, cq, orphans>>
    BY <1>1 DEF Read, ReadReturns, OpenFails, Overrun, NothingToSubmit, ReapFails, bufferVars,
       slotVars, deviceVars, vars
  <2>2. (pc' = "fill" => pc = "fill") /\ (Alive' => Alive)
    BY <1>1 DEF Read, ReadReturns, OpenFails, Overrun, NothingToSubmit, ReapFails, Alive, vars,
       MustOpen, AwaitsFront
  <2> QED
    BY <1>0, <2>1, <2>2 DEF SlotsExclusive, Filling, Completed, Writers
<1>2. CASE BeginFill
  <2>1. UNCHANGED <<gen, free, pending, flight, cq, orphans>> /\ requests' = <<>> /\ Alive
    BY <1>2 DEF BeginFill, bufferVars, deviceVars, Alive
  <2>2. Filling'
    BY <1>0, <2>1, SlotFacts DEF Filling
  <2> QED
    BY <1>0, <2>1, <2>2 DEF SlotsExclusive, Completed, Writers
<1>3. CASE OpenShard \/ OpenBackendFails
  <2>1. /\ PrepareBuffers(shards[next].block, SegmentFor(shards[next].block))
        /\ pending = <<>> /\ flight = {} /\ cq = {}
        /\ UNCHANGED <<pending, flight, cq, orphans>> /\ pc' \in {"loop", "failed"}
    BY <1>0, <1>3 DEF OpenShard, OpenBackendFails, MustOpen, Places
  <2>2. CASE gen' = gen /\ free' = free
    BY <1>0, <2>1, <2>2 DEF SlotsExclusive, Filling, Completed
  <2>3. CASE gen' = gen + 1
    <3>1. \A r \in orphans : r.gen # gen'
      BY <1>0, <2>3, SlotFacts DEF Places, TypeOK
    <3> QED
      BY <2>1, <3>1 DEF SlotsExclusive, Filling, Completed
  <2> QED
    BY <2>1, <2>2, <2>3 DEF PrepareBuffers, bufferVars
<1>4. ASSUME NEW s \in Slots, FillOne(s) PROVE SlotsExclusive' /\ Filling' /\ Completed'
  <2> DEFINE request == [slot |-> s, offset |-> next_offset,
                         length |-> RequestLength(window_end - next_offset)]
             entry == [slot |-> s, offset |-> next_offset, bytes |-> 0, done |-> FALSE]
  <2>1. /\ requests' = Append(requests, request) /\ pending' = Append(pending, entry)
        /\ free[s] /\ free' = [free EXCEPT ![s] = FALSE]
        /\ UNCHANGED <<gen, flight, cq, orphans>> /\ pc = "fill" /\ pc' = "fill"
    BY <1>4 DEF FillOne, TakesSlot, bufferVars, deviceVars
  <2>2. request.slot = s /\ entry.slot = s /\ ~entry.done
    OBVIOUS
  <2> HIDE DEF request, entry
  <2>3. /\ DOMAIN pending' = 1 .. Len(pending) + 1 /\ Len(pending') = Len(pending) + 1
        /\ \A i \in 1 .. Len(pending) : pending'[i] = pending[i]
        /\ pending'[Len(pending) + 1] = entry
    BY <1>0, <2>1, SlotFacts
  <2>4. /\ DOMAIN requests' = 1 .. Len(requests) + 1 /\ Len(requests') = Len(requests) + 1
        /\ \A i \in 1 .. Len(requests) : requests'[i] = requests[i]
        /\ requests'[Len(requests) + 1] = request
    BY <1>0, <2>1, SlotFacts
  <2>5. \A t \in Slots : ~free[t] => t # s /\ ~free'[t]
    BY <1>0, <2>1 DEF TypeOK
  <2>6. ~free'[s]
    BY <1>0, <2>1 DEF TypeOK
  <2>7. \A i \in 1 .. Len(pending) : pending[i].slot # s /\ ~free'[pending[i].slot]
    BY <1>0, <2>5, SlotFacts DEF SlotsExclusive
  <2>8. \A r \in Writers : r.slot # s /\ ~free'[r.slot]
    BY <1>0, <2>5, SlotFacts DEF SlotsExclusive, Writers
  <2>9. \A c \in cq : c.token # s /\ ~free'[c.token]
    BY <1>0, <2>1, <2>5, SlotFacts DEF Completed, Alive
  <2>10. Writers' = Writers
    BY <2>1 DEF Writers
  <2>11. SlotsExclusive'
    BY <1>0, <2>1, <2>2, <2>3, <2>6, <2>7, <2>8, SlotFacts DEF SlotsExclusive, Writers
  <2>12. Filling'
    BY <1>0, <2>1, <2>2, <2>3, <2>4, <2>8, <2>9, <2>10, SlotFacts DEF Filling
  <2>13. Completed'
    BY <1>0, <2>1, <2>2, <2>3, <2>9, <2>10, SlotFacts DEF Completed, Alive
  <2> QED
    BY <2>11, <2>12, <2>13
<1>5. CASE Submits
  <2> DEFINE base == Len(pending) - Len(requests)
             new == {InFlight(requests[i]) : i \in DOMAIN requests}
  <2>1. /\ UNCHANGED <<gen, free, pending, cq, orphans>> /\ flight' = flight \cup new
        /\ pc = "fill" /\ pc' = "await"
    BY <1>5 DEF Submits, bufferVars, slotVars
  <2>2. base \in Nat /\ \A i \in DOMAIN requests : base + i \in DOMAIN pending
    BY <1>0, <2>1, SlotFacts DEF Filling
  <2>3. \A i \in DOMAIN requests :
          /\ pending[base + i].slot = requests[i].slot /\ ~pending[base + i].done
          /\ \A r \in Writers : r.slot # requests[i].slot
          /\ \A c \in cq : c.token # requests[i].slot
    BY <1>0, <2>1 DEF Filling
  <2>4. ASSUME NEW i \in DOMAIN requests, NEW j \in DOMAIN requests,
               requests[i].slot = requests[j].slot
        PROVE  i = j
    <3>1. base + i = base + j
      BY <1>0, <2>2, <2>3, <2>4 DEF SlotsExclusive
    <3> QED
      BY <1>0, <2>2, <3>1, SlotFacts
  <2>5. ASSUME NEW r \in new
        PROVE  /\ ~free[r.slot]
               /\ \A i \in DOMAIN pending : pending[i].done => pending[i].slot # r.slot
               /\ \A q \in Writers : q.slot # r.slot
               /\ \A c \in cq : c.token # r.slot
               /\ \A q \in new : q.slot = r.slot => q = r
    <3>1. PICK i \in DOMAIN requests : r = InFlight(requests[i])
      BY <2>5
    <3>2. r.slot = requests[i].slot
      BY <3>1 DEF InFlight
    <3>3. ~free[r.slot]
      BY <1>0, <2>2, <2>3, <3>2 DEF SlotsExclusive
    <3>4. \A k \in DOMAIN pending : pending[k].done => pending[k].slot # r.slot
      BY <1>0, <2>2, <2>3, <3>2 DEF SlotsExclusive
    <3>5. \A q \in new : q.slot = r.slot => q = r
      <4> SUFFICES ASSUME NEW q \in new, q.slot = r.slot PROVE q = r
        OBVIOUS
      <4>1. PICK j \in DOMAIN requests : q = InFlight(requests[j])
        OBVIOUS
      <4>2. q.slot = requests[j].slot
        BY <4>1 DEF InFlight
      <4> QED
        BY <2>4, <3>1, <3>2, <4>1, <4>2
    <3> QED
      BY <2>3, <3>2, <3>3, <3>4, <3>5
  <2> HIDE DEF new
  <2>6. SlotsExclusive'
    BY <1>0, <2>1, <2>5 DEF SlotsExclusive, Writers
  <2>7. Filling'
    BY <2>1 DEF Filling
  <2>8. Completed'
    <3>1. Writers' \subseteq Writers \cup new
      BY <2>1 DEF Writers
    <3>2. Alive
      BY <2>1 DEF Alive
    <3> QED
      BY <1>0, <2>1, <2>5, <3>1, <3>2 DEF Completed
  <2> QED
    BY <2>6, <2>7, <2>8
<1>6. CASE SubmitFails
  <2> DEFINE base == Len(pending) - Len(requests)
  <2>1. /\ free' = [s \in Slots |-> free[s] \/ \E i \in DOMAIN requests : requests[i].slot = s]
        /\ pending' = SubSeq(pending, 1, base)
        /\ UNCHANGED <<gen, flight, cq, orphans>> /\ pc = "fill" /\ pc' = "failed"
    BY <1>6 DEF SubmitFails, bufferVars, deviceVars
  <2>2. base \in 0 .. Len(pending)
    BY <1>0, <2>1, SlotFacts DEF Filling
  <2>3. \A i \in DOMAIN requests :
          /\ base + i \in DOMAIN pending /\ pending[base + i].slot = requests[i].slot
          /\ \A r \in Writers : r.slot # requests[i].slot
          /\ \A c \in cq : c.token # requests[i].slot
    BY <1>0, <2>1, <2>2, SlotFacts DEF Filling
  <2> HIDE DEF base
  <2>4. DOMAIN pending' = 1 .. base /\ \A k \in 1 .. base : pending'[k] = pending[k]
    BY <1>0, <2>1, <2>2, SlotFacts, SubSeqProperties, LenProperties
  <2>5. \A k \in 1 .. base : k \in DOMAIN pending /\ \A i \in DOMAIN requests : k # base + i
    BY <1>0, <2>2, SlotFacts
  <2>6. \A k \in 1 .. base : \A i \in DOMAIN requests : requests[i].slot # pending[k].slot
    BY <1>0, <2>3, <2>5 DEF SlotsExclusive
  <2>7. \A k \in 1 .. base : ~free'[pending[k].slot]
    BY <1>0, <2>1, <2>5, <2>6, SlotFacts DEF SlotsExclusive
  <2>8. \A r \in Writers : ~free'[r.slot]
    BY <1>0, <2>1, <2>3, SlotFacts DEF SlotsExclusive, Writers
  <2>9. \A c \in cq : ~free'[c.token]
    BY <1>0, <2>1, <2>3, SlotFacts DEF Completed, Alive
  <2>10. SlotsExclusive'
    <3>1. \A i, j \in DOMAIN pending' : pending'[i].slot = pending'[j].slot => i = j
      BY <1>0, <2>4, <2>5 DEF SlotsExclusive
    <3>2. \A i \in DOMAIN pending' : ~free'[pending'[i].slot]
      BY <2>4, <2>7
    <3>3. \A r \in Writers : \A i \in DOMAIN pending' :
            pending'[i].done => pending'[i].slot # r.slot
      BY <1>0, <2>4, <2>5 DEF SlotsExclusive, Writers
    <3>4. \A r, q \in Writers : q.slot = r.slot => q = r
      BY <1>0 DEF SlotsExclusive, Writers
    <3> QED
      <4>1. \A r \in flight' \cup orphans' : r.gen = gen' => r \in Writers
        BY <2>1 DEF Writers
      <4> QED
        BY <2>8, <3>1, <3>2, <3>3, <3>4, <4>1 DEF SlotsExclusive
  <2>11. Completed'
    <3>1. cq' = cq /\ Alive /\ Writers' = Writers
      BY <2>1 DEF Alive, Writers
    <3>2. \A i \in DOMAIN pending' : i \in DOMAIN pending /\ pending'[i] = pending[i]
      BY <2>4, <2>5
    <3>3. Completed
      BY <1>0
    <3> QED
      BY <2>9, <3>1, <3>2, <3>3 DEF Completed
  <2> QED
    BY <2>1, <2>10, <2>11 DEF Filling
<1>7. ASSUME NEW c \in cq, Reap(c) PROVE SlotsExclusive' /\ Filling' /\ Completed'
  <2>1. /\ UNCHANGED <<gen, free, flight, orphans>> /\ cq' = cq \ {c}
        /\ pc = "await" /\ pc' \in {"await", "failed"}
    BY <1>7 DEF Reap, AwaitsFront, bufferVars
  <2>2. Filling' /\ Alive /\ Writers' = Writers
    BY <2>1 DEF Filling, Alive, Writers
  <2>3. CASE pending' = pending
    BY <1>0, <2>1, <2>2, <2>3 DEF SlotsExclusive, Completed
  <2>4. ASSUME NEW i \in EntriesOf(c.token),
               pending' = [pending EXCEPT ![i] = Finish(pending[i], c)]
        PROVE  SlotsExclusive' /\ Completed'
    <3>1. i \in DOMAIN pending /\ pending[i].slot = c.token
      BY DEF EntriesOf
    <3>2. /\ DOMAIN pending' = DOMAIN pending
          /\ \A k \in DOMAIN pending : pending'[k].slot = pending[k].slot
          /\ \A k \in DOMAIN pending : k # i => pending'[k] = pending[k]
      BY <1>0, <2>4, <3>1, SlotFacts DEF Finish
    <3>3. \A r \in Writers : r.slot # c.token
      BY <1>0, <2>2 DEF Completed
    <3>4. SlotsExclusive'
      BY <1>0, <2>1, <3>1, <3>2, <3>3 DEF SlotsExclusive, Writers
    <3>5. \A d \in cq' : d \in cq /\ d.token # c.token
      BY <1>0, <2>1, <2>2 DEF Completed
    <3>6. Completed'
      BY <1>0, <2>1, <2>2, <3>1, <3>2, <3>5 DEF Completed
    <3> QED
      BY <3>4, <3>6
  <2> QED
    BY <1>7, <2>2, <2>3, <2>4 DEF Reap
<1>8. CASE TakeFront
  <2> DEFINE slot == pending[1].slot
  <2>1. /\ UNCHANGED <<gen, flight, cq, orphans>> /\ pending' = Tail(pending)
        /\ free' = [free EXCEPT ![slot] = TRUE]
        /\ pc = "await" /\ pc' \in {"close", "loop"} /\ pending[1].done
    BY <1>8 DEF TakeFront, Released, bufferVars, deviceVars
  <2>2. pending # <<>>
    BY <1>0, <2>1 DEF Places
  <2>3. /\ Len(pending) >= 1 /\ 1 \in DOMAIN pending
        /\ DOMAIN pending' = 1 .. Len(pending) - 1
        /\ \A k \in 1 .. Len(pending) - 1 : pending'[k] = pending[k + 1] /\ k + 1 \in DOMAIN pending
    BY <1>0, <2>1, <2>2, SlotFacts, HeadTailProperties, EmptySeq, LenProperties
  <2>4. \A t \in Slots : ~free[t] /\ t # slot => ~free'[t]
    BY <1>0, <2>1 DEF TypeOK
  <2>5. \A k \in 1 .. Len(pending) - 1 : pending[k + 1].slot # slot
    <3> SUFFICES ASSUME NEW k \in 1 .. Len(pending) - 1, pending[k + 1].slot = slot
                 PROVE FALSE
      OBVIOUS
    <3>1. k + 1 = 1
      BY <1>0, <2>3 DEF SlotsExclusive
    <3> QED
      BY <3>1
  <2>6. \A k \in 1 .. Len(pending) - 1 : ~free'[pending'[k].slot]
    BY <1>0, <2>3, <2>4, <2>5, SlotFacts DEF SlotsExclusive
  <2>7. \A r \in Writers : ~free'[r.slot]
    <3> SUFFICES ASSUME NEW r \in Writers
                 PROVE  ~free'[r.slot]
      OBVIOUS
    <3>1. r \in flight \cup orphans /\ r.gen = gen
      BY DEF Writers
    <3>2. r.slot \in Slots /\ ~free[r.slot] /\ slot # r.slot
      BY <1>0, <2>1, <2>3, <3>1, SlotFacts DEF SlotsExclusive
    <3> QED
      BY <2>4, <3>2
  <2>8. \A c \in cq : ~free'[c.token]
    BY <1>0, <2>1, <2>3, <2>4, SlotFacts DEF Completed, Alive
  <2>9. \A i, j \in DOMAIN pending' : pending'[i].slot = pending'[j].slot => i = j
    <3> SUFFICES ASSUME NEW i \in 1 .. Len(pending) - 1, NEW j \in 1 .. Len(pending) - 1,
                        pending[i + 1].slot = pending[j + 1].slot
                 PROVE  i = j
      BY <2>3
    <3>1. i + 1 = j + 1
      BY <1>0, <2>3 DEF SlotsExclusive
    <3> QED
      BY <3>1
  <2>10. SlotsExclusive'
    BY <1>0, <2>1, <2>3, <2>6, <2>7, <2>9 DEF SlotsExclusive, Writers
  <2>11. Completed'
    BY <1>0, <2>1, <2>3, <2>8 DEF Completed, Writers, Alive
  <2> QED
    BY <2>1, <2>10, <2>11 DEF Filling
<1>9. CASE CloseShard
  <2>1. /\ UNCHANGED <<gen, free>> /\ pending' = <<>> /\ cq' = {} /\ pc' = "loop"
        /\ flight' \cup orphans' \subseteq flight \cup orphans
    BY <1>9 DEF CloseShard, CloseWith, bufferVars
  <2> QED
    BY <1>0, <2>1 DEF SlotsExclusive, Filling, Completed
<1>10. CASE DestroyBuffers
  <2>1. /\ UNCHANGED <<free, pending, flight, orphans>> /\ gen' = gen + 1
        /\ pc' = "destroying"
    BY <1>10 DEF DestroyBuffers, slotVars, deviceVars
  <2>2. \A r \in flight \cup orphans : r.gen # gen'
    BY <1>0, <2>1, SlotFacts DEF Places, TypeOK
  <2> QED
    BY <1>0, <2>1, <2>2 DEF SlotsExclusive, Filling, Completed, Alive
<1>11. CASE DestroyBackend
  <2>1. /\ UNCHANGED <<gen, free, pending>> /\ pc' = "destroyed"
        /\ flight' \cup orphans' \subseteq flight \cup orphans
    BY <1>11 DEF DestroyBackend, bufferVars, slotVars
  <2> QED
    BY <1>0, <2>1 DEF SlotsExclusive, Filling, Completed, Alive
<1>12. ASSUME NEW r \in flight, Complete(r) PROVE SlotsExclusive' /\ Filling' /\ Completed'
  <2>1. UNCHANGED <<gen, free, pending, requests, orphans, pc>> /\ flight' = flight \ {r}
    BY <1>12 DEF Complete, bufferVars, slotVars
  <2>2. PICK o \in Outcomes(r) :
          cq' = cq \cup {[token |-> r.slot, bytes |-> o.bytes, error |-> o.error]}
    BY <1>12 DEF Complete
  <2> DEFINE c == [token |-> r.slot, bytes |-> o.bytes, error |-> o.error]
  <2>3. cq' = cq \cup {c} /\ c.token = r.slot
    BY <2>2
  <2> HIDE DEF c
  <2>4. SlotsExclusive'
    BY <1>0, <2>1 DEF SlotsExclusive
  <2>5. Alive => r \in Writers /\ Writers' = Writers \ {r}
    BY <1>0, <2>1 DEF Places, Writers
  <2>6. Filling'
    <3>1. pc = "fill" => Alive
      BY DEF Alive
    <3> QED
      BY <1>0, <2>1, <2>3, <2>5, <3>1 DEF Filling
  <2>7. Completed'
    <3> SUFFICES ASSUME Alive PROVE Completed'
      BY <2>1 DEF Completed, Alive
    <3>1. /\ ~free[c.token]
          /\ \A q \in Writers' : q.slot # c.token
          /\ \A i \in DOMAIN pending : pending[i].done => pending[i].slot # c.token
      BY <1>0, <2>3, <2>5 DEF SlotsExclusive, Writers
    <3>2. \A d \in cq : d.token # c.token
      BY <1>0, <2>3, <2>5 DEF Completed
    <3> QED
      BY <1>0, <2>1, <2>3, <2>5, <3>1, <3>2 DEF Completed
  <2> QED
    BY <2>4, <2>6, <2>7
<1>13. ASSUME NEW r \in orphans, CompleteOrphan(r)
       PROVE  SlotsExclusive' /\ Filling' /\ Completed'
  <2>1. /\ UNCHANGED <<gen, free, pending, requests, flight, cq, pc>>
        /\ orphans' = orphans \ {r}
    BY <1>13 DEF CompleteOrphan, bufferVars, slotVars
  <2>2. Writers' \subseteq Writers
    BY <2>1 DEF Writers
  <2>3. SlotsExclusive'
    BY <1>0, <2>1 DEF SlotsExclusive
  <2> QED
    BY <1>0, <2>1, <2>2, <2>3 DEF Filling, Completed, Alive
<1> QED
  BY <1>1, <1>2, <1>3, <1>4, <1>5, <1>6, <1>7, <1>8, <1>9, <1>10, <1>11, <1>12, <1>13,
     SubmitFacts
  DEF Next, Reader, Destructor, Device, Finished

-----------------------------------------------------------------------------
(* The invariant, and what follows from it.                                 *)

(* The inductive invariant holds in every reachable state of the stream.   *)
THEOREM Invariance == Spec => []IInv
<1>1. Init => IInv
  BY InitTypeOK, InitPlaces, InitSupplied, InitExclusive DEF IInv
<1>2. IInv /\ [Next]_vars => IInv'
  BY NextTypeOK, NextPlaces, NextSupplied, NextExclusive DEF IInv
<1> QED
  BY <1>1, <1>2, PTL DEF Spec

(* Every reachable state of ShardStream is well typed: no count or offset  *)
(* goes below zero and no entry names a slot that does not exist.          *)
THEOREM TypeCorrect == Spec => []TypeOK
<1>1. IInv => TypeOK
  BY DEF IInv
<1> QED
  BY <1>1, Invariance, PTL

(* fill_pipeline with nothing pending always finds a slot, however many    *)
(* shards ended early before: an empty pipeline is an exhausted shard.     *)
THEOREM PipelineNeverStarves == Spec => []NeverStarved
<1>1. IInv => NeverStarved
  BY DEF IInv, Supplied
<1> QED
  BY <1>1, Invariance, PTL

(* No read in flight or left to the kernel writes to a buffer that is free *)
(* or holds bytes still to be copied, and no two write to the same one.    *)
THEOREM BuffersExclusive == Spec => []SlotsExclusive
<1>1. IInv => SlotsExclusive
  BY DEF IInv
<1> QED
  BY <1>1, Invariance, PTL

-----------------------------------------------------------------------------
(* Requests are whole blocks.                                               *)

\* read() can still be called or is under way.
Running == pc \in {"idle", "loop", "fill", "await", "close"}

(* A stream that has failed or is being destroyed stays so.                *)
LEMMA RunningBefore == [Next]_vars /\ Running' => Running
<1> SUFFICES ASSUME [Next]_vars, Running' PROVE Running
  OBVIOUS
<1>1. CASE Reader
  BY <1>1, SubmitFacts DEF Reader, Read, ReadReturns, OpenShard, OpenFails, Overrun,
     OpenBackendFails, MustOpen, BeginFill, FillOne, Submits, SubmitFails, NothingToSubmit, Reap, ReapFails,
     AwaitsFront, TakeFront, CloseShard, CloseWith, Running
<1>2. CASE Device \/ UNCHANGED vars
  <2>1. pc' = pc
    BY <1>2 DEF Device, Complete, CompleteOrphan, vars
  <2> QED
    BY <2>1 DEF Running
<1>3. CASE Destructor
  BY <1>3 DEF Destructor, DestroyBuffers, DestroyBackend, Running
<1> QED
  BY <1>1, <1>2, <1>3 DEF Next, Finished

(* A multiple of b leaves no remainder.                                    *)
LEMMA MultipleFacts ==
  ASSUME NEW b \in Nat \ {0}, NEW q \in Int
  PROVE  (b * q) % b = 0
OBVIOUS

(* Quotient and remainder.                                                 *)
LEMMA QuotientFacts ==
  ASSUME NEW b \in Nat \ {0}, NEW a \in Nat
  PROVE  /\ a % b \in 0 .. b - 1
         /\ \E q \in Nat : a = b * q + (a % b)
<1>1. a \div b \in Int /\ a = b * (a \div b) + (a % b) /\ a % b \in 0 .. b - 1
  OBVIOUS
<1>2. a \div b \in Nat
  OBVIOUS
<1> QED
  BY <1>1, <1>2

(* Rounding down to whole blocks keeps a block if there was one.           *)
LEMMA RoundedFacts ==
  ASSUME NEW b \in Nat \ {0}, NEW a \in Nat
  PROVE  /\ a - (a % b) \in Nat /\ (a - (a % b)) % b = 0
         /\ a >= b => a - (a % b) >= b
<1>1. PICK q \in Nat : a = b * q + (a % b)
  BY QuotientFacts
<1>2. a % b \in 0 .. b - 1
  BY QuotientFacts
<1> DEFINE m == a % b
<1> HIDE DEF m
<1>3. m \in 0 .. b - 1 /\ a = b * q + m /\ b * q \in Nat
  BY <1>1, <1>2 DEF m
<1>4. a - m = b * q
  BY <1>3
<1>5. (b * q) % b = 0
  BY MultipleFacts
<1>6. a >= b => b * q >= b
  <2> SUFFICES ASSUME a >= b PROVE b * q >= b
    OBVIOUS
  <2>1. q # 0
    <3> SUFFICES ASSUME q = 0 PROVE FALSE
      OBVIOUS
    <3>1. b * q = 0
      OBVIOUS
    <3> QED
      BY <1>3, <3>1
  <2>2. q >= 1
    BY <2>1
  <2>3. b * q = b + b * (q - 1) /\ q - 1 \in Nat
    BY <2>2
  <2>4. b * (q - 1) \in Nat
    BY <2>3
  <2> QED
    BY <2>3, <2>4
<1> QED
  BY <1>3, <1>4, <1>5, <1>6 DEF m

(* Sums of multiples of b are multiples of b.                              *)
LEMMA SumAligned ==
  ASSUME NEW b \in Nat \ {0}, NEW a \in Nat, NEW c \in Nat, a % b = 0, c % b = 0
  PROVE  (a + c) % b = 0
<1>1. PICK p \in Nat : a = b * p
  <2>1. PICK p \in Nat : a = b * p + (a % b)
    BY QuotientFacts
  <2>2. a = b * p
    BY <2>1
  <2> QED
    BY <2>2
<1>2. PICK q \in Nat : c = b * q
  <2>1. PICK q \in Nat : c = b * q + (c % b)
    BY QuotientFacts
  <2>2. c = b * q
    BY <2>1
  <2> QED
    BY <2>2
<1>3. a + c = b * (p + q) /\ p + q \in Int
  BY <1>1, <1>2
<1>4. (b * (p + q)) % b = 0
  BY <1>3, MultipleFacts
<1> QED
  BY <1>3, <1>4

\* The geometry is the open shard's, and the next request starts on a block
\* boundary, or there is none.
Geometry ==
  Running =>
    /\ open => block = shards[next].block /\ segment = SegmentFor(block)
    /\ open /\ next_offset < window_end /\ shards[next].offset % block = 0 =>
         next_offset % block = 0

(* A segment is a number of blocks.                                        *)
LEMMA SegmentFacts ==
  ASSUME TypeOK, open, next <= Len(shards), block = shards[next].block,
         segment = SegmentFor(block)
  PROVE  /\ block \in Nat \ {0} /\ segment \in Nat
         /\ segment % block = 0
<1>1. next \in 1 .. Len(shards) /\ next \in DOMAIN shards
  BY InputFacts DEF TypeOK
<1>2. /\ block \in Nat \ {0} /\ options.segment_bytes \in Nat /\ SegmentCap \in Nat
      /\ options.batch_bytes \in Nat
  BY <1>1, InputFacts
<1> DEFINE target == IF options.segment_bytes # 0
                       THEN options.segment_bytes
                       ELSE Min2(Max2(block, options.batch_bytes), SegmentCap)
<1>4. target \in Nat
  BY <1>2 DEF Min2, Max2
<1>5. segment = target - (target % block)
  BY DEF SegmentFor
<1> HIDE DEF target
<1> QED
  <2>1. PICK t \in Nat, b \in Nat \ {0} : t = target /\ b = block
    BY <1>2, <1>4
  <2>2. segment = t - (t % b)
    BY <1>5, <2>1
  <2>3. t - (t % b) \in Nat /\ (t - (t % b)) % b = 0
    BY RoundedFacts
  <2> QED
    BY <1>2, <2>1, <2>2, <2>3, Zenon

(* A request is a number of blocks, and fits the segment's buffer if that  *)
(* has any bytes.                                                          *)
LEMMA RequestFacts ==
  ASSUME block \in Nat \ {0}, segment \in Nat, segment % block = 0,
         NEW remaining \in Nat \ {0}
  PROVE  /\ RequestLength(remaining) \in Nat \ {0}
         /\ RequestLength(remaining) % block = 0
         /\ RequestLength(remaining) > segment => segment = 0
<1> DEFINE length == Min2(segment, remaining)
           whole == length - (length % block)
<1>1. length \in Nat /\ length <= segment
  BY DEF Min2
<1>2. RequestLength(remaining) = IF whole = 0 THEN block ELSE whole
  BY DEF RequestLength
<1> HIDE DEF length
<1>3. whole \in Nat /\ whole % block = 0 /\ length % block \in Nat
  BY <1>1, RoundedFacts, QuotientFacts
<1>4. whole <= segment
  BY <1>1, <1>3
<1> HIDE DEF whole
<1>5. block % block = 0
  OBVIOUS
<1>6. block > segment => segment = 0
  <2>1. segment < block => segment % block = segment
    OBVIOUS
  <2> QED
    BY <2>1
<1> QED
  BY <1>2, <1>3, <1>4, <1>5, <1>6

(* No shard is open in the initial state.                                  *)
LEMMA InitGeometry == Init => Geometry
BY DEF Init, Geometry

(* Every step keeps the geometry: only fill_pipeline and open_shard move   *)
(* next_offset, and only open_shard changes the block.                     *)
LEMMA NextGeometry ==
  TypeOK /\ Places /\ Geometry /\ RequestsAligned /\ [Next]_vars => Geometry' /\ RequestsAligned'
<1> SUFFICES ASSUME TypeOK, Places, Geometry, RequestsAligned, [Next]_vars
             PROVE  Geometry' /\ RequestsAligned'
  OBVIOUS
<1>0. shards' = shards /\ options' = options /\ (Running' => Running)
  BY InputsFixed, RunningBefore
<1>1. ASSUME UNCHANGED <<next, open, window_end, next_offset, block, segment>>,
             pc' = "overrun" => pc = "overrun",
             pc' = "fill" => requests' = <<>> \/ (requests' = requests /\ pc = "fill")
      PROVE  Geometry' /\ RequestsAligned'
  <2>1. Geometry'
    BY <1>0, <1>1 DEF Geometry, SegmentFor
  <2>2. pc' = "fill" /\ requests' = <<>> => RequestsAligned'
    BY DEF RequestsAligned
  <2>3. pc' = "overrun" => segment' = 0
    BY <1>1 DEF RequestsAligned
  <2> QED
    BY <1>0, <1>1, <2>1, <2>2, <2>3 DEF RequestsAligned
<1>2. CASE Read \/ ReadReturns \/ OpenFails \/ ReapFails \/ NothingToSubmit \/ BeginFill \/ Submits
             \/ TakeFront \/ Device \/ UNCHANGED vars \/ (\E c \in cq : Reap(c))
  <2>1. UNCHANGED <<next, open, window_end, next_offset, block, segment>>
    BY <1>2 DEF Read, ReadReturns, OpenFails, ReapFails, NothingToSubmit, BeginFill, Submits,
       TakeFront, Device, Reap, Complete, CompleteOrphan, vars, shardVars, bufferVars
  <2>2. pc' = "fill" => requests' = <<>> \/ (requests' = requests /\ pc = "fill")
    BY <1>2 DEF Read, ReadReturns, OpenFails, ReapFails, NothingToSubmit, BeginFill, Submits,
       TakeFront, Device, Reap, AwaitsFront, Complete, CompleteOrphan, vars, slotVars
  <2>3. pc' = "overrun" => pc = "overrun"
    BY <1>2 DEF Read, ReadReturns, OpenFails, ReapFails, NothingToSubmit, BeginFill, Submits,
       TakeFront, Device, Reap, AwaitsFront, Complete, CompleteOrphan, vars
  <2> QED
    BY <1>1, <2>1, <2>2, <2>3
<1>3. CASE OpenShard
  <2>1. /\ PrepareBuffers(shards[next].block, SegmentFor(shards[next].block))
        /\ next_offset' = shards[next].offset /\ next' = next /\ pc' = "loop"
    BY <1>3 DEF OpenShard, MustOpen
  <2>2. block' = shards[next].block /\ segment' = SegmentFor(shards[next].block)
    BY <2>1 DEF PrepareBuffers, bufferVars
  <2> QED
    BY <1>0, <2>1, <2>2 DEF Geometry, RequestsAligned, SegmentFor
<1>4. CASE OpenBackendFails \/ SubmitFails \/ Destructor
  <2>1. ~Running' /\ pc' \notin {"fill", "overrun"}
    BY <1>4 DEF OpenBackendFails, SubmitFails, Destructor, DestroyBuffers, DestroyBackend, Running
  <2> QED
    BY <2>1 DEF Geometry, RequestsAligned
<1>5. CASE CloseShard
  <2>1. ~open' /\ pc' = "loop"
    BY <1>5 DEF CloseShard, CloseWith
  <2> QED
    BY <2>1 DEF Geometry, RequestsAligned
<1>6. ASSUME NEW s \in Slots, FillOne(s) PROVE Geometry' /\ RequestsAligned'
  <2> DEFINE remaining == window_end - next_offset
             length == RequestLength(remaining)
             request == [slot |-> s, offset |-> next_offset, length |-> length]
  <2>1. /\ UNCHANGED <<next, open, window_end, block, segment>> /\ open /\ pc = "fill"
        /\ next_offset < window_end /\ next <= Len(shards) /\ pc' = "fill"
        /\ requests' = Append(requests, request)
        /\ next_offset' = next_offset + Min2(length, remaining)
    BY <1>6 DEF FillOne, FillMore, bufferVars, Places
  <2>2. /\ block = shards[next].block /\ segment = SegmentFor(block)
        /\ shards[next].offset % block = 0 => next_offset % block = 0
    BY <2>1 DEF Geometry, Running
  <2>3. block \in Nat \ {0} /\ segment \in Nat /\ segment % block = 0
    BY <2>1, <2>2, SegmentFacts
  <2>4. next_offset \in Nat /\ window_end \in Nat /\ remaining \in Nat \ {0}
    BY <2>1 DEF TypeOK
  <2>5. length \in 1 .. segment /\ length % block = 0
    BY <1>6, <2>3, <2>4, RequestFacts DEF FillOne
  <2> HIDE DEF length
  <2>6. request \in RequestType /\ request.offset = next_offset /\ request.length = length
    BY <2>3, <2>4, <2>5 DEF RequestType
  <2> HIDE DEF request
  <2>7. /\ DOMAIN requests' = 1 .. Len(requests) + 1 /\ DOMAIN requests = 1 .. Len(requests)
        /\ \A i \in 1 .. Len(requests) : requests'[i] = requests[i]
        /\ requests'[Len(requests) + 1] = request /\ Len(requests) \in Nat
    BY <2>1, <2>6, SlotFacts, AppendProperties, LenProperties
  <2>8. Geometry'
    <3>1. CASE length >= remaining
      <4>1. next_offset' = window_end
        BY <2>1, <2>3, <2>4, <2>5, <3>1 DEF Min2
      <4>2. ~(next_offset' < window_end')
        BY <2>1, <2>4, <4>1
      <4> QED
        BY <1>0, <2>1, <2>2, <4>2 DEF Geometry, SegmentFor
    <3>2. CASE length < remaining
      <4>1. next_offset' = next_offset + length /\ length \in Nat
        BY <2>1, <2>5, <3>2 DEF Min2
      <4>2. next_offset % block = 0 => next_offset' % block = 0
        BY <2>3, <2>4, <2>5, <4>1, SumAligned
      <4> QED
        BY <1>0, <2>1, <2>2, <4>2 DEF Geometry, SegmentFor
    <3> QED
      BY <2>3, <2>4, <2>5, <3>1, <3>2
  <2>9. ASSUME NEW i \in DOMAIN requests'
        PROVE  /\ requests'[i].length \in 1 .. segment
               /\ requests'[i].length % block = 0
               /\ shards[next].offset % block = 0 => requests'[i].offset % block = 0
    <3>1. CASE i \in 1 .. Len(requests)
      BY <2>1, <2>7, <3>1 DEF RequestsAligned
    <3>2. CASE i = Len(requests) + 1
      BY <2>2, <2>5, <2>6, <2>7, <3>2
    <3> QED
      BY <2>7, <3>1, <3>2
  <2> QED
    BY <1>0, <2>1, <2>8, <2>9 DEF RequestsAligned
<1>7. CASE Overrun
  <2>1. /\ pc = "fill" /\ open /\ next_offset < window_end /\ next <= Len(shards)
        /\ RequestLength(window_end - next_offset) > segment
        /\ pc' = "overrun" /\ segment' = segment
    BY <1>7 DEF Overrun, FillMore, bufferVars, Places
  <2>2. window_end - next_offset \in Nat \ {0}
    BY <2>1 DEF TypeOK
  <2>3. block \in Nat \ {0} /\ segment \in Nat /\ segment % block = 0
    BY <2>1, SegmentFacts DEF Geometry, Running
  <2>4. segment = 0
    BY <2>1, <2>2, <2>3, RequestFacts
  <2> QED
    BY <2>1, <2>4 DEF Geometry, RequestsAligned, Running
<1> QED
  BY <1>2, <1>3, <1>4, <1>5, <1>6, <1>7, SubmitFacts DEF Next, Reader, Finished

-----------------------------------------------------------------------------
(* The backend holds the reads of the unfinished entries.                   *)

\* The entries whose reads have been submitted.
Submitted ==
  IF pc = "fill" THEN 1 .. Len(pending) - Len(requests) ELSE 1 .. Len(pending)

Agreed ==
  Running /\ open =>
    /\ \A r \in flight : \E i \in 1 .. Len(pending) : pending[i].slot = r.slot
    /\ \A c \in cq : \E i \in 1 .. Len(pending) : pending[i].slot = c.token
    /\ \A i \in Submitted : ~pending[i].done =>
         (\E r \in flight : r.slot = pending[i].slot) \/ (\E c \in cq : c.token = pending[i].slot)

(* Nothing is pending in the initial state.                                *)
LEMMA InitAgreed == Init => Agreed
BY DEF Init, Agreed

(* Every step keeps the agreement of the entries and the backend.          *)
LEMMA NextAgreed == IInv /\ Agreed /\ [Next]_vars => Agreed'
<1> SUFFICES ASSUME IInv, Agreed, [Next]_vars, Running', open' PROVE Agreed'
  BY DEF Agreed
<1>0. /\ Running /\ Alive /\ TypeOK /\ Places /\ SlotsExclusive /\ Filling /\ Completed
      /\ Len(pending) \in Nat /\ Len(requests) \in Nat /\ DOMAIN pending = 1 .. Len(pending)
      /\ DOMAIN requests = 1 .. Len(requests)
  BY RunningBefore, SlotFacts DEF IInv, Running, Alive
<1>1. CASE \/ Read \/ ReadReturns \/ NothingToSubmit \/ BeginFill \/ UNCHANGED vars
           \/ (\E r \in orphans : CompleteOrphan(r))
  <2>1. UNCHANGED <<open, pending, flight, cq>>
    BY <1>1 DEF Read, ReadReturns, NothingToSubmit, BeginFill, vars, CompleteOrphan, shardVars,
       slotVars, deviceVars
  <2>2. Submitted' = Submitted
    <3>1. CASE NothingToSubmit
      <4>1. pc = "fill" /\ pc' # "fill" /\ Len(requests) = 0
        BY <3>1 DEF NothingToSubmit
      <4> QED
        BY <1>0, <2>1, <4>1 DEF Submitted
    <3>2. CASE BeginFill
      <4>1. pc # "fill" /\ pc' = "fill" /\ Len(requests') = 0
        BY <3>2 DEF BeginFill
      <4> QED
        BY <1>0, <2>1, <4>1 DEF Submitted
    <3>3. CASE Read \/ ReadReturns \/ UNCHANGED vars \/ (\E r \in orphans : CompleteOrphan(r))
      <4>1. requests' = requests /\ (pc' = "fill" <=> pc = "fill")
        BY <3>3 DEF Read, ReadReturns, vars, CompleteOrphan, slotVars
      <4> QED
        BY <2>1, <4>1 DEF Submitted
    <3> QED
      BY <1>1, <3>1, <3>2, <3>3
  <2> QED
    BY <1>0, <2>1, <2>2 DEF Agreed
<1>2. CASE OpenShard
  <2>1. flight' = {} /\ cq' = {} /\ pending' = <<>> /\ pc' # "fill"
    BY <1>0, <1>2 DEF OpenShard, MustOpen, Places
  <2>2. Submitted' = {}
    BY <2>1 DEF Submitted
  <2> QED
    BY <2>1, <2>2 DEF Agreed
<1>3. ASSUME NEW s \in Slots, FillOne(s) PROVE Agreed'
  <2> DEFINE request == [slot |-> s, offset |-> next_offset,
                         length |-> RequestLength(window_end - next_offset)]
             entry == [slot |-> s, offset |-> next_offset, bytes |-> 0, done |-> FALSE]
  <2>1. /\ requests' = Append(requests, request) /\ pending' = Append(pending, entry)
        /\ UNCHANGED <<open, flight, cq>> /\ pc = "fill" /\ pc' = "fill"
    BY <1>3 DEF FillOne, deviceVars
  <2> HIDE DEF request, entry
  <2>2. /\ Len(pending') = Len(pending) + 1 /\ Len(requests') = Len(requests) + 1
        /\ \A i \in 1 .. Len(pending) : pending'[i] = pending[i]
    BY <1>0, <2>1, SlotFacts
  <2>3. Len(requests) <= Len(pending) /\ open
    BY <1>0, <2>1 DEF Filling, Places
  <2>4. Submitted' = Submitted /\ Submitted \subseteq 1 .. Len(pending)
    BY <1>0, <2>1, <2>2, <2>3 DEF Submitted
  <2>5. \A i \in 1 .. Len(pending) : i \in 1 .. Len(pending')
    BY <1>0, <2>2
  <2> QED
    <3> SUFFICES ASSUME Running
                 PROVE  Agreed'
      BY <2>1 DEF Agreed, Running
    <3>1. /\ \A r \in flight : \E i \in 1 .. Len(pending) : pending[i].slot = r.slot
          /\ \A c \in cq : \E i \in 1 .. Len(pending) : pending[i].slot = c.token
          /\ \A i \in Submitted : ~pending[i].done =>
               (\E r \in flight : r.slot = pending[i].slot)
                 \/ (\E c \in cq : c.token = pending[i].slot)
      BY <1>0, <2>3 DEF Agreed
    <3>2. \A i \in 1 .. Len(pending) : i \in 1 .. Len(pending') /\ pending'[i] = pending[i]
      BY <2>2, <2>5
    <3>3. \A i \in Submitted' : i \in Submitted /\ pending'[i] = pending[i]
      BY <2>4, <3>2
    <3>4. \A r \in flight : \E i \in 1 .. Len(pending') : pending'[i].slot = r.slot
      BY <3>1, <3>2
    <3>5. \A c \in cq : \E i \in 1 .. Len(pending') : pending'[i].slot = c.token
      BY <3>1, <3>2
    <3>6. \A i \in Submitted' : ~pending'[i].done =>
            (\E r \in flight : r.slot = pending'[i].slot)
              \/ (\E c \in cq : c.token = pending'[i].slot)
      BY <3>1, <3>3
    <3>7. flight' = flight /\ cq' = cq
      BY <2>1
    <3> QED
      BY <3>4, <3>5, <3>6, <3>7 DEF Agreed
<1>4. CASE Submits
  <2> DEFINE base == Len(pending) - Len(requests)
  <2>1. /\ UNCHANGED <<open, pending, cq>> /\ pc = "fill" /\ pc' = "await" /\ open
        /\ flight' = flight \cup {InFlight(requests[j]) : j \in DOMAIN requests}
    BY <1>0, <1>4 DEF Submits, shardVars, slotVars, Places
  <2>2. /\ Len(requests) <= Len(pending)
        /\ \A j \in 1 .. Len(requests) : pending[base + j].slot = requests[j].slot
    BY <1>0, <2>1 DEF Filling
  <2>3. \A j \in 1 .. Len(requests) : /\ InFlight(requests[j]) \in flight'
                                      /\ InFlight(requests[j]).slot = requests[j].slot
    BY <1>0, <2>1 DEF InFlight
  <2>4. ASSUME NEW r \in flight' PROVE \E i \in 1 .. Len(pending) : pending[i].slot = r.slot
    <3>1. CASE r \in flight
      BY <1>0, <2>1, <3>1 DEF Agreed
    <3>2. ASSUME NEW j \in 1 .. Len(requests), r = InFlight(requests[j])
          PROVE  \E i \in 1 .. Len(pending) : pending[i].slot = r.slot
      <4>1. base + j \in 1 .. Len(pending)
        BY <1>0, <2>2
      <4> QED
        BY <2>2, <2>3, <3>2, <4>1
    <3> QED
      BY <1>0, <2>1, <3>1, <3>2
  <2>5. ASSUME NEW i \in 1 .. Len(pending), ~pending[i].done
        PROVE  (\E r \in flight' : r.slot = pending[i].slot)
                 \/ (\E c \in cq : c.token = pending[i].slot)
    <3>1. CASE i \in 1 .. base
      <4>1. i \in Submitted
        BY <2>1, <3>1 DEF Submitted
      <4> QED
        BY <1>0, <2>1, <2>5, <4>1 DEF Agreed
    <3>2. CASE i \notin 1 .. base
      <4>1. i - base \in 1 .. Len(requests) /\ base + (i - base) = i
        BY <1>0, <2>2, <3>2
      <4>2. pending[i].slot = requests[i - base].slot
        BY <2>2, <4>1
      <4> QED
        BY <2>3, <4>1, <4>2
    <3> QED
      BY <3>1, <3>2
  <2>6. Submitted' = 1 .. Len(pending)
    BY <2>1 DEF Submitted
  <2>7. \A c \in cq : \E i \in 1 .. Len(pending) : pending[i].slot = c.token
    BY <1>0, <2>1 DEF Agreed
  <2> HIDE DEF base
  <2> QED
    BY <2>1, <2>4, <2>5, <2>6, <2>7 DEF Agreed
<1>5. ASSUME NEW c \in cq, Reap(c) PROVE Agreed'
  <2>1. /\ UNCHANGED <<open, flight>> /\ cq' = cq \ {c} /\ pc = "await" /\ open
        /\ pc' # "failed" /\ pc' # "fill"
    BY <1>0, <1>5 DEF Reap, AwaitsFront, shardVars, Places, Running
  <2>2. PICK k \in EntriesOf(c.token) : pending' = [pending EXCEPT ![k] = Finish(pending[k], c)]
    BY <1>5, <2>1 DEF Reap
  <2>3. k \in 1 .. Len(pending) /\ pending[k].slot = c.token
    BY <1>0 DEF EntriesOf
  <2>4. /\ Len(pending') = Len(pending)
        /\ \A i \in 1 .. Len(pending) :
             /\ pending'[i].slot = pending[i].slot
             /\ i = k => pending'[i].done
             /\ i # k => pending'[i] = pending[i]
    BY <1>0, <2>2, <2>3, SlotFacts DEF Finish
  <2>5. \A i \in 1 .. Len(pending) : i # k => pending[i].slot # c.token
    BY <1>0, <2>3 DEF SlotsExclusive
  <2>6. Submitted' = 1 .. Len(pending) /\ Submitted = 1 .. Len(pending)
    BY <2>1, <2>4 DEF Submitted
  <2>7. ASSUME NEW i \in 1 .. Len(pending), ~pending'[i].done
        PROVE  (\E r \in flight : r.slot = pending[i].slot)
                 \/ (\E d \in cq' : d.token = pending[i].slot)
    <3>1. i # k /\ ~pending[i].done
      BY <2>4, <2>7
    <3>2. CASE \E r \in flight : r.slot = pending[i].slot
      BY <3>2
    <3>3. ASSUME NEW d \in cq, d.token = pending[i].slot PROVE d \in cq'
      BY <2>1, <2>5, <3>1, <3>3
    <3> QED
      BY <1>0, <2>1, <2>6, <3>1, <3>2, <3>3 DEF Agreed
  <2>8. /\ \A r \in flight : \E i \in 1 .. Len(pending) : pending[i].slot = r.slot
        /\ \A d \in cq : \E i \in 1 .. Len(pending) : pending[i].slot = d.token
    BY <1>0, <2>1 DEF Agreed
  <2>9. \A r \in flight' : \E i \in 1 .. Len(pending') : pending'[i].slot = r.slot
    BY <2>1, <2>4, <2>8
  <2>10. \A d \in cq' : \E i \in 1 .. Len(pending') : pending'[i].slot = d.token
    BY <2>1, <2>4, <2>8
  <2>11. \A i \in Submitted' : ~pending'[i].done =>
           \/ \E r \in flight' : r.slot = pending'[i].slot
           \/ \E d \in cq' : d.token = pending'[i].slot
    BY <2>1, <2>4, <2>6, <2>7
  <2> QED
    BY <2>9, <2>10, <2>11 DEF Agreed
<1>6. CASE TakeFront
  <2>1. /\ UNCHANGED <<open, flight, cq>> /\ pc = "await" /\ pc' # "fill" /\ open
        /\ pending' = Tail(pending) /\ pending # <<>> /\ pending[1].done
    BY <1>0, <1>6 DEF TakeFront, shardVars, deviceVars, Places
  <2>2. /\ Len(pending) \in Nat \ {0} /\ Len(pending') = Len(pending) - 1
        /\ \A i \in 1 .. Len(pending) - 1 : pending'[i] = pending[i + 1]
    BY <1>0, <2>1, SlotFacts, HeadTailProperties, EmptySeq, LenProperties
  <2>3. ASSUME NEW i \in 1 .. Len(pending), i # 1
        PROVE  \E k \in 1 .. Len(pending') : pending'[k] = pending[i]
    <3>1. i - 1 \in 1 .. Len(pending) - 1 /\ (i - 1) + 1 = i
      BY <2>2, <2>3
    <3> QED
      BY <2>2, <3>1
  <2>4. \A r \in flight : pending[1].slot # r.slot
    BY <1>0, <2>1, <2>2 DEF SlotsExclusive, Places
  <2>5. \A c \in cq : pending[1].slot # c.token
    BY <1>0, <2>1, <2>2 DEF Completed
  <2>6. ASSUME NEW r \in flight PROVE \E k \in 1 .. Len(pending') : pending'[k].slot = r.slot
    <3>1. PICK i \in 1 .. Len(pending) : pending[i].slot = r.slot
      BY <1>0, <2>1 DEF Agreed
    <3>2. i # 1
      BY <2>4, <3>1
    <3>3. PICK k \in 1 .. Len(pending') : pending'[k] = pending[i]
      BY <2>3, <3>2
    <3> QED
      BY <3>1, <3>3
  <2>7. ASSUME NEW c \in cq PROVE \E k \in 1 .. Len(pending') : pending'[k].slot = c.token
    <3>1. PICK i \in 1 .. Len(pending) : pending[i].slot = c.token
      BY <1>0, <2>1 DEF Agreed
    <3>2. i # 1
      BY <2>5, <3>1
    <3>3. PICK k \in 1 .. Len(pending') : pending'[k] = pending[i]
      BY <2>3, <3>2
    <3> QED
      BY <3>1, <3>3
  <2>8. /\ Submitted' = 1 .. Len(pending')
        /\ \A i \in Submitted' : i + 1 \in Submitted /\ pending'[i] = pending[i + 1]
    BY <2>1, <2>2 DEF Submitted
  <2>9. \A i \in Submitted' : ~pending'[i].done =>
          (\E r \in flight : r.slot = pending'[i].slot) \/ (\E c \in cq : c.token = pending'[i].slot)
    BY <1>0, <2>1, <2>8 DEF Agreed
  <2> QED
    BY <2>1, <2>6, <2>9, <2>7 DEF Agreed
<1>7. ASSUME NEW r \in flight, Complete(r) PROVE Agreed'
  <2>1. /\ UNCHANGED <<open, pending, requests, pc>> /\ flight' = flight \ {r} /\ open
    BY <1>0, <1>7 DEF Complete, shardVars, slotVars, Places
  <2>2. PICK o \in Outcomes(r) :
          cq' = cq \cup {[token |-> r.slot, bytes |-> o.bytes, error |-> o.error]}
    BY <1>7 DEF Complete
  <2> DEFINE c == [token |-> r.slot, bytes |-> o.bytes, error |-> o.error]
  <2>3. cq' = cq \cup {c} /\ c.token = r.slot
    BY <2>2
  <2> HIDE DEF c
  <2>4. Submitted' = Submitted
    BY <2>1 DEF Submitted
  <2> QED
    BY <1>0, <2>1, <2>3, <2>4 DEF Agreed
<1> QED
  <2>1. ~(OpenFails \/ Overrun \/ OpenBackendFails \/ SubmitFails \/ ReapFails \/ Destructor
          \/ CloseShard)
    BY DEF OpenFails, Overrun, OpenBackendFails, SubmitFails, ReapFails, Destructor, DestroyBuffers,
       DestroyBackend, CloseShard, CloseWith, Running
  <2> QED
    BY <1>1, <1>2, <1>3, <1>4, <1>5, <1>6, <1>7, <2>1, SubmitFacts
    DEF Next, Reader, Device, Finished

(* Sets that a field tells apart are no larger than the field's values.    *)
LEMMA ImageFacts ==
  ASSUME NEW S, NEW T, IsFiniteSet(T), NEW f,
         f \in [S -> T], \A x, y \in S : f[x] = f[y] => x = y
  PROVE  IsFiniteSet(S) /\ Cardinality(S) <= Cardinality(T)
<1>1. f \in Injection(S, T)
  BY DEF Injection, IsInjective
<1> QED
  BY <1>1, FS_Injection

(* Three sets that share nothing fit beside each other.                    *)
LEMMA ApartFacts ==
  ASSUME NEW U, IsFiniteSet(U), NEW A \in SUBSET U, NEW B \in SUBSET U, NEW C \in SUBSET U,
         A \cap B = {}, (A \cup B) \cap C = {}
  PROVE  /\ IsFiniteSet(A) /\ IsFiniteSet(B) /\ IsFiniteSet(C)
         /\ Cardinality(A) + Cardinality(B) + Cardinality(C) <= Cardinality(U)
<1>1. IsFiniteSet(A) /\ IsFiniteSet(B) /\ IsFiniteSet(C)
  BY FS_Subset
<1>2. IsFiniteSet(A \cup B) /\ Cardinality(A \cup B) = Cardinality(A) + Cardinality(B) - Cardinality({})
  BY <1>1, FS_Union
<1> DEFINE D == A \cup B
<1>3. IsFiniteSet(D) /\ D \cap C = {} /\ D \cup C \in SUBSET U
  BY <1>2
<1> HIDE DEF D
<1>4. IsFiniteSet(D \cup C) /\ Cardinality(D \cup C) = Cardinality(D) + Cardinality(C) - Cardinality({})
  BY <1>1, <1>3, FS_Union
<1>5. Cardinality(D \cup C) <= Cardinality(U)
  BY <1>3, FS_Subset
<1>6. /\ Cardinality(A) \in Nat /\ Cardinality(B) \in Nat /\ Cardinality(C) \in Nat
      /\ Cardinality(D) \in Nat /\ Cardinality(U) \in Nat /\ Cardinality({}) = 0
      /\ Cardinality(D \cup C) \in Nat
  BY <1>1, <1>3, <1>4, FS_CardinalityType, FS_EmptySet
<1>7. Cardinality(D) = Cardinality(A) + Cardinality(B)
  BY <1>2, <1>6 DEF D
<1> QED
  BY <1>1, <1>4, <1>5, <1>6, <1>7

(* submit always has room: the requests and what the backend holds have    *)
(* slots of their own.                                                     *)
LEMMA NeverFull ==
  ASSUME IInv, pc = "fill"
  PROVE  ~QueueFull
<1>0. /\ TypeOK /\ Places /\ SlotsExclusive /\ Filling /\ Completed /\ Alive
      /\ Len(pending) \in Nat /\ Len(requests) \in Nat /\ DOMAIN pending = 1 .. Len(pending)
      /\ DOMAIN requests = 1 .. Len(requests)
      /\ \A r \in flight : r.slot \in Slots /\ r \in Writers
      /\ \A c \in cq : c.token \in Slots
      /\ \A i \in 1 .. Len(requests) : requests[i].slot \in Slots
  BY SlotFacts DEF IInv, Alive, Writers, Places
<1> DEFINE base == Len(pending) - Len(requests)
           inFlight == {r.slot : r \in flight}
           finished == {c.token : c \in cq}
           asked == {requests[i].slot : i \in 1 .. Len(requests)}
<1>1. \A i \in 1 .. Len(requests) :
        /\ base + i \in 1 .. Len(pending) /\ pending[base + i].slot = requests[i].slot
        /\ \A r \in Writers : r.slot # requests[i].slot
        /\ \A c \in cq : c.token # requests[i].slot
  BY <1>0 DEF Filling
<1>2. \A i, j \in 1 .. Len(requests) : requests[i].slot = requests[j].slot => i = j
  <2> SUFFICES ASSUME NEW i \in 1 .. Len(requests), NEW j \in 1 .. Len(requests),
                      requests[i].slot = requests[j].slot
               PROVE  i = j
    OBVIOUS
  <2> HIDE DEF base
  <2>1. /\ base + i \in DOMAIN pending /\ base + j \in DOMAIN pending
        /\ pending[base + i].slot = pending[base + j].slot
    BY <1>0, <1>1
  <2>2. base + i = base + j
    BY <1>0, <2>1 DEF SlotsExclusive
  <2>3. base \in Int /\ i \in Int /\ j \in Int
    BY <1>0 DEF base
  <2> QED
    BY <2>2, <2>3
<1>3. \A r, q \in flight : r.slot = q.slot => r = q
  BY <1>0 DEF SlotsExclusive, Writers
<1>4. \A c, d \in cq : c.token = d.token => c = d
  BY <1>0 DEF Completed
<1>5. \A r \in flight : \A c \in cq : r.slot # c.token
  BY <1>0 DEF Completed
<1>6. /\ inFlight \in SUBSET Slots /\ finished \in SUBSET Slots /\ asked \in SUBSET Slots
      /\ inFlight \cap finished = {} /\ (inFlight \cup finished) \cap asked = {}
  BY <1>0, <1>1, <1>5
<1>7. read_depth \in Nat \ {0} /\ IsFiniteSet(Slots) /\ Cardinality(Slots) = read_depth
  <2>1. read_depth \in Nat \ {0}
    BY <1>0, InputFacts DEF read_depth
  <2> DEFINE last == read_depth - 1
  <2>2. last \in Int /\ 0 \in Int /\ ~(0 > last) /\ last - 0 + 1 = read_depth
    BY <2>1
  <2> HIDE DEF last
  <2>3. IsFiniteSet(0 .. last) /\ Cardinality(0 .. last) = read_depth
    BY <2>2, FS_Interval
  <2> QED
    BY <2>1, <2>3 DEF Slots, last
<1>8. /\ IsFiniteSet(inFlight) /\ IsFiniteSet(finished) /\ IsFiniteSet(asked)
      /\ Cardinality(inFlight) + Cardinality(finished) + Cardinality(asked) <= read_depth
  <2> HIDE DEF inFlight, finished, asked
  <2>1. /\ IsFiniteSet(inFlight) /\ IsFiniteSet(finished) /\ IsFiniteSet(asked)
        /\ Cardinality(inFlight) + Cardinality(finished) + Cardinality(asked)
             <= Cardinality(Slots)
    BY <1>6, <1>7, ApartFacts
  <2> QED
    BY <1>7, <2>1, Zenon
<1>9. IsFiniteSet(flight) /\ Cardinality(flight) <= Cardinality(inFlight)
  <2> DEFINE f == [r \in flight |-> r.slot]
  <2>1. f \in [flight -> inFlight] /\ \A x, y \in flight : f[x] = f[y] => x = y
    BY <1>3
  <2> HIDE DEF f, inFlight
  <2> QED
    BY <1>8, <2>1, ImageFacts
<1>10. IsFiniteSet(cq) /\ Cardinality(cq) <= Cardinality(finished)
  <2> DEFINE f == [c \in cq |-> c.token]
  <2>1. f \in [cq -> finished] /\ \A x, y \in cq : f[x] = f[y] => x = y
    BY <1>4
  <2> HIDE DEF f, finished
  <2> QED
    BY <1>8, <2>1, ImageFacts
<1>11. Len(requests) <= Cardinality(asked)
  <2> DEFINE n == Len(requests)
             f == [i \in 1 .. n |-> requests[i].slot]
  <2>1. f \in [1 .. n -> asked] /\ \A x, y \in 1 .. n : f[x] = f[y] => x = y
    BY <1>2
  <2>2. n \in Nat
    BY <1>0
  <2> HIDE DEF f, asked, n
  <2>3. Cardinality(1 .. n) <= Cardinality(asked)
    BY <1>8, <2>1, ImageFacts
  <2>4. Cardinality(1 .. n) = IF 1 > n THEN 0 ELSE n - 1 + 1
    BY <2>2, FS_Interval
  <2>5. Cardinality(1 .. n) = n
    BY <2>2, <2>4
  <2> QED
    BY <2>3, <2>5 DEF n
<1> HIDE DEF inFlight, finished, asked
<1>12. /\ IsFiniteSet(flight \cup cq)
       /\ Cardinality(flight \cup cq) <= Cardinality(flight) + Cardinality(cq)
  <2>1. /\ IsFiniteSet(flight \cup cq)
        /\ Cardinality(flight \cup cq)
             = Cardinality(flight) + Cardinality(cq) - Cardinality(flight \cap cq)
    BY <1>9, <1>10, FS_Union
  <2>2. IsFiniteSet(flight \cap cq)
    BY <1>9, FS_Subset
  <2>3. Cardinality(flight \cap cq) \in Nat /\ Cardinality(flight) \in Nat /\ Cardinality(cq) \in Nat
    BY <1>9, <1>10, <2>2, FS_CardinalityType
  <2> QED
    BY <2>1, <2>3
<1>13. /\ Cardinality(flight) \in Nat /\ Cardinality(cq) \in Nat /\ Cardinality(flight \cup cq) \in Nat
       /\ Cardinality(inFlight) \in Nat /\ Cardinality(finished) \in Nat /\ Cardinality(asked) \in Nat
  BY <1>8, <1>9, <1>10, <1>12, FS_CardinalityType
<1>14. Cardinality(flight \cup cq) + Len(requests) <= read_depth
  BY <1>0, <1>7, <1>8, <1>9, <1>10, <1>11, <1>12, <1>13
<1> QED
  BY <1>0, <1>7, <1>13, <1>14 DEF QueueFull

-----------------------------------------------------------------------------
(* Buffers outlive the reads of a backend that waits.                       *)

Waiting == ResetWaits => orphans = {}

(* Nothing is in flight in the initial state.                              *)
LEMMA InitWaiting == Init => Waiting
BY DEF Init, Waiting

(* A backend that waits for its reads leaves none behind.                  *)
LEMMA NextWaiting == Waiting /\ [Next]_vars => Waiting'
<1> SUFFICES ASSUME Waiting, [Next]_vars, ResetWaits PROVE orphans' = {}
  BY DEF Waiting
<1>1. orphans = {}
  BY DEF Waiting
<1>2. CASE CloseShard \/ DestroyBackend
  BY <1>1, <1>2 DEF CloseShard, CloseWith, DestroyBackend, ResetDone
<1>3. CASE ~(CloseShard \/ DestroyBackend)
  <2>1. orphans' = orphans
    BY <1>1, <1>3, SubmitFacts DEF Next, Reader, Destructor, Device, Finished, vars,
       deviceVars, Read, ReadReturns, OpenShard, OpenFails, Overrun, OpenBackendFails,
       BeginFill, FillOne, Submits, SubmitFails,
       NothingToSubmit, Reap, ReapFails, TakeFront, DestroyBuffers, Complete, CompleteOrphan
  <2> QED
    BY <1>1, <2>1
<1> QED
  BY <1>2, <1>3

-----------------------------------------------------------------------------
(* What has been submitted and not reaped is what is waited for.           *)
LEMMA AgreedBackend == IInv /\ Agreed => BackendAgrees
<1> SUFFICES ASSUME IInv, Agreed PROVE BackendAgrees
  OBVIOUS
<1>0. /\ TypeOK /\ Places /\ SlotsExclusive /\ Completed /\ DOMAIN pending = 1 .. Len(pending)
  BY SlotFacts DEF IInv
<1>1. ASSUME AwaitsFront
      PROVE  {pending[i].slot : i \in {j \in DOMAIN pending : ~pending[j].done}}
               = {r.slot : r \in flight} \cup {c.token : c \in cq}
  <2>1. Running /\ open /\ Alive /\ Submitted = 1 .. Len(pending)
    BY <1>0, <1>1 DEF AwaitsFront, Running, Alive, Places, Submitted
  <2>2. /\ \A r \in flight : \E i \in 1 .. Len(pending) : pending[i].slot = r.slot /\ ~pending[i].done
        /\ \A c \in cq : \E i \in 1 .. Len(pending) : pending[i].slot = c.token /\ ~pending[i].done
    BY <1>0, <2>1 DEF Agreed, SlotsExclusive, Completed, Places
  <2>3. \A i \in 1 .. Len(pending) : ~pending[i].done =>
          (\E r \in flight : r.slot = pending[i].slot) \/ (\E c \in cq : c.token = pending[i].slot)
    BY <2>1 DEF Agreed
  <2> QED
    BY <1>0, <2>2, <2>3
<1> QED
  BY <1>1, NeverFull DEF BackendAgrees

(* While the stream waits for its front entry, the backend holds the reads  *)
(* of the unfinished entries and nothing else, and submit has room for      *)
(* every request: reap never returns 0 and submit is never full, for every  *)
(* read depth and every order of completion.                                *)
THEOREM BackendInAgreement == Spec => []BackendAgrees
<1>1. Init => Agreed
  BY InitAgreed
<1> QED
  BY <1>1, NextAgreed, AgreedBackend, Invariance, PTL DEF Spec

(* Every request is a number of blocks and fits its buffer, and is at a     *)
(* block boundary if its window starts on one, for every block and segment  *)
(* size; the buffers a request does not fit are those of no bytes, of a     *)
(* segment below a block.                                                   *)
THEOREM RequestsAreAligned == Spec => []RequestsAligned
<1>1. Init => Geometry /\ RequestsAligned
  BY InitGeometry DEF Init, RequestsAligned
<1>2. IInv => TypeOK /\ Places
  BY DEF IInv
<1> QED
  BY <1>1, <1>2, NextGeometry, Invariance, PTL DEF Spec

(* A backend whose reset waits lets prepare_buffers free the buffers of a   *)
(* shard only when nothing can write to them any more.                      *)
THEOREM BuffersAreKept == Spec => []BuffersKept
<1>1. IInv /\ Waiting => BuffersKept
  BY DEF IInv, Places, Alive, Waiting, BuffersKept
<1> QED
  BY <1>1, InitWaiting, NextWaiting, Invariance, PTL DEF Spec

-----------------------------------------------------------------------------
(* An error of read() is never of its own making.                           *)

Sound ==
  ~Disturbed =>
    /\ pc # "failed"
    /\ \A r \in flight : ~Misaligned(r)
    /\ \A c \in cq : ~c.error

(* Nothing is in flight in the initial state.                              *)
LEMMA InitSound == Init => Sound
BY DEF Init, Sound

(* With nothing disturbed no step fails: a shard opens, submit has room, a *)
(* completion has an entry and no error, and the reads asked for start on  *)
(* a block boundary.                                                       *)
LEMMA NextSound ==
  IInv /\ Agreed /\ Geometry /\ RequestsAligned /\ Sound /\ [Next]_vars => Sound'
<1> SUFFICES ASSUME IInv, Agreed, Geometry, RequestsAligned, Sound, [Next]_vars,
                    ~Disturbed'
             PROVE  /\ pc' # "failed"
                    /\ \A r \in flight' : ~Misaligned(r)'
                    /\ \A c \in cq' : ~c.error
  BY DEF Sound
<1>0. /\ shards' = shards /\ options' = options /\ ~Disturbed
      /\ TypeOK /\ Places /\ BackendAgrees
  BY InputsFixed, AgreedBackend DEF Disturbed, SegmentFor, IInv
<1>1. /\ pc # "failed"
      /\ \A r \in flight : ~Misaligned(r)
      /\ \A c \in cq : ~c.error
      /\ \A k \in 1 .. Len(shards) :
           /\ shards[k].exists /\ ~shards[k].faulty
           /\ shards[k].offset % shards[k].block = 0
           /\ SegmentFor(shards[k].block) # 0
  BY <1>0, InputFacts DEF Sound, Disturbed
<1>2. \A r : Misaligned(r)' <=> Misaligned(r)
  BY <1>0 DEF Misaligned
<1>3. ASSUME pc' # "failed", flight' \subseteq flight, cq' \subseteq cq
      PROVE  /\ pc' # "failed"
             /\ \A r \in flight' : ~Misaligned(r)'
             /\ \A c \in cq' : ~c.error
  BY <1>1, <1>2, <1>3
<1>4. CASE Read \/ ReadReturns \/ OpenShard \/ BeginFill \/ (\E s \in Slots : FillOne(s))
             \/ Overrun \/ NothingToSubmit \/ TakeFront \/ CloseShard \/ Destructor
             \/ (\E r \in orphans : CompleteOrphan(r)) \/ UNCHANGED vars
  <2>1. pc' # "failed" /\ flight' \subseteq flight /\ cq' \subseteq cq
    BY <1>1, <1>4 DEF Read, ReadReturns, OpenShard, BeginFill, FillOne, Overrun, NothingToSubmit,
       TakeFront, CloseShard, CloseWith, Destructor, DestroyBuffers, DestroyBackend,
       CompleteOrphan, vars, deviceVars
  <2> QED
    BY <1>3, <2>1
<1>5. CASE OpenFails \/ OpenBackendFails
  <2>1. MustOpen => next \in 1 .. Len(shards)
    BY <1>0, InputFacts DEF MustOpen, TypeOK
  <2> QED
    BY <1>1, <1>5, <2>1 DEF OpenFails, AllocatesNothing, OpenBackendFails
<1>6. CASE Submits
  <2>1. pc = "fill" /\ open /\ pc' = "await" /\ cq' = cq /\ next \in 1 .. Len(shards)
    BY <1>0, <1>6, InputFacts DEF Submits, Places, TypeOK
  <2>2. /\ flight' = flight \cup {InFlight(requests[i]) : i \in DOMAIN requests}
    BY <1>6 DEF Submits
  <2>3. block = shards[next].block /\ shards[next].offset % block = 0
    BY <1>1, <2>1 DEF Geometry, Running
  <2>4. \A i \in DOMAIN requests : requests[i].offset % block = 0
    BY <2>1, <2>3 DEF RequestsAligned
  <2>5. \A i \in DOMAIN requests : ~Misaligned(InFlight(requests[i]))
    BY <2>3, <2>4 DEF Misaligned, InFlight
  <2> QED
    BY <1>1, <1>2, <2>1, <2>2, <2>5
<1>7. CASE SubmitFails
  <2>1. pc = "fill" /\ (shards[next].faulty \/ QueueFull)
    BY <1>7 DEF SubmitFails
  <2>2. next \in 1 .. Len(shards)
    BY <1>0, <2>1, InputFacts DEF Places, TypeOK
  <2> QED
    BY <1>0, <1>1, <2>1, <2>2 DEF BackendAgrees
<1>8. ASSUME NEW c \in cq, Reap(c)
      PROVE  pc' # "failed" /\ flight' \subseteq flight /\ cq' \subseteq cq
  <2>1. /\ AwaitsFront /\ cq' = cq \ {c} /\ flight' = flight
        /\ c.error \/ EntriesOf(c.token) = {} \/ pc' = pc
    BY <1>8 DEF Reap, deviceVars
  <2>2. EntriesOf(c.token) # {}
    BY <1>0, <2>1 DEF BackendAgrees, EntriesOf
  <2> QED
    BY <1>1, <2>1, <2>2
<1>9. CASE ReapFails
  <2>0. AwaitsFront /\ next \in 1 .. Len(shards)
    BY <1>0, <1>9, InputFacts DEF ReapFails, AwaitsFront, Places, TypeOK
  <2>1. AwaitsFront /\ flight = {} /\ cq = {}
    BY <1>1, <1>9, <2>0 DEF ReapFails
  <2>2. 1 \in DOMAIN pending /\ ~pending[1].done
    BY <1>0, <2>1, SlotFacts DEF AwaitsFront, Places
  <2> QED
    BY <1>0, <2>1, <2>2 DEF BackendAgrees
<1>10. ASSUME NEW r \in flight, Complete(r)
       PROVE  pc' # "failed" /\ flight' \subseteq flight /\ (\A c \in cq' : ~c.error)
  <2>1. pc' = pc /\ flight' = flight \ {r}
    BY <1>10 DEF Complete
  <2>2. PICK o \in Outcomes(r) :
          cq' = cq \cup {[token |-> r.slot, bytes |-> o.bytes, error |-> o.error]}
    BY <1>10 DEF Complete
  <2>3. ~o.error
    <3>1. r.sh \in 1 .. Len(shards)
      BY <1>0 DEF Places
    <3> QED
      BY <1>1, <2>2, <3>1 DEF Outcomes
  <2> QED
    BY <1>1, <2>1, <2>2, <2>3
<1> QED
  BY <1>1, <1>2, <1>3, <1>4, <1>5, <1>6, <1>7, <1>8, <1>9, <1>10, SubmitFacts
     DEF Next, Reader, Device, Finished

(* The invariants that keep a stream from failing.                         *)
LEMMA SoundInvariance == Spec => []Sound
<1>1. Init => Agreed /\ Geometry /\ RequestsAligned /\ Sound
  BY InitAgreed, InitGeometry, InitSound DEF Init, RequestsAligned
<1>2. IInv => TypeOK /\ Places
  BY DEF IInv
<1> QED
  BY <1>1, <1>2, NextAgreed, NextGeometry, NextSound, Invariance, PTL DEF Spec

(* If every file is there, every window starts on a block boundary, every  *)
(* segment has a block and no call fails, read() does not fail either, for *)
(* every shard list, depth, geometry and order of completion, and however  *)
(* short reads come back.                                                  *)
THEOREM FailuresHaveCause == Spec => []NeverFailsAlone
<1>1. Sound => NeverFailsAlone
  BY DEF Sound, NeverFailsAlone
<1> QED
  BY <1>1, SoundInvariance, PTL

-----------------------------------------------------------------------------
(* The bytes the stream delivers.                                           *)

\* Where the bytes of pending entry i stop, and how many the file has.
End(i) == IF i = Len(pending) THEN next_offset ELSE pending[i + 1].offset
Clip(i) == Max2(0, Min2(End(i), shards[next].size) - pending[i].offset)

\* The first byte not yet copied, by the window and by the file.
Front == IF pending = <<>> THEN next_offset ELSE pending[1].offset
Position == Max2(shards[next].offset, Min2(Front, shards[next].size))

\* The pending entries follow each other without gaps inside the window.
Ordered ==
  Running /\ open =>
    /\ window_end = shards[next].offset + shards[next].length
    /\ shards[next].exists
    /\ shards[next].offset <= Front /\ next_offset <= window_end
    /\ \A i \in 1 .. Len(pending) : pending[i].offset < End(i) /\ End(i) <= window_end

\* Each read asks for the bytes of its entry.
Asks(i, r) ==
  /\ r.offset = pending[i].offset
  /\ End(i) = r.offset + Min2(r.length, window_end - r.offset)

Asked ==
  Running =>
    /\ \A r \in flight : \A i \in 1 .. Len(pending) :
         pending[i].slot = r.slot => Asks(i, r)
    /\ pc = "fill" => \A i \in 1 .. Len(requests) : \A k \in 1 .. Len(pending) :
         k = Len(pending) - Len(requests) + i => Asks(k, requests[i])

\* A finished read has left the bytes of its entry in the entry's slot.
Holds(i, bytes) ==
  /\ mem[pending[i].slot].sh = next /\ mem[pending[i].slot].at = pending[i].offset
  /\ Min2(bytes, window_end - pending[i].offset) = Clip(i)

Got ==
  Running =>
    \A i \in 1 .. Len(pending) :
      /\ \A c \in cq : c.token = pending[i].slot /\ ~c.error => Holds(i, c.bytes)
      /\ pending[i].done =>
           /\ mem[pending[i].slot].sh = next /\ mem[pending[i].slot].at = pending[i].offset
           /\ pending[i].bytes = Clip(i)

\* Bytes are carried over a batch's end only.
Carried ==
  Running =>
    /\ carry.n > 0 => open /\ (pc = "idle" \/ (pc = "loop" /\ BatchFull))
    /\ pc \in {"fill", "await", "close"} => ~BatchFull

\* What was delivered and what is carried reach up to the front entry.
Streamed ==
  Running =>
    /\ open => /\ Stream!Current <= next
               /\ shards[next].offset <= Stream!Reached(next)
               /\ Stream!Reached(next) + carry.n = Position
               /\ carry.n > 0 => carry.sh = next /\ carry.at = Stream!Reached(next)
    /\ ~open => out = <<>> \/ Stream!Current < next
    /\ \A k \in Stream!Current .. next - 1 : Stream!Exhausted(k)
    /\ pc = "close" => Position >= Stream!ReadableEnd(next)

\* After a short batch there is nothing left; after an empty one read() is
\* not called again.
Ending ==
  /\ lastRet < options.batch_bytes => ~open /\ next > Len(shards) /\ carry.n = 0
  /\ lastRet = 0 => ~Running

-----------------------------------------------------------------------------
(* The entries and the steps that move them.                                *)

(* What the proofs below use of the types.                                 *)
LEMMA EntryFacts ==
  ASSUME TypeOK
  PROVE  /\ next_offset \in Nat /\ window_end \in Nat /\ next \in Nat \ {0}
         /\ next <= Len(shards) + 1
         /\ Len(pending) \in Nat /\ Len(requests) \in Nat
         /\ pending = <<>> <=> Len(pending) = 0
         /\ \A i \in 1 .. Len(pending) :
              /\ pending[i].offset \in Nat /\ pending[i].bytes \in Nat
              /\ pending[i].done \in BOOLEAN /\ pending[i].slot \in Slots
              /\ End(i) \in Nat
         /\ Front \in Nat
         /\ carry.n \in Nat /\ carry.at \in Nat /\ carry.sh \in Nat
         /\ filled \in Nat /\ filled <= options.batch_bytes
         /\ options.batch_bytes \in Nat \ {0}
<1>1. /\ next_offset \in Nat /\ window_end \in Nat /\ Len(shards) \in Nat
      /\ next \in 1 .. Len(shards) + 1 /\ carry \in ExtentType
      /\ filled \in 0 .. options.batch_bytes /\ options.batch_bytes \in Nat \ {0}
  BY InputFacts DEF TypeOK
<1>2. /\ Len(pending) \in Nat /\ Len(requests) \in Nat /\ pending \in Seq(PendingType)
      /\ \A i \in 1 .. Len(pending) : pending[i] \in PendingType
  BY SlotFacts
<1>3. pending = <<>> <=> Len(pending) = 0
  BY <1>2, EmptySeq
<1>4. \A i \in 1 .. Len(pending) :
        /\ pending[i].offset \in Nat /\ pending[i].bytes \in Nat
        /\ pending[i].done \in BOOLEAN /\ pending[i].slot \in Slots
  BY <1>2 DEF PendingType
<1>5. ASSUME NEW i \in 1 .. Len(pending) PROVE End(i) \in Nat
  <2>1. i = Len(pending) \/ i + 1 \in 1 .. Len(pending)
    BY <1>2
  <2> QED
    BY <1>1, <1>4, <2>1 DEF End
<1>6. Front \in Nat
  <2>1. pending # <<>> => 1 \in 1 .. Len(pending)
    BY <1>2, <1>3
  <2> QED
    BY <1>1, <1>4, <2>1 DEF Front
<1>7. carry.n \in Nat /\ carry.at \in Nat /\ carry.sh \in Nat
  BY <1>1 DEF ExtentType
<1>8. next \in Nat \ {0} /\ next <= Len(shards) + 1 /\ filled \in Nat /\ filled <= options.batch_bytes
  BY <1>1
<1> QED
  BY <1>1, <1>2, <1>3, <1>4, <1>5, <1>6, <1>7, <1>8

(* A request that is added asks for the bytes that follow.                 *)
LEMMA FillFacts ==
  ASSUME TypeOK, Places, NEW s \in Slots, FillOne(s)
  PROVE  /\ Len(pending') = Len(pending) + 1 /\ Len(requests') = Len(requests) + 1
         /\ \A i \in 1 .. Len(pending) : pending'[i] = pending[i] /\ End(i)' = End(i)
         /\ pending'[Len(pending) + 1].slot = s
         /\ pending'[Len(pending) + 1].offset = next_offset
         /\ ~pending'[Len(pending) + 1].done
         /\ \A i \in Nat : i = Len(pending) + 1 => End(i)' = next_offset'
         /\ \A i \in 1 .. Len(requests) : requests'[i] = requests[i]
         /\ requests'[Len(requests) + 1].offset = next_offset
         /\ requests'[Len(requests) + 1].length \in Nat \ {0}
         /\ next_offset < window_end
         /\ next_offset' = next_offset
                + Min2(requests'[Len(requests) + 1].length, window_end - next_offset)
         /\ Front' = Front
<1> DEFINE remaining == window_end - next_offset
           length == RequestLength(remaining)
           request == [slot |-> s, offset |-> next_offset, length |-> length]
           entry == [slot |-> s, offset |-> next_offset, bytes |-> 0, done |-> FALSE]
<1>1. /\ next_offset \in Nat /\ window_end \in Nat /\ next_offset < window_end
      /\ remaining \in Nat \ {0} /\ block \in Nat \ {0} /\ segment \in Nat
  <2>1. next_offset < window_end /\ pc = "fill"
    BY DEF FillOne, FillMore
  <2>2. next_offset \in Nat /\ window_end \in Nat /\ block \in Nat /\ segment \in Nat
    BY DEF TypeOK
  <2>3. block > 0
    BY <2>1 DEF Places
  <2> QED
    BY <2>1, <2>2, <2>3
<1>2. length \in Nat \ {0}
  <2>1. Min2(segment, remaining) \in Nat
    BY <1>1 DEF Min2
  <2>2. Min2(segment, remaining) - (Min2(segment, remaining) % block) \in Nat
    BY <1>1, <2>1, ModFacts
  <2> QED
    BY <1>1, <2>2 DEF RequestLength
<1> HIDE DEF length
<1>3. /\ requests' = Append(requests, request) /\ pending' = Append(pending, entry)
      /\ next_offset' = next_offset + Min2(length, remaining)
  BY DEF FillOne, length
<1>4. request \in RequestType /\ entry \in PendingType
  BY <1>1, <1>2 DEF RequestType, PendingType
<1>5. /\ request.offset = next_offset /\ request.length = length
      /\ entry.slot = s /\ entry.offset = next_offset /\ ~entry.done
  OBVIOUS
<1> HIDE DEF request, entry
<1>6. /\ Len(pending') = Len(pending) + 1 /\ Len(pending) \in Nat
      /\ \A i \in 1 .. Len(pending) : pending'[i] = pending[i]
      /\ pending'[Len(pending) + 1] = entry
  BY <1>3, <1>4, SlotFacts, AppendProperties, LenProperties
<1>7. /\ Len(requests') = Len(requests) + 1
      /\ \A i \in 1 .. Len(requests) : requests'[i] = requests[i]
      /\ requests'[Len(requests) + 1] = request
  BY <1>3, <1>4, SlotFacts, AppendProperties, LenProperties
<1>8. ASSUME NEW i \in 1 .. Len(pending) PROVE End(i)' = End(i)
  <2>1. End(i)' = pending'[i + 1].offset
    BY <1>6 DEF End
  <2>2. CASE i = Len(pending)
    BY <1>5, <1>6, <2>1, <2>2 DEF End
  <2>3. CASE i # Len(pending)
    <3>1. i + 1 \in 1 .. Len(pending)
      BY <1>6, <2>3
    <3> QED
      BY <1>6, <2>1, <2>3, <3>1 DEF End
  <2> QED
    BY <2>2, <2>3
<1>9. \A i \in Nat : i = Len(pending) + 1 => End(i)' = next_offset'
  BY <1>6 DEF End
<1>10. Front' = Front
  <2>1. pending' # <<>>
    BY <1>3, <1>4, SlotFacts, AppendProperties
  <2>2. CASE pending = <<>>
    <3>1. Len(pending) = 0
      BY <2>2, EntryFacts
    <3> QED
      BY <1>5, <1>6, <2>1, <2>2, <3>1 DEF Front
  <2>3. CASE pending # <<>>
    <3>1. 1 \in 1 .. Len(pending)
      BY <2>3, EntryFacts
    <3> QED
      BY <1>6, <2>1, <2>3, <3>1 DEF Front
  <2> QED
    BY <2>2, <2>3
<1> QED
  BY <1>1, <1>2, <1>3, <1>5, <1>6, <1>7, <1>8, <1>9, <1>10

(* reap's completion finishes one entry and moves none.                    *)
LEMMA ReapFacts ==
  ASSUME TypeOK, Places, NEW c \in cq, Reap(c), Running'
  PROVE  /\ ~c.error /\ Len(pending') = Len(pending)
         /\ \A i \in 1 .. Len(pending) :
              /\ pending'[i].slot = pending[i].slot
              /\ pending'[i].offset = pending[i].offset
              /\ End(i)' = End(i)
         /\ Front' = Front
         /\ \E i \in 1 .. Len(pending) :
              /\ pending[i].slot = c.token /\ pending'[i] = Finish(pending[i], c)
              /\ \A j \in 1 .. Len(pending) : j # i => pending'[j] = pending[j]
<1>1. pc' # "failed"
  BY DEF Running
<1>2. PICK i \in EntriesOf(c.token) :
        ~c.error /\ pending' = [pending EXCEPT ![i] = Finish(pending[i], c)]
  BY <1>1 DEF Reap
<1>3. i \in 1 .. Len(pending) /\ pending[i].slot = c.token /\ DOMAIN pending = 1 .. Len(pending)
  BY <1>2, SlotFacts DEF EntriesOf
<1>4. /\ Len(pending') = Len(pending) /\ pending'[i] = Finish(pending[i], c)
      /\ \A j \in 1 .. Len(pending) : j # i => pending'[j] = pending[j]
  BY <1>2, <1>3, SlotFacts
<1>5. \A j \in 1 .. Len(pending) :
        pending'[j].slot = pending[j].slot /\ pending'[j].offset = pending[j].offset
  BY <1>4 DEF Finish
<1>6. next_offset' = next_offset
  BY DEF Reap, shardVars
<1>7. \A j \in 1 .. Len(pending) : End(j)' = End(j)
  <2> SUFFICES ASSUME NEW j \in 1 .. Len(pending) PROVE End(j)' = End(j)
    OBVIOUS
  <2>1. j = Len(pending) \/ j + 1 \in 1 .. Len(pending)
    BY EntryFacts
  <2> QED
    BY <1>4, <1>5, <1>6, <2>1 DEF End
<1>8. Front' = Front
  <2>1. pending # <<>> /\ 1 \in 1 .. Len(pending)
    BY <1>3, EntryFacts
  <2>2. pending' # <<>>
    <3>1. Len(pending') # 0
      BY <1>4, <2>1, EntryFacts
    <3> QED
      BY <3>1, EmptySeq
  <2> QED
    BY <1>5, <2>1, <2>2 DEF Front
<1> QED
  BY <1>2, <1>3, <1>4, <1>5, <1>7, <1>8

(* The front entry that is taken is followed by the next one.              *)
LEMMA TakeFacts ==
  ASSUME TypeOK, Places, TakeFront
  PROVE  /\ 1 \in 1 .. Len(pending) /\ Len(pending') = Len(pending) - 1
         /\ \A i \in 1 .. Len(pending) - 1 :
              /\ i \in 1 .. Len(pending) /\ i + 1 \in 1 .. Len(pending)
              /\ pending'[i] = pending[i + 1] /\ End(i)' = End(i + 1)
         /\ Front = pending[1].offset /\ Front' = End(1)
<1>1. pending # <<>> /\ pending' = Tail(pending) /\ next_offset' = next_offset
  BY DEF TakeFront, Places, shardVars
<1>2. /\ Len(pending) \in Nat \ {0} /\ Len(pending') = Len(pending) - 1
      /\ \A i \in 1 .. Len(pending) - 1 : pending'[i] = pending[i + 1]
      /\ pending' \in Seq(PendingType)
  BY <1>1, SlotFacts, HeadTailProperties, EmptySeq, LenProperties
<1>3. ASSUME NEW i \in 1 .. Len(pending) - 1 PROVE End(i)' = End(i + 1)
  <2>1. CASE i = Len(pending) - 1
    <3>1. i = Len(pending') /\ i + 1 = Len(pending)
      BY <1>2, <2>1
    <3> QED
      BY <1>1, <3>1 DEF End
  <2>2. CASE i # Len(pending) - 1
    <3>1. i # Len(pending') /\ i + 1 # Len(pending) /\ i + 1 \in 1 .. Len(pending) - 1
      BY <1>2, <2>2
    <3> QED
      BY <1>2, <3>1 DEF End
  <2> QED
    BY <2>1, <2>2
<1>4. Front = pending[1].offset
  BY <1>1 DEF Front
<1>5. Front' = End(1)
  <2>1. CASE Len(pending) = 1
    <3>1. pending' = <<>>
      BY <1>2, <2>1, EmptySeq
    <3> QED
      BY <1>1, <2>1, <3>1 DEF Front, End
  <2>2. CASE Len(pending) # 1
    <3>1. pending' # <<>> /\ 1 \in 1 .. Len(pending) - 1
      <4>1. Len(pending') # 0
        BY <1>2, <2>2
      <4> QED
        BY <1>2, <2>2, <4>1, EmptySeq
    <3> QED
      BY <1>2, <2>2, <3>1 DEF Front, End
  <2> QED
    BY <2>1, <2>2
<1> QED
  BY <1>2, <1>3, <1>4, <1>5

(* The steps after which read() goes on or can be called again.            *)
LEMMA RunningSteps ==
  ASSUME [Next]_vars, Running'
  PROVE  /\ Running
         /\ \/ UNCHANGED vars
            \/ Read \/ ReadReturns \/ OpenShard \/ BeginFill \/ Submits \/ NothingToSubmit
            \/ TakeFront \/ CloseShard
            \/ \E s \in Slots : FillOne(s)
            \/ \E c \in cq : Reap(c)
            \/ \E r \in flight : Complete(r)
            \/ \E r \in orphans : CompleteOrphan(r)
<1>1. ~(OpenFails \/ Overrun \/ OpenBackendFails \/ SubmitFails \/ ReapFails \/ Destructor)
  BY DEF OpenFails, Overrun, OpenBackendFails, SubmitFails, ReapFails, Destructor, DestroyBuffers,
     DestroyBackend, Running
<1>2. \/ UNCHANGED vars
      \/ Read \/ ReadReturns \/ OpenShard \/ BeginFill \/ Submits \/ NothingToSubmit
      \/ TakeFront \/ CloseShard
      \/ \E s \in Slots : FillOne(s)
      \/ \E c \in cq : Reap(c)
      \/ \E r \in flight : Complete(r)
      \/ \E r \in orphans : CompleteOrphan(r)
  BY <1>1, SubmitFacts DEF Next, Reader, Device, Finished
<1>3. CASE Read \/ ReadReturns \/ OpenShard \/ BeginFill \/ Submits \/ NothingToSubmit
             \/ TakeFront \/ CloseShard \/ (\E s \in Slots : FillOne(s)) \/ (\E c \in cq : Reap(c))
  BY <1>3 DEF Read, ReadReturns, OpenShard, MustOpen, BeginFill, Submits, NothingToSubmit,
     TakeFront, CloseShard, CloseWith, FillOne, Reap, AwaitsFront, Running
<1>4. CASE UNCHANGED vars \/ (\E r \in flight : Complete(r)) \/ (\E r \in orphans : CompleteOrphan(r))
  <2>1. pc' = pc
    BY <1>4 DEF vars, Complete, CompleteOrphan
  <2> QED
    BY <1>4, <2>1 DEF Running
<1> QED
  BY <1>2, <1>3, <1>4

(* Most of them leave the shard and its entries alone.                     *)
LEMMA StillSteps ==
  ASSUME UNCHANGED vars \/ Read \/ ReadReturns \/ BeginFill \/ Submits \/ NothingToSubmit
           \/ (\E r \in flight : Complete(r)) \/ (\E r \in orphans : CompleteOrphan(r))
  PROVE  /\ UNCHANGED <<next, open, window_end, next_offset, pending, shards, options>>
         /\ Front' = Front /\ \A i : End(i)' = End(i)
<1>1. UNCHANGED <<next, open, window_end, next_offset, pending, shards, options>>
  BY DEF vars, inputs, shardVars, slotVars, Read, ReadReturns, BeginFill, Submits,
     NothingToSubmit, Complete, CompleteOrphan
<1> QED
  BY <1>1 DEF Front, End

-----------------------------------------------------------------------------
(* The entries are a partition of what is left of the window.               *)

(* No shard is open in the initial state.                                  *)
LEMMA InitOrdered == Init => Ordered
BY DEF Init, Ordered

(* fill_pipeline continues the entries, await_front takes the first.       *)
LEMMA NextOrdered == TypeOK /\ Places /\ Ordered /\ [Next]_vars => Ordered'
<1> SUFFICES ASSUME TypeOK, Places, Ordered, [Next]_vars, Running', open' PROVE Ordered'
  BY DEF Ordered
<1>0. shards' = shards /\ Running
  BY InputsFixed, RunningSteps
<1>1. CASE UNCHANGED vars \/ Read \/ ReadReturns \/ BeginFill \/ Submits \/ NothingToSubmit
             \/ (\E r \in flight : Complete(r)) \/ (\E r \in orphans : CompleteOrphan(r))
  BY <1>0, <1>1, StillSteps DEF Ordered
<1>2. CASE OpenShard
  <2>1. /\ next \in 1 .. Len(shards) /\ pending = <<>> /\ shards[next].exists
        /\ window_end' = shards[next].offset + shards[next].length
        /\ next_offset' = shards[next].offset /\ next' = next /\ pending' = pending
    BY <1>2 DEF OpenShard, MustOpen, Places, TypeOK
  <2>2. shards[next].offset \in Nat /\ shards[next].length \in Nat
    BY <2>1, InputFacts
  <2>3. Front' = next_offset' /\ 1 .. Len(pending') = {}
    BY <2>1 DEF Front
  <2> QED
    BY <1>0, <2>1, <2>2, <2>3 DEF Ordered
<1>3. ASSUME NEW s \in Slots, FillOne(s) PROVE Ordered'
  <2>a. Len(pending) + 1 \in Nat
    BY EntryFacts
  <2>b. PICK n \in Nat : n = Len(pending) + 1
    BY <2>a
  <2> DEFINE length == requests'[Len(requests) + 1].length
  <2>1. /\ open /\ next' = next /\ window_end' = window_end
    BY <1>3 DEF FillOne, Places
  <2>2. /\ Len(pending') = n /\ Len(pending) \in Nat
        /\ \A i \in 1 .. Len(pending) : pending'[i] = pending[i] /\ End(i)' = End(i)
        /\ pending'[n].offset = next_offset /\ End(n)' = next_offset' /\ Front' = Front
        /\ length \in Nat \ {0} /\ next_offset < window_end
        /\ next_offset' = next_offset + Min2(length, window_end - next_offset)
        /\ next_offset \in Nat /\ window_end \in Nat
    BY <1>3, <2>b, FillFacts, EntryFacts
  <2> HIDE DEF length
  <2>3. next_offset < next_offset' /\ next_offset' <= window_end
    BY <2>2 DEF Min2
  <2>4. \A i \in 1 .. n : i = n \/ i \in 1 .. Len(pending)
    BY <2>b, <2>2
  <2>5. \A i \in 1 .. Len(pending') : pending'[i].offset < End(i)' /\ End(i)' <= window_end
    BY <1>0, <2>1, <2>2, <2>3, <2>4 DEF Ordered
  <2> QED
    BY <1>0, <2>1, <2>2, <2>3, <2>5 DEF Ordered
<1>4. ASSUME NEW c \in cq, Reap(c) PROVE Ordered'
  <2>1. UNCHANGED <<next, open, window_end, next_offset>>
    BY <1>4 DEF Reap, shardVars
  <2> QED
    BY <1>0, <1>4, <2>1, ReapFacts DEF Ordered
<1>5. CASE TakeFront
  <2>1. UNCHANGED <<next, open, window_end, next_offset>>
    BY <1>5 DEF TakeFront, shardVars
  <2>2. next \in 1 .. Len(shards)
    BY <2>1, EntryFacts DEF Places
  <2>3. shards[next].offset \in Nat /\ Front \in Nat /\ End(1) \in Nat
    BY <1>5, <2>2, InputFacts, EntryFacts, TakeFacts
  <2>4. shards[next].offset <= Front'
    BY <1>0, <1>5, <2>1, <2>3, TakeFacts DEF Ordered
  <2>5. \A i \in 1 .. Len(pending') : pending'[i].offset < End(i)' /\ End(i)' <= window_end
    BY <1>0, <1>5, <2>1, TakeFacts DEF Ordered
  <2> QED
    BY <1>0, <2>1, <2>4, <2>5 DEF Ordered
<1>6. CASE CloseShard
  BY <1>6 DEF CloseShard, CloseWith
<1> QED
  BY <1>1, <1>2, <1>3, <1>4, <1>5, <1>6, RunningSteps

-----------------------------------------------------------------------------
(* The backend was asked for the bytes of the entries.                      *)

(* Nothing is asked for in the initial state.                              *)
LEMMA InitAsked == Init => Asked
BY DEF Init, Asked

(* Requests keep their bytes from fill_pipeline to their completion.       *)
LEMMA NextAsked ==
  TypeOK /\ Places /\ SlotsExclusive /\ Filling /\ Asked /\ [Next]_vars => Asked'
<1> SUFFICES ASSUME TypeOK, Places, SlotsExclusive, Filling, Asked, [Next]_vars, Running'
             PROVE  Asked'
  BY DEF Asked
<1>0. shards' = shards /\ Running
  BY InputsFixed, RunningSteps
<1>1. CASE UNCHANGED vars \/ Read \/ ReadReturns \/ BeginFill \/ NothingToSubmit
             \/ (\E r \in flight : Complete(r)) \/ (\E r \in orphans : CompleteOrphan(r))
  <2>1. /\ UNCHANGED <<pending, window_end>> /\ \A i : End(i)' = End(i)
    BY <1>1, StillSteps
  <2>2. flight' \subseteq flight
    BY <1>1 DEF vars, deviceVars, Read, ReadReturns, BeginFill, NothingToSubmit, Complete,
       CompleteOrphan
  <2>3. pc' = "fill" => requests' = <<>> \/ (requests' = requests /\ pc = "fill")
    BY <1>1 DEF vars, slotVars, Read, ReadReturns, BeginFill, NothingToSubmit, Complete,
       CompleteOrphan
  <2>4. \A i, r : Asks(i, r)' = Asks(i, r)
    BY <2>1 DEF Asks
  <2>5. \A r \in flight' : \A i \in 1 .. Len(pending') : pending'[i].slot = r.slot => Asks(i, r)'
    BY <1>0, <2>1, <2>2, <2>4 DEF Asked
  <2>6. CASE pc' = "fill" /\ requests' = <<>>
    <3>1. 1 .. Len(requests') = {}
      BY <2>6
    <3> QED
      BY <2>5, <3>1 DEF Asked
  <2>7. CASE pc' = "fill" /\ requests' = requests /\ pc = "fill"
    <3>1. \A i \in 1 .. Len(requests) : \A k \in 1 .. Len(pending) :
            k = Len(pending) - Len(requests) + i => Asks(k, requests[i])
      BY <1>0, <2>7 DEF Asked
    <3> QED
      BY <2>1, <2>5, <2>7, <3>1 DEF Asked, Asks
  <2> QED
    BY <2>3, <2>5, <2>6, <2>7 DEF Asked
<1>2. CASE OpenShard \/ CloseShard
  <2>1. flight' = {} /\ pc' # "fill"
    BY <1>2 DEF OpenShard, MustOpen, CloseShard, CloseWith, Places
  <2> QED
    BY <2>1 DEF Asked
<1>3. ASSUME NEW s \in Slots, FillOne(s) PROVE Asked'
  <2>1. /\ flight' = flight /\ window_end' = window_end /\ pc = "fill" /\ free[s]
    BY <1>3 DEF FillOne, TakesSlot, deviceVars
  <2>2. /\ Len(pending) \in Nat /\ Len(requests) \in Nat /\ Len(requests) <= Len(pending)
        /\ Len(pending') = Len(pending) + 1 /\ Len(requests') = Len(requests) + 1
    BY <1>3, <2>1, EntryFacts, FillFacts DEF Filling
  <2>3. ASSUME NEW r \in flight', NEW i \in 1 .. Len(pending'), pending'[i].slot = r.slot
        PROVE  Asks(i, r)'
    <3>1. ~free[r.slot]
      BY <1>0, <2>1 DEF SlotsExclusive, Places, Alive
    <3>2. i # Len(pending) + 1
      BY <1>3, <2>1, <2>3, <3>1, FillFacts
    <3>3. i \in 1 .. Len(pending)
      BY <2>2, <3>2
    <3>4. pending'[i] = pending[i] /\ End(i)' = End(i)
      BY <1>3, <3>3, FillFacts
    <3>5. Asks(i, r)
      BY <1>0, <2>1, <2>3, <3>3, <3>4 DEF Asked
    <3> QED
      BY <2>1, <3>4, <3>5 DEF Asks
  <2>4. ASSUME NEW i \in 1 .. Len(requests'), NEW k \in 1 .. Len(pending'),
               k = Len(pending') - Len(requests') + i
        PROVE  Asks(k, requests[i])'
    <3>1. CASE i = Len(requests) + 1
      <4>1. k = Len(pending) + 1 /\ k \in Nat
        BY <2>2, <2>4, <3>1
      <4>2. /\ requests'[i].offset = next_offset /\ pending'[k].offset = next_offset
            /\ End(k)' = next_offset'
            /\ next_offset' = next_offset + Min2(requests'[i].length, window_end - next_offset)
        BY <1>3, <3>1, <4>1, FillFacts
      <4> QED
        BY <2>1, <4>2 DEF Asks
    <3>2. CASE i # Len(requests) + 1
      <4>1. /\ i \in 1 .. Len(requests) /\ k \in 1 .. Len(pending)
            /\ k = Len(pending) - Len(requests) + i
        BY <2>2, <2>4, <3>2
      <4>2. requests'[i] = requests[i] /\ pending'[k] = pending[k] /\ End(k)' = End(k)
        BY <1>3, <4>1, FillFacts
      <4>3. Asks(k, requests[i])
        BY <1>0, <2>1, <4>1 DEF Asked
      <4> QED
        BY <2>1, <4>2, <4>3 DEF Asks
    <3> QED
      BY <3>1, <3>2
  <2> QED
    BY <2>3, <2>4 DEF Asked
<1>4. CASE Submits
  <2>1. /\ UNCHANGED <<pending, window_end>> /\ \A i : End(i)' = End(i)
    BY <1>4, StillSteps
  <2>2. /\ flight' = flight \cup {InFlight(requests[i]) : i \in DOMAIN requests}
        /\ pc = "fill" /\ pc' = "await"
    BY <1>4 DEF Submits
  <2>3. \A i, r : Asks(i, r)' = Asks(i, r)
    BY <2>1 DEF Asks
  <2>4. ASSUME NEW r \in flight', NEW i \in 1 .. Len(pending), pending[i].slot = r.slot
        PROVE  Asks(i, r)
    <3>1. CASE r \in flight
      BY <1>0, <2>4, <3>1 DEF Asked
    <3>2. ASSUME NEW j \in DOMAIN requests, r = InFlight(requests[j]) PROVE Asks(i, r)
      <4>1. /\ j \in 1 .. Len(requests) /\ Len(requests) <= Len(pending)
            /\ Len(pending) \in Nat /\ Len(requests) \in Nat /\ DOMAIN pending = 1 .. Len(pending)
        BY <2>2, SlotFacts DEF Filling
      <4>2. PICK k \in 1 .. Len(pending) : k = Len(pending) - Len(requests) + j
        BY <4>1
      <4>3. pending[k].slot = requests[j].slot
        BY <2>2, <4>2 DEF Filling
      <4>4. r.slot = requests[j].slot /\ r.offset = requests[j].offset /\ r.length = requests[j].length
        BY <3>2 DEF InFlight
      <4>5. i = k
        BY <2>4, <4>1, <4>3, <4>4 DEF SlotsExclusive
      <4>6. Asks(k, requests[j])
        BY <1>0, <2>2, <4>1, <4>2 DEF Asked
      <4> QED
        BY <4>4, <4>5, <4>6 DEF Asks
    <3> QED
      BY <2>2, <3>1, <3>2
  <2> QED
    BY <2>1, <2>2, <2>3, <2>4 DEF Asked
<1>5. ASSUME NEW c \in cq, Reap(c) PROVE Asked'
  <2>1. window_end' = window_end /\ flight' = flight /\ pc' # "fill"
    BY <1>5 DEF Reap, AwaitsFront, shardVars
  <2>2. /\ Len(pending') = Len(pending)
        /\ \A i \in 1 .. Len(pending) :
             /\ pending'[i].slot = pending[i].slot /\ pending'[i].offset = pending[i].offset
             /\ End(i)' = End(i)
    BY <1>5, ReapFacts
  <2> QED
    BY <1>0, <2>1, <2>2 DEF Asked, Asks
<1>6. CASE TakeFront
  <2>1. window_end' = window_end /\ flight' = flight /\ pc' # "fill"
    BY <1>6 DEF TakeFront, shardVars, deviceVars
  <2>2. ASSUME NEW r \in flight, NEW i \in 1 .. Len(pending'), pending'[i].slot = r.slot
        PROVE  Asks(i, r)'
    <3>1. i + 1 \in 1 .. Len(pending) /\ pending'[i] = pending[i + 1] /\ End(i)' = End(i + 1)
      BY <1>6, TakeFacts
    <3>2. Asks(i + 1, r)
      BY <1>0, <2>2, <3>1 DEF Asked
    <3> QED
      BY <2>1, <3>1, <3>2 DEF Asks
  <2> QED
    BY <2>1, <2>2 DEF Asked
<1> QED
  BY <1>1, <1>2, <1>3, <1>4, <1>5, <1>6, RunningSteps

-----------------------------------------------------------------------------
(* A finished read has brought the bytes of its entry that the file has.    *)

(* A read that is not refused brings all the file has of it.               *)
LEMMA ReadFacts ==
  ASSUME ~ShortReads, TypeOK, Places, Running, Ordered, Asked,
         NEW r \in flight, NEW o \in Outcomes(r), ~o.error,
         NEW i \in 1 .. Len(pending), pending[i].slot = r.slot
  PROVE  /\ r.sh = next /\ r.offset = pending[i].offset
         /\ Min2(o.bytes, window_end - pending[i].offset) = Clip(i)
<1>1. r.sh = next /\ next \in 1 .. Len(shards) /\ open
  BY DEF Places, Alive, Running
<1>2. Asks(i, r)
  BY DEF Asked
<1>3. o.bytes = Available(r)
  <2>1. o \in [bytes : {Available(r)}, error : {FALSE}] \/ o = [bytes |-> 0, error |-> TRUE]
    BY DEF Outcomes
  <2>2. o # [bytes |-> 0, error |-> TRUE]
    OBVIOUS
  <2> QED
    BY <2>1, <2>2
<1>4. /\ shards[next].size \in Nat /\ pending[i].offset \in Nat /\ End(i) \in Nat
      /\ window_end \in Nat /\ r.length \in Nat
  BY <1>1, InputFacts, EntryFacts DEF TypeOK, FlightType
<1>5. pending[i].offset < End(i)
  BY <1>1 DEF Ordered
<1>6. /\ r.offset = pending[i].offset
      /\ End(i) = pending[i].offset + Min2(r.length, window_end - pending[i].offset)
  BY <1>2 DEF Asks
<1>7. Min2(Max2(0, Min2(r.length, shards[next].size - pending[i].offset)),
           window_end - pending[i].offset) = Clip(i)
  <2> DEFINE offset == pending[i].offset
             end == End(i)
             size == shards[next].size
             length == r.length
  <2>1. /\ offset \in Nat /\ end \in Nat /\ size \in Nat /\ offset < end
        /\ length \in Nat /\ window_end \in Nat
        /\ end = offset + Min2(length, window_end - offset)
    BY <1>4, <1>5, <1>6
  <2> HIDE DEF offset, end, size, length
  <2>2. Min2(Max2(0, Min2(length, size - offset)), window_end - offset)
          = Max2(0, Min2(end, size) - offset)
    BY <2>1 DEF Min2, Max2
  <2> QED
    BY <2>2 DEF Clip, offset, end, size, length
<1> QED
  BY <1>1, <1>3, <1>6, <1>7 DEF Available

(* Nothing is pending in the initial state.                                *)
LEMMA InitGot == Init => Got
BY DEF Init, Got

(* What a read has left in its slot stays there until it is taken.         *)
LEMMA NextGot ==
  ~ShortReads /\ IInv /\ Ordered /\ Asked /\ Got /\ [Next]_vars => Got'
<1> SUFFICES ASSUME ~ShortReads, IInv, Ordered, Asked, Got, [Next]_vars, Running'
             PROVE  Got'
  BY DEF Got
<1>0. /\ shards' = shards /\ Running /\ Alive
      /\ TypeOK /\ Places /\ SlotsExclusive /\ Completed
  BY InputsFixed, RunningSteps DEF IInv, Running, Alive
<1>1. CASE UNCHANGED vars \/ Read \/ ReadReturns \/ BeginFill \/ NothingToSubmit \/ Submits
  <2>1. UNCHANGED <<next, window_end, pending>> /\ \A i : End(i)' = End(i)
    BY <1>1, StillSteps
  <2>2. UNCHANGED <<mem, cq>>
    BY <1>1 DEF vars, deviceVars, Read, ReadReturns, BeginFill, NothingToSubmit, Submits
  <2> QED
    BY <1>0, <2>1, <2>2 DEF Got, Holds, Clip
<1>2. CASE OpenShard \/ CloseShard
  <2>1. pending' = <<>>
    BY <1>0, <1>2 DEF OpenShard, MustOpen, CloseShard, CloseWith, Places
  <2>2. 1 .. Len(pending') = {}
    BY <2>1
  <2> QED
    BY <2>2 DEF Got
<1>3. ASSUME NEW s \in Slots, FillOne(s) PROVE Got'
  <2>1. /\ UNCHANGED <<next, window_end, mem, cq>> /\ free[s]
    BY <1>3 DEF FillOne, TakesSlot, deviceVars
  <2>2. ASSUME NEW i \in 1 .. Len(pending')
        PROVE  \/ /\ i \in 1 .. Len(pending)
                  /\ pending'[i] = pending[i] /\ End(i)' = End(i)
               \/ pending'[i].slot = s /\ ~pending'[i].done
    <3>1. Len(pending') = Len(pending) + 1 /\ Len(pending) \in Nat
      BY <1>0, <1>3, FillFacts, EntryFacts
    <3>2. i \in 1 .. Len(pending) \/ i = Len(pending) + 1
      BY <3>1
    <3> QED
      BY <1>0, <1>3, <3>2, FillFacts
  <2>3. \A c \in cq : c.token # s
    BY <1>0, <2>1 DEF Completed
  <2> QED
    BY <1>0, <2>1, <2>2, <2>3 DEF Got, Holds, Clip
<1>4. ASSUME NEW c \in cq, Reap(c) PROVE Got'
  <2>1. UNCHANGED <<next, window_end, mem>> /\ cq' = cq \ {c}
    BY <1>4 DEF Reap, shardVars
  <2>2. /\ ~c.error /\ Len(pending') = Len(pending)
        /\ \A i \in 1 .. Len(pending) :
             /\ pending'[i].slot = pending[i].slot /\ pending'[i].offset = pending[i].offset
             /\ End(i)' = End(i)
    BY <1>0, <1>4, ReapFacts
  <2>3. PICK i \in 1 .. Len(pending) :
          /\ pending[i].slot = c.token /\ pending'[i] = Finish(pending[i], c)
          /\ \A j \in 1 .. Len(pending) : j # i => pending'[j] = pending[j]
    BY <1>0, <1>4, ReapFacts
  <2>4. \A j \in 1 .. Len(pending) : Clip(j)' = Clip(j)
    BY <1>0, <2>1, <2>2 DEF Clip
  <2>5. Holds(i, c.bytes)
    BY <1>0, <2>2, <2>3 DEF Got
  <2>6. pending'[i].bytes = Clip(i)
    BY <2>3, <2>5 DEF Finish, Holds
  <2>7. ASSUME NEW j \in 1 .. Len(pending), pending'[j].done
        PROVE  /\ mem[pending[j].slot].sh = next /\ mem[pending[j].slot].at = pending[j].offset
               /\ pending'[j].bytes = Clip(j)
    <3>1. CASE j = i
      BY <2>5, <2>6, <3>1 DEF Holds
    <3>2. CASE j # i
      BY <1>0, <2>3, <2>7, <3>2 DEF Got
    <3> QED
      BY <3>1, <3>2
  <2>8. \A j \in 1 .. Len(pending) : \A d \in cq :
          d.token = pending[j].slot /\ ~d.error => Holds(j, d.bytes)
    BY <1>0 DEF Got
  <2> QED
    BY <2>1, <2>2, <2>4, <2>7, <2>8 DEF Got, Holds
<1>5. CASE TakeFront
  <2>1. UNCHANGED <<next, window_end, mem, cq>>
    BY <1>5 DEF TakeFront, shardVars, deviceVars
  <2>2. \A i \in 1 .. Len(pending') :
          i + 1 \in 1 .. Len(pending) /\ pending'[i] = pending[i + 1] /\ End(i)' = End(i + 1)
    BY <1>0, <1>5, TakeFacts
  <2> QED
    BY <1>0, <2>1, <2>2 DEF Got, Holds, Clip
<1>6. ASSUME NEW r \in flight, Complete(r) PROVE Got'
  <2>1. UNCHANGED <<next, window_end, pending>> /\ \A i : End(i)' = End(i)
    BY <1>6, StillSteps
  <2>2. PICK o \in Outcomes(r) :
          /\ Writes(r, o.bytes)
          /\ cq' = cq \cup {[token |-> r.slot, bytes |-> o.bytes, error |-> o.error]}
    BY <1>6 DEF Complete
  <2> DEFINE c == [token |-> r.slot, bytes |-> o.bytes, error |-> o.error]
  <2>3. cq' = cq \cup {c} /\ c.token = r.slot /\ c.bytes = o.bytes /\ c.error = o.error
    BY <2>2
  <2> HIDE DEF c
  <2>4. r \in Writers
    BY <1>0 DEF Writers, Places
  <2>5. /\ mem'[r.slot].sh = r.sh /\ mem'[r.slot].at = r.offset
        /\ \A s \in Slots : s # r.slot => mem'[s] = mem[s]
    BY <1>0, <2>2, <2>4, SlotFacts DEF Writes, Writers, TypeOK
  <2>6. ASSUME NEW i \in 1 .. Len(pending), NEW d \in cq', d.token = pending[i].slot, ~d.error
        PROVE  Holds(i, d.bytes)'
    <3>1. CASE d = c
      <4>1. /\ r.sh = next /\ r.offset = pending[i].offset
            /\ Min2(o.bytes, window_end - pending[i].offset) = Clip(i)
        BY <1>0, <2>3, <2>6, <3>1, ReadFacts
      <4>2. pending[i].slot = r.slot /\ d.bytes = o.bytes
        BY <2>3, <2>6, <3>1
      <4> QED
        BY <1>0, <2>1, <2>5, <4>1, <4>2 DEF Holds, Clip
    <3>2. CASE d \in cq
      <4>1. r.slot # d.token /\ d.token \in Slots
        BY <1>0, <2>4, <3>2, SlotFacts DEF Completed
      <4>2. Holds(i, d.bytes)
        BY <1>0, <2>6, <3>2 DEF Got
      <4> QED
        BY <1>0, <2>1, <2>5, <2>6, <4>1, <4>2 DEF Holds, Clip
    <3> QED
      BY <2>3, <3>1, <3>2
  <2>7. ASSUME NEW i \in 1 .. Len(pending), pending[i].done
        PROVE  /\ mem'[pending[i].slot].sh = next
               /\ mem'[pending[i].slot].at = pending[i].offset
               /\ pending[i].bytes = Clip(i)
    <3>1. pending[i].slot # r.slot /\ pending[i].slot \in Slots
      BY <1>0, <2>4, <2>7, SlotFacts DEF SlotsExclusive, Writers
    <3> QED
      BY <1>0, <2>5, <2>7, <3>1 DEF Got
  <2> QED
    BY <1>0, <2>1, <2>6, <2>7 DEF Got, Clip
<1>7. ASSUME NEW r \in orphans, CompleteOrphan(r) PROVE Got'
  <2>1. UNCHANGED <<next, window_end, pending>> /\ \A i : End(i)' = End(i)
    BY <1>7, StillSteps
  <2>2. cq' = cq /\ \E o \in Outcomes(r) : Writes(r, o.bytes)
    BY <1>7 DEF CompleteOrphan
  <2>3. \A s \in Slots : s # r.slot => mem'[s] = mem[s]
    BY <1>0, <2>2 DEF Writes, TypeOK
  <2>4. r.gen # gen => mem' = mem
    BY <2>2 DEF Writes
  <2>5. r.gen = gen => r \in Writers
    BY DEF Writers
  <2>6. ASSUME NEW i \in 1 .. Len(pending), NEW c \in cq, c.token = pending[i].slot
        PROVE  mem'[pending[i].slot] = mem[pending[i].slot]
    BY <1>0, <2>3, <2>4, <2>5, <2>6, SlotFacts DEF Completed
  <2>7. ASSUME NEW i \in 1 .. Len(pending), pending[i].done
        PROVE  mem'[pending[i].slot] = mem[pending[i].slot]
    BY <1>0, <2>3, <2>4, <2>5, <2>7, SlotFacts DEF SlotsExclusive, Writers
  <2> QED
    BY <1>0, <2>1, <2>2, <2>6, <2>7 DEF Got, Holds, Clip
<1> QED
  BY <1>1, <1>2, <1>3, <1>4, <1>5, <1>6, <1>7, RunningSteps

-----------------------------------------------------------------------------
(* Batches.                                                                 *)

(* Reading carried bytes, and taking an entry.                             *)
LEMMA BatchFacts ==
  ASSUME TypeOK, Places
  PROVE  /\ Read => \E n \in Nat :
              /\ out' = Copied(out, Prefix(carry, n)) /\ carry' = Rest(carry, n)
              /\ filled' = n /\ carry'.n = carry.n - n
              /\ n = options.batch_bytes \/ n = carry.n
              /\ n = 0 => carry.n = 0
         /\ TakeFront => \E n \in Nat, e \in ExtentType :
              /\ e = Prefix(mem[pending[1].slot], pending[1].bytes)
              /\ out' = Copied(out, Prefix(e, n)) /\ filled' = filled + n
              /\ n <= pending[1].bytes
              /\ n = pending[1].bytes => carry' = carry
              /\ n < pending[1].bytes => /\ carry' = Rest(e, n) /\ pc' = "loop"
                                         /\ filled' = options.batch_bytes
              /\ n = 0 /\ ~BatchFull => pending[1].bytes = 0
              /\ pc' = IF pending[1].bytes = 0 THEN "close" ELSE "loop"
<1>1. ASSUME Read
      PROVE  \E n \in Nat :
              /\ out' = Copied(out, Prefix(carry, n)) /\ carry' = Rest(carry, n)
              /\ filled' = n /\ carry'.n = carry.n - n
              /\ n = options.batch_bytes \/ n = carry.n
              /\ n = 0 => carry.n = 0
  <2> DEFINE n == Min2(carry.n, options.batch_bytes)
  <2>1. /\ out' = Copied(out, Prefix(carry, n)) /\ carry' = Rest(carry, n) /\ filled' = n
    BY <1>1 DEF Read
  <2>2. n \in Nat /\ (n = options.batch_bytes \/ n = carry.n) /\ (n = 0 => carry.n = 0)
    BY EntryFacts DEF Min2
  <2>3. carry'.n = carry.n - n
    BY <2>1 DEF Rest
  <2> HIDE DEF n
  <2> QED
    BY <2>1, <2>2, <2>3
<1>2. ASSUME TakeFront
      PROVE  \E n \in Nat, e \in ExtentType :
              /\ e = Prefix(mem[pending[1].slot], pending[1].bytes)
              /\ out' = Copied(out, Prefix(e, n)) /\ filled' = filled + n
              /\ n <= pending[1].bytes
              /\ n = pending[1].bytes => carry' = carry
              /\ n < pending[1].bytes => /\ carry' = Rest(e, n) /\ pc' = "loop"
                                         /\ filled' = options.batch_bytes
              /\ n = 0 /\ ~BatchFull => pending[1].bytes = 0
              /\ pc' = IF pending[1].bytes = 0 THEN "close" ELSE "loop"
  <2> DEFINE bytes == pending[1].bytes
             n == TakeLength(pending[1])
             e == Prefix(mem[pending[1].slot], pending[1].bytes)
  <2>1. /\ out' = Copied(out, Prefix(e, n)) /\ filled' = filled + n
        /\ carry' = IF bytes > n THEN Rest(e, n) ELSE carry
        /\ pc' = IF bytes = 0 THEN "close" ELSE "loop"
    BY <1>2 DEF TakeFront
  <2>2. bytes \in Nat /\ pending[1].slot \in Slots
    BY <1>2, TakeFacts, EntryFacts
  <2>3. mem[pending[1].slot] \in ExtentType
    BY <2>2 DEF TypeOK
  <2>4. e \in ExtentType
    BY <2>2, <2>3, ExtentFacts
  <2>5. n = Min2(options.batch_bytes - filled, bytes)
    BY DEF TakeLength
  <2> HIDE DEF n, e, bytes
  <2>6. /\ n \in Nat /\ n <= bytes /\ (n < bytes => n = options.batch_bytes - filled)
        /\ (n = 0 /\ filled # options.batch_bytes => bytes = 0)
    <3>1. /\ filled \in Nat /\ options.batch_bytes \in Nat /\ filled <= options.batch_bytes
          /\ bytes \in Nat
      BY <2>2, EntryFacts
    <3> DEFINE room == options.batch_bytes - filled
    <3>2. room \in Nat /\ (filled # options.batch_bytes => room # 0)
      BY <3>1
    <3>3. n = Min2(room, bytes)
      BY <2>5
    <3> HIDE DEF room
    <3>4. /\ n \in Nat /\ n <= bytes /\ (n < bytes => n = room)
          /\ (n = 0 /\ room # 0 => bytes = 0)
      BY <3>1, <3>2, <3>3 DEF Min2
    <3> QED
      BY <3>2, <3>4 DEF room
  <2>7. n < bytes => /\ carry' = Rest(e, n) /\ pc' = "loop"
                     /\ filled' = options.batch_bytes
    <3> SUFFICES ASSUME n < bytes PROVE /\ carry' = Rest(e, n) /\ pc' = "loop"
                                        /\ filled' = options.batch_bytes
      OBVIOUS
    <3>1. bytes > n /\ bytes # 0
      BY <2>2, <2>6
    <3>2. filled + n = options.batch_bytes
      BY <2>6, EntryFacts
    <3> QED
      BY <2>1, <3>1, <3>2
  <2>8. n = bytes => carry' = carry
    BY <2>1, <2>2
  <2>9. /\ e \in ExtentType /\ n \in Nat /\ e = Prefix(mem[pending[1].slot], bytes)
        /\ n = 0 /\ ~BatchFull => bytes = 0
    BY <2>4, <2>6 DEF BatchFull, e, bytes
  <2> HIDE DEF BatchFull
  <2>10. n <= bytes
    BY <2>6
  <2> QED
    BY <2>1, <2>7, <2>8, <2>9, <2>10 DEF bytes
<1> QED
  BY <1>1, <1>2

(* Nothing is carried in the initial state.                                *)
LEMMA InitCarried == Init => Carried
BY DEF Init, Carried, NoBytes

(* flush_carry empties the carry before the pipeline is filled.            *)
LEMMA NextCarried == TypeOK /\ Places /\ Carried /\ [Next]_vars => Carried'
<1> SUFFICES ASSUME TypeOK, Places, Carried, [Next]_vars, Running' PROVE Carried'
  BY DEF Carried
<1>0. options' = options /\ Running /\ carry.n \in Nat
  BY InputsFixed, RunningSteps, EntryFacts
<1>1. CASE Read
  <2>1. PICK n \in Nat :
          /\ filled' = n /\ carry'.n = carry.n - n
          /\ n = options.batch_bytes \/ n = carry.n
    BY <1>1, BatchFacts
  <2>2. open' = open /\ pc' = "loop"
    BY <1>1 DEF Read, shardVars
  <2>3. carry'.n > 0 => carry.n > 0 /\ n = options.batch_bytes
    BY <1>0, <2>1
  <2> QED
    BY <1>0, <2>1, <2>2, <2>3 DEF Carried, BatchFull
<1>2. CASE ReadReturns
  BY <1>0, <1>2 DEF ReadReturns, Carried, Running, shardVars
<1>3. CASE OpenShard \/ BeginFill
  <2>1. pc = "loop" /\ ~BatchFull /\ UNCHANGED <<carry, filled>>
    BY <1>3 DEF OpenShard, MustOpen, BeginFill, batchVars
  <2> QED
    BY <1>0, <2>1 DEF Carried, BatchFull
<1>4. CASE Submits \/ NothingToSubmit \/ (\E s \in Slots : FillOne(s)) \/ (\E c \in cq : Reap(c))
             \/ CloseShard
  <2>1. pc \in {"fill", "await", "close"} /\ UNCHANGED <<carry, filled>>
    BY <1>4 DEF Submits, NothingToSubmit, FillOne, Reap, AwaitsFront, CloseShard, CloseWith,
       batchVars
  <2> QED
    BY <1>0, <2>1 DEF Carried, BatchFull
<1>5. CASE TakeFront
  <2> DEFINE bytes == pending[1].bytes
  <2>1. PICK n \in Nat, e \in ExtentType :
          /\ filled' = filled + n /\ n <= bytes
          /\ n = bytes => carry' = carry
          /\ n < bytes => pc' = "loop" /\ filled' = options.batch_bytes
          /\ pc' = IF bytes = 0 THEN "close" ELSE "loop"
    BY <1>5, BatchFacts
  <2>2. pc = "await" /\ open' = open /\ open
    BY <1>5 DEF TakeFront, shardVars, Places
  <2>3. bytes \in Nat /\ filled \in Nat
    BY <1>5, TakeFacts, EntryFacts
  <2>4. ~BatchFull /\ carry.n = 0
    BY <1>0, <2>2 DEF Carried
  <2> HIDE DEF bytes
  <2>5. pc' = "close" => ~BatchFull'
    <3> SUFFICES ASSUME pc' = "close" PROVE ~BatchFull'
      OBVIOUS
    <3>1. bytes = 0
      BY <2>1
    <3>2. n = 0
      BY <2>1, <2>3, <3>1
    <3>3. filled' = filled
      BY <2>1, <2>3, <3>2
    <3> QED
      BY <1>0, <2>4, <3>3 DEF BatchFull
  <2>6. carry'.n > 0 => pc' = "loop" /\ BatchFull'
    <3>1. n < bytes \/ n = bytes
      BY <2>1, <2>3
    <3> QED
      BY <1>0, <2>1, <2>4, <3>1 DEF BatchFull
  <2>7. pc' \in {"close", "loop"}
    BY <2>1
  <2> QED
    BY <2>2, <2>5, <2>6, <2>7 DEF Carried
<1>6. CASE UNCHANGED vars \/ (\E r \in flight : Complete(r)) \/ (\E r \in orphans : CompleteOrphan(r))
  <2>1. UNCHANGED <<pc, open, carry, filled>>
    BY <1>6 DEF vars, shardVars, batchVars, Complete, CompleteOrphan
  <2> QED
    BY <1>0, <2>1 DEF Carried, BatchFull
<1> QED
  BY <1>1, <1>2, <1>3, <1>4, <1>5, <1>6, RunningSteps

-----------------------------------------------------------------------------
(* The end of the stream.                                                   *)

(* No batch has been returned in the initial state.                        *)
LEMMA InitEnding == Init => Ending
<1> SUFFICES ASSUME Init PROVE Ending
  OBVIOUS
<1>1. options.batch_bytes \in Nat \ {0} /\ lastRet = options.batch_bytes
  BY InitTypeOK, InputFacts DEF Init
<1> QED
  BY <1>1 DEF Ending

(* After a short batch, read() finds nothing more.                         *)
LEMMA NextEnding == TypeOK /\ Places /\ Carried /\ Ending /\ [Next]_vars => Ending'
<1> SUFFICES ASSUME TypeOK, Places, Carried, Ending, [Next]_vars PROVE Ending'
  OBVIOUS
<1>0. /\ options' = options /\ shards' = shards /\ carry.n \in Nat
      /\ Running' => Running
      /\ next \in Nat /\ Len(shards) \in Nat /\ options.batch_bytes \in Nat
      /\ filled \in Nat /\ filled <= options.batch_bytes
      /\ lastRet \in Nat /\ lastRet <= options.batch_bytes
  <2>1. options' = options /\ shards' = shards /\ (Running' => Running)
    BY InputsFixed, RunningSteps
  <2>2. lastRet \in 0 .. options.batch_bytes
    BY DEF TypeOK
  <2>3. /\ carry.n \in Nat /\ next \in Nat /\ options.batch_bytes \in Nat
        /\ filled \in Nat /\ filled <= options.batch_bytes
    BY EntryFacts
  <2>4. Len(shards) \in Nat
    BY InputFacts
  <2> QED
    BY <2>1, <2>2, <2>3, <2>4
<1>1. CASE ReadReturns
  <2>1. /\ UNCHANGED <<next, open, carry>> /\ lastRet' = filled /\ pc = "loop"
        /\ (BatchFull \/ StreamDone) /\ pc' = IF filled = 0 THEN "end" ELSE "idle"
    BY <1>1 DEF ReadReturns, shardVars
  <2>2. lastRet' < options.batch_bytes => ~open /\ next > Len(shards)
    BY <1>0, <2>1 DEF BatchFull, StreamDone
  <2>3. ~open => carry.n = 0
    BY <1>0, <2>1 DEF Carried, Running
  <2>4. lastRet' = 0 => ~Running'
    BY <1>1, <2>1 DEF ReadReturns, Running
  <2> QED
    BY <1>0, <2>1, <2>2, <2>3, <2>4 DEF Ending
<1>2. CASE Read
  <2>1. UNCHANGED <<next, open, lastRet>>
    BY <1>2 DEF Read, shardVars
  <2>2. lastRet < options.batch_bytes => carry.n = 0 /\ carry'.n = 0
    <3> SUFFICES ASSUME lastRet < options.batch_bytes PROVE carry.n = 0 /\ carry'.n = 0
      OBVIOUS
    <3>1. carry.n = 0
      BY DEF Ending
    <3>2. filled' = Min2(carry.n, options.batch_bytes) /\ carry' = Rest(carry, Min2(carry.n, options.batch_bytes))
      BY <1>2 DEF Read
    <3>3. Min2(carry.n, options.batch_bytes) = 0
      BY <1>0, <3>1 DEF Min2
    <3> QED
      BY <3>1, <3>2, <3>3 DEF Rest
  <2> QED
    BY <1>0, <2>1, <2>2 DEF Ending
<1>3. CASE OpenShard
  <2>1. next <= Len(shards) /\ lastRet' = lastRet
    BY <1>3 DEF OpenShard, MustOpen, batchVars
  <2>2. ~(lastRet < options.batch_bytes)
    BY <1>0, <2>1 DEF Ending
  <2> QED
    BY <1>0, <2>1, <2>2 DEF Ending
<1>4. CASE TakeFront \/ CloseShard
  <2>1. open /\ lastRet' = lastRet
    BY <1>4 DEF TakeFront, CloseShard, CloseWith, Places, batchVars
  <2>2. ~(lastRet < options.batch_bytes)
    BY <1>0, <2>1 DEF Ending
  <2> QED
    BY <1>0, <2>1, <2>2 DEF Ending
<1>5. CASE \/ UNCHANGED vars \/ OpenFails \/ Overrun \/ OpenBackendFails \/ BeginFill \/ Submits \/ SubmitFails
           \/ NothingToSubmit \/ ReapFails \/ Destructor
           \/ (\E s \in Slots : FillOne(s)) \/ (\E c \in cq : Reap(c))
           \/ (\E r \in flight : Complete(r)) \/ (\E r \in orphans : CompleteOrphan(r))
  <2>1. UNCHANGED <<next, open, carry, lastRet>>
    BY <1>5 DEF vars, shardVars, batchVars, OpenFails, Overrun, OpenBackendFails, BeginFill, Submits,
       SubmitFails, NothingToSubmit, ReapFails, Destructor, DestroyBuffers, DestroyBackend,
       FillOne, Reap, Complete, CompleteOrphan
  <2> QED
    BY <1>0, <2>1 DEF Ending
<1> QED
  BY <1>1, <1>2, <1>3, <1>4, <1>5, SubmitFacts DEF Next, Reader, Device, Finished

-----------------------------------------------------------------------------
(* What is delivered.                                                       *)

(* The numbers of the shard being read.                                    *)
LEMMA PositionFacts ==
  ASSUME TypeOK, next <= Len(shards)
  PROVE  /\ next \in 1 .. Len(shards)
         /\ shards[next].offset \in Nat /\ shards[next].size \in Nat
         /\ shards[next].length \in Nat /\ Front \in Nat /\ Position \in Nat
<1>1. next \in 1 .. Len(shards)
  BY DEF TypeOK
<1>2. /\ shards[next].offset \in Nat /\ shards[next].size \in Nat
      /\ shards[next].length \in Nat /\ Front \in Nat
  BY <1>1, InputFacts, EntryFacts
<1> QED
  BY <1>1, <1>2 DEF Position, Max2, Min2

(* The abstract stream's position is a place in a file.                    *)
LEMMA ReachedFacts ==
  ASSUME TypeOK
  PROVE  /\ Stream!Current \in Nat
         /\ next <= Len(shards) => Stream!Reached(next) \in Nat
         /\ next > Stream!Current /\ next <= Len(shards) =>
              Stream!Reached(next) = shards[next].offset
         /\ out = <<>> => Stream!Reached(next) = shards[next].offset
<1>1. out # <<>> => out[Len(out)] \in ExtentType
  <2>1. out \in Seq(ExtentType)
    BY DEF TypeOK
  <2> QED
    BY <2>1, HeadTailProperties, EmptySeq, LenProperties
<1>2. out # <<>> => out[Len(out)].sh \in Nat /\ out[Len(out)].at \in Nat /\ out[Len(out)].n \in Nat
  BY <1>1 DEF ExtentType
<1>3. Stream!Current \in Nat
  BY <1>2 DEF Stream!Current
<1>4. next <= Len(shards) => Stream!Reached(next) \in Nat
  <2>1. next <= Len(shards) => shards[next].offset \in Nat
    BY PositionFacts
  <2> QED
    BY <1>2, <2>1 DEF Stream!Reached
<1>5. next \in Nat
  BY EntryFacts
<1>6. next > Stream!Current => next # Stream!Current
  BY <1>3, <1>5
<1> QED
  BY <1>3, <1>4, <1>6 DEF Stream!Reached

(* It stays where it is when nothing is copied.                            *)
LEMMA StreamFixed ==
  ASSUME UNCHANGED <<out, shards>>
  PROVE  /\ Stream!Current' = Stream!Current
         /\ \A k : /\ Stream!Exhausted(k)' = Stream!Exhausted(k)
                   /\ Stream!Reached(k)' = Stream!Reached(k)
                   /\ Stream!ReadableEnd(k)' = Stream!ReadableEnd(k)
         /\ next' = next => Stream!Reached(next)' = Stream!Reached(next)
BY DEF Stream!Current, Stream!Exhausted, Stream!Reached, Stream!ReadableEnd

(* Copying n bytes of the shard being read moves it by n.                  *)
LEMMA CopyFacts ==
  ASSUME TypeOK, next <= Len(shards), UNCHANGED <<next, shards>>,
         NEW e \in ExtentType, NEW n \in Nat, out' = Copied(out, Prefix(e, n)),
         Stream!Current <= next,
         n > 0 => e.sh = next /\ e.at = Stream!Reached(next)
  PROVE  /\ n = 0 => out' = out
         /\ n > 0 => /\ out' = Append(out, Prefix(e, n))
                     /\ Len(out') = Len(out) + 1 /\ out'[Len(out) + 1] = Prefix(e, n)
                     /\ Stream!Current' = next
         /\ Stream!Current' <= next
         /\ Stream!Reached(next)' = Stream!Reached(next) + n
<1>1. /\ Prefix(e, n) \in ExtentType /\ Prefix(e, n).n = n
      /\ Prefix(e, n).sh = e.sh /\ Prefix(e, n).at = e.at
  BY ExtentFacts DEF Prefix, ExtentType
<1>2. out \in Seq(ExtentType) /\ next \in Nat /\ Stream!Reached(next) \in Nat
  BY ReachedFacts, EntryFacts DEF TypeOK
<1>3. CASE n = 0
  <2>1. out' = out
    BY <1>1, <1>3 DEF Copied
  <2> QED
    BY <1>2, <1>3, <2>1, StreamFixed
<1>4. CASE n > 0
  <2> DEFINE p == Prefix(e, n)
  <2>1. p \in ExtentType /\ p.n = n /\ p.sh = next /\ p.at = Stream!Reached(next)
    BY <1>1, <1>4
  <2>2. out' = Append(out, p)
    BY <1>1, <1>4 DEF Copied
  <2> HIDE DEF p
  <2>3. /\ Len(out') = Len(out) + 1 /\ out'[Len(out) + 1] = p /\ out' # <<>>
        /\ out'[Len(out')] = p
    BY <1>2, <2>1, <2>2, AppendProperties, LenProperties
  <2>4. Stream!Current' = next
    BY <2>1, <2>3 DEF Stream!Current
  <2>5. Stream!Reached(next)' = p.at + p.n
    BY <2>3, <2>4 DEF Stream!Reached
  <2> QED
    BY <1>2, <1>4, <2>1, <2>2, <2>3, <2>4, <2>5 DEF p
<1> QED
  BY <1>3, <1>4

(* What Read copies follows what was delivered and lies in the window.     *)
LEMMA ReadCopies ==
  ASSUME TypeOK, Places, Ordered, Carried, Streamed, Read
  PROVE  \E n \in Nat :
           /\ out' = Copied(out, Prefix(carry, n)) /\ carry' = Rest(carry, n) /\ filled' = n
           /\ carry'.n = carry.n - n /\ carry'.n \in Nat
           /\ n = 0 => carry.n = 0
           /\ n > 0 => /\ open /\ carry.sh = next /\ carry.at = Stream!Reached(next)
                       /\ carry.at + n <= Stream!ReadableEnd(next)
<1>1. PICK n \in Nat :
        /\ out' = Copied(out, Prefix(carry, n)) /\ carry' = Rest(carry, n) /\ filled' = n
        /\ carry'.n = carry.n - n /\ (n = 0 => carry.n = 0)
        /\ (n = options.batch_bytes \/ n = carry.n)
  BY BatchFacts
<1>2. Running
  BY DEF Read, Running
<1>3. carry.n \in Nat /\ n <= carry.n
  <2>1. n = Min2(carry.n, options.batch_bytes)
    BY <1>1 DEF Read
  <2> QED
    BY <2>1, EntryFacts DEF Min2
<1>4. ASSUME n > 0
      PROVE  /\ open /\ carry.sh = next /\ carry.at = Stream!Reached(next)
             /\ carry.at + n <= Stream!ReadableEnd(next)
  <2>1. open /\ next <= Len(shards) /\ carry.n > 0
    BY <1>2, <1>3, <1>4 DEF Carried, Places
  <2>2. /\ Stream!Reached(next) + carry.n = Position /\ shards[next].offset <= Stream!Reached(next)
        /\ carry.sh = next /\ carry.at = Stream!Reached(next)
    BY <1>2, <2>1 DEF Streamed
  <2>3. Position \in Nat /\ Stream!Reached(next) \in Nat /\ shards[next].offset \in Nat
        /\ Front \in Nat /\ shards[next].size \in Nat /\ shards[next].length \in Nat
        /\ window_end \in Nat
    BY <2>1, PositionFacts, ReachedFacts, EntryFacts
  <2>4. Position <= shards[next].size /\ Position <= Front
    BY <1>3, <2>1, <2>2, <2>3 DEF Position, Max2, Min2
  <2>5. Front <= window_end
    <3>1. CASE pending = <<>>
      BY <1>2, <2>1, <3>1 DEF Front, Ordered
    <3>2. CASE pending # <<>>
      <4>1. 1 \in 1 .. Len(pending)
        BY <3>2, EntryFacts
      <4>2. pending[1].offset < End(1) /\ End(1) <= window_end
        BY <1>2, <2>1, <4>1 DEF Ordered
      <4> QED
        <5>1. pending[1].offset \in Nat /\ End(1) \in Nat
          BY <4>1, EntryFacts
        <5>2. Front = pending[1].offset
          BY <3>2 DEF Front
        <5> QED
          BY <2>3, <4>2, <5>1, <5>2
    <3> QED
      BY <3>1, <3>2
  <2>6. window_end = shards[next].offset + shards[next].length
    BY <1>2, <2>1 DEF Ordered
  <2>7. Position <= Stream!ReadableEnd(next)
    BY <2>3, <2>4, <2>5, <2>6 DEF Stream!ReadableEnd
  <2>8. Stream!ReadableEnd(next) \in Nat
    BY <2>3 DEF Stream!ReadableEnd
  <2> QED
    BY <1>3, <2>1, <2>2, <2>3, <2>7, <2>8
<1> QED
  BY <1>1, <1>3, <1>4

(* So does what TakeFront copies; an entry of no bytes lies behind the end *)
(* of file.                                                                *)
LEMMA TakeCopies ==
  ASSUME TypeOK, Places, Ordered, Got, Carried, Streamed, TakeFront
  PROVE  \E n \in Nat, e \in ExtentType :
           /\ out' = Copied(out, Prefix(e, n))
           /\ n > 0 => /\ e.sh = next /\ e.at = Stream!Reached(next)
                       /\ e.at + n <= Stream!ReadableEnd(next)
           /\ Stream!Reached(next) + n + carry'.n = Position'
           /\ carry'.n > 0 => n > 0 /\ carry'.sh = next /\ carry'.at = Stream!Reached(next) + n
           /\ pc' = "close" => Position' >= Stream!ReadableEnd(next)
<1>1. Running /\ open /\ next <= Len(shards) /\ ~BatchFull /\ carry.n = 0
  BY EntryFacts DEF TakeFront, Running, Places, Carried
<1> DEFINE bytes == pending[1].bytes
           offset == pending[1].offset
           end == End(1)
           size == shards[next].size
           first == shards[next].offset
<1>2. PICK n \in Nat, e \in ExtentType :
        /\ e = Prefix(mem[pending[1].slot], bytes)
        /\ out' = Copied(out, Prefix(e, n))
        /\ n <= bytes /\ (n = bytes => carry' = carry)
        /\ (n < bytes => carry' = Rest(e, n))
        /\ (n = 0 => bytes = 0)
        /\ pc' = IF bytes = 0 THEN "close" ELSE "loop"
  BY <1>1, BatchFacts
<1>3. /\ 1 \in 1 .. Len(pending) /\ Front = offset /\ Front' = end /\ pending[1].done
  BY TakeFacts DEF TakeFront
<1>4. /\ mem[pending[1].slot].sh = next /\ mem[pending[1].slot].at = offset
      /\ bytes = Max2(0, Min2(end, size) - offset)
  BY <1>1, <1>3 DEF Got, Clip
<1>5. e.sh = next /\ e.at = offset /\ e.n = bytes
  BY <1>2, <1>4, ExtentFacts DEF Prefix, ExtentType
<1>6. /\ bytes \in Nat /\ offset \in Nat /\ end \in Nat /\ size \in Nat /\ first \in Nat
      /\ window_end \in Nat /\ Stream!Reached(next) \in Nat /\ shards[next].length \in Nat
  BY <1>1, <1>3, EntryFacts, PositionFacts, ReachedFacts
<1>7. /\ offset < end /\ end <= window_end /\ first <= offset
      /\ window_end = first + shards[next].length
  BY <1>1, <1>3 DEF Ordered
<1>8. Stream!Reached(next) = Max2(first, Min2(offset, size))
  BY <1>1, <1>3, <1>6 DEF Streamed, Position
<1>9. Position' = Max2(first, Min2(end, size))
  <2>1. next' = next /\ shards' = shards
    BY DEF TakeFront, shardVars, inputs
  <2> QED
    BY <1>3, <2>1 DEF Position
<1>10. Stream!ReadableEnd(next) = Min2(size, window_end)
  BY <1>7 DEF Stream!ReadableEnd, Min2
<1> HIDE DEF bytes, offset, end, size, first
<1>11. CASE bytes = 0
  <2>1. n = 0 /\ carry' = carry
    BY <1>2, <1>6, <1>11
  <2>2. size <= offset
    BY <1>4, <1>6, <1>7, <1>11 DEF Min2, Max2
  <2>3. Position' = Stream!Reached(next) /\ Position' >= Stream!ReadableEnd(next)
    BY <1>6, <1>7, <1>8, <1>9, <1>10, <2>2 DEF Min2, Max2
  <2> QED
    BY <1>1, <1>2, <1>6, <2>1, <2>3
<1>12. CASE bytes # 0
  <2>1. n > 0 /\ n <= bytes /\ pc' # "close"
    BY <1>2, <1>6, <1>12
  <2>2. bytes = Min2(end, size) - offset /\ offset < size
    BY <1>4, <1>6, <1>7, <1>12 DEF Min2, Max2
  <2>3. Stream!Reached(next) = offset
    BY <1>6, <1>7, <1>8, <2>2 DEF Min2, Max2
  <2>4. Position' = offset + bytes
    BY <1>6, <1>7, <1>9, <2>2 DEF Min2, Max2
  <2>5. offset + bytes <= Stream!ReadableEnd(next) /\ Stream!ReadableEnd(next) \in Nat
    BY <1>6, <1>7, <1>10, <2>2 DEF Min2
  <2>6. offset + n <= Stream!ReadableEnd(next)
    BY <1>6, <2>1, <2>5
  <2>7. CASE n = bytes
    BY <1>1, <1>2, <1>5, <1>6, <2>1, <2>3, <2>4, <2>6, <2>7
  <2>8. CASE n < bytes
    <3>1. carry' = Rest(e, n)
      BY <1>2, <2>8
    <3>2. carry'.sh = next /\ carry'.at = offset + n /\ carry'.n = bytes - n
      BY <1>5, <3>1 DEF Rest
    <3>3. offset + n + (bytes - n) = offset + bytes
      BY <1>6
    <3> QED
      BY <1>2, <1>5, <2>1, <2>3, <2>4, <2>6, <3>2, <3>3
  <2> QED
    BY <1>6, <2>1, <2>7, <2>8
<1> QED
  BY <1>11, <1>12

(* Nothing is delivered in the initial state.                              *)
LEMMA InitStreamed == Init => Streamed
<1> SUFFICES ASSUME Init PROVE Streamed
  OBVIOUS
<1>1. out = <<>> /\ next = 1 /\ open = FALSE /\ pc = "idle"
  BY DEF Init
<1>2. Stream!Current = 1
  BY <1>1 DEF Stream!Current
<1>3. 1 .. next - 1 = {}
  BY <1>1
<1> QED
  BY <1>1, <1>2, <1>3 DEF Streamed

(* Every step delivers the bytes that follow, or none.                     *)
LEMMA NextStreamed ==
  TypeOK /\ Places /\ Supplied /\ Ordered /\ Got /\ Carried /\ Streamed /\ [Next]_vars
    => Streamed'
<1> SUFFICES ASSUME TypeOK, Places, Supplied, Ordered, Got, Carried, Streamed, [Next]_vars,
                    Running'
             PROVE  Streamed'
  BY DEF Streamed
<1>0. /\ shards' = shards /\ options' = options /\ Running
      /\ Stream!Current \in Nat /\ next \in Nat
  BY InputsFixed, RunningSteps, ReachedFacts, EntryFacts
<1>1. CASE \/ UNCHANGED vars \/ ReadReturns \/ BeginFill \/ Submits \/ NothingToSubmit
           \/ (\E s \in Slots : FillOne(s)) \/ (\E c \in cq : Reap(c))
           \/ (\E r \in flight : Complete(r)) \/ (\E r \in orphans : CompleteOrphan(r))
  <2>1. UNCHANGED <<next, open, carry, out, shards>>
    BY <1>0, <1>1 DEF vars, shardVars, batchVars, ReadReturns, BeginFill, Submits,
       NothingToSubmit, FillOne, Reap, Complete, CompleteOrphan
  <2>2. Front' = Front
    BY <1>1, StillSteps, FillFacts, ReapFacts
  <2>3. Position' = Position
    BY <2>1, <2>2 DEF Position
  <2>4. pc' = "close" => Position >= Stream!ReadableEnd(next)
    <3>1. CASE NothingToSubmit /\ pc' = "close"
      <4>1. /\ pc = "fill" /\ open /\ pending = <<>> /\ requests = <<>> /\ ~FillMore
        BY <3>1 DEF NothingToSubmit, Places
      <4>2. next <= Len(shards) /\ \E s \in Slots : free[s]
        BY <4>1 DEF Places, Supplied, NeverStarved
      <4>3. Len(pending) = 0 /\ Len(requests) = 0 /\ read_depth \in Nat \ {0}
        BY <4>1, InputFacts DEF read_depth
      <4>4. ~(next_offset < window_end)
        BY <4>1, <4>2, <4>3 DEF FillMore
      <4>5. /\ next_offset <= window_end
            /\ window_end = shards[next].offset + shards[next].length
        BY <1>0, <4>1 DEF Ordered
      <4>6. Front = window_end
        BY <4>1, <4>4, <4>5, EntryFacts DEF Front
      <4> QED
        BY <4>2, <4>5, <4>6, PositionFacts DEF Position, Stream!ReadableEnd, Max2, Min2
    <3>2. CASE pc' = "close" /\ pc = "close"
      BY <1>0, <3>2 DEF Streamed
    <3>3. pc' = "close" => pc = "close" \/ NothingToSubmit
      BY <1>1 DEF vars, ReadReturns, BeginFill, Submits, FillOne, Reap, AwaitsFront, Complete,
         CompleteOrphan
    <3> QED
      BY <3>1, <3>2, <3>3
  <2> QED
    BY <1>0, <2>1, <2>3, <2>4, StreamFixed DEF Streamed
<1>2. CASE OpenShard
  <2>1. /\ ~open /\ open' /\ next <= Len(shards) /\ pc' = "loop" /\ pending' = <<>>
        /\ UNCHANGED <<next, carry, out>> /\ next_offset' = shards[next].offset
    BY <1>2 DEF OpenShard, MustOpen, Places, batchVars
  <2>2. carry.n = 0 /\ (out = <<>> \/ Stream!Current < next)
    BY <1>0, <2>1, EntryFacts DEF Carried, Streamed
  <2>3. Stream!Current <= next /\ Stream!Reached(next) = shards[next].offset
    <3>1. CASE out = <<>>
      BY <1>0, <3>1, ReachedFacts, EntryFacts DEF Stream!Current
    <3>2. CASE Stream!Current < next
      BY <1>0, <2>1, <3>2, ReachedFacts
    <3> QED
      BY <2>2, <3>1, <3>2
  <2>4. Position' = shards[next].offset
    <3>1. Front' = shards[next].offset
      BY <2>1 DEF Front
    <3>2. Position' = Max2(shards[next].offset, Min2(shards[next].offset, shards[next].size))
      BY <1>0, <2>1, <3>1 DEF Position
    <3> QED
      BY <2>1, <3>2, PositionFacts DEF Max2, Min2
  <2>5. /\ Stream!Current' = Stream!Current /\ Stream!Reached(next)' = Stream!Reached(next)
        /\ \A k : Stream!Exhausted(k)' = Stream!Exhausted(k)
    BY <1>0, <2>1, StreamFixed
  <2>6. \A k \in Stream!Current .. next - 1 : Stream!Exhausted(k)
    BY <1>0 DEF Streamed
  <2>7. shards[next].offset \in Nat
    BY <2>1, PositionFacts
  <2> QED
    BY <1>0, <2>1, <2>2, <2>3, <2>4, <2>5, <2>6, <2>7 DEF Streamed
<1>3. CASE Read
  <2>1. PICK n \in Nat :
          /\ out' = Copied(out, Prefix(carry, n)) /\ carry' = Rest(carry, n)
          /\ carry'.n = carry.n - n /\ carry'.n \in Nat
          /\ n = 0 => carry.n = 0
          /\ n > 0 => open /\ carry.sh = next /\ carry.at = Stream!Reached(next)
    BY <1>3, ReadCopies
  <2>2. UNCHANGED <<next, open>> /\ pc' = "loop" /\ Position' = Position
    <3>1. UNCHANGED <<next, open>> /\ pc' = "loop"
      BY <1>3 DEF Read, shardVars
    <3> QED
      BY <1>0, <1>3, <3>1, StillSteps DEF Position
  <2>3. carry \in ExtentType /\ out \in Seq(ExtentType) /\ carry.n \in Nat
    BY EntryFacts DEF TypeOK
  <2>4. CASE open
    <3>1. /\ next <= Len(shards) /\ Stream!Current <= next
          /\ Stream!Reached(next) + carry.n = Position
          /\ shards[next].offset <= Stream!Reached(next)
          /\ \A k \in Stream!Current .. next - 1 : Stream!Exhausted(k)
      BY <1>0, <2>4 DEF Streamed, Places
    <3>2. /\ n = 0 => out' = out
          /\ n > 0 => Stream!Current' = next
          /\ Stream!Current' <= next
          /\ Stream!Reached(next)' = Stream!Reached(next) + n
      BY <1>0, <2>1, <2>2, <2>3, <3>1, CopyFacts
    <3>3. \A k \in Stream!Current' .. next - 1 : Stream!Exhausted(k)'
      <4>1. CASE n = 0
        BY <1>0, <3>1, <3>2, <4>1, StreamFixed
      <4>2. CASE n > 0
        <5>1. next .. next - 1 = {}
          BY <1>0
        <5> QED
          BY <3>2, <4>2, <5>1
      <4> QED
        BY <2>1, <4>1, <4>2
    <3>4. /\ Stream!Reached(next) \in Nat /\ shards[next].offset \in Nat /\ Position \in Nat
      BY <3>1, ReachedFacts, PositionFacts
    <3>5. Stream!Reached(next)' + carry'.n = Position
      BY <2>1, <2>3, <3>1, <3>2, <3>4
    <3>6. shards[next].offset <= Stream!Reached(next)'
      BY <2>1, <3>1, <3>2, <3>4
    <3>7. carry'.n > 0 => carry'.sh = next /\ carry'.at = Stream!Reached(next)'
      <4>1. carry'.n > 0 => n > 0
        BY <2>1, <2>3
      <4>2. carry'.sh = carry.sh /\ carry'.at = carry.at + n
        BY <2>1 DEF Rest
      <4> QED
        BY <2>1, <3>2, <4>1, <4>2
    <3> QED
      BY <1>0, <2>2, <2>4, <3>2, <3>3, <3>5, <3>6, <3>7 DEF Streamed
  <2>5. CASE ~open
    <3>1. n = 0
      BY <2>1, <2>5
    <3>2. out' = out
      <4>1. Prefix(carry, 0).n = 0
        BY <2>3, ExtentFacts
      <4> QED
        BY <2>1, <3>1, <4>1 DEF Copied
    <3> QED
      BY <1>0, <2>2, <2>5, <3>2, StreamFixed DEF Streamed
  <2> QED
    BY <2>4, <2>5
<1>4. CASE TakeFront
  <2>1. PICK n \in Nat, e \in ExtentType :
          /\ out' = Copied(out, Prefix(e, n))
          /\ n > 0 => e.sh = next /\ e.at = Stream!Reached(next)
          /\ Stream!Reached(next) + n + carry'.n = Position'
          /\ carry'.n > 0 => n > 0 /\ carry'.sh = next /\ carry'.at = Stream!Reached(next) + n
          /\ pc' = "close" => Position' >= Stream!ReadableEnd(next)
    BY <1>4, TakeCopies
  <2>2. UNCHANGED <<next, open>> /\ open /\ next <= Len(shards)
    BY <1>4 DEF TakeFront, shardVars, Places
  <2>3. /\ Stream!Current <= next /\ shards[next].offset <= Stream!Reached(next)
        /\ \A k \in Stream!Current .. next - 1 : Stream!Exhausted(k)
    BY <1>0, <2>2 DEF Streamed
  <2>4. /\ n = 0 => out' = out
        /\ n > 0 => Stream!Current' = next
        /\ Stream!Current' <= next
        /\ Stream!Reached(next)' = Stream!Reached(next) + n
    BY <1>0, <2>1, <2>2, <2>3, CopyFacts
  <2>5. \A k \in Stream!Current' .. next - 1 : Stream!Exhausted(k)'
    <3>1. CASE n = 0
      BY <1>0, <2>3, <2>4, <3>1, StreamFixed
    <3>2. CASE n > 0
      <4>1. next .. next - 1 = {}
        BY <1>0
      <4> QED
        BY <2>4, <3>2, <4>1
    <3> QED
      BY <2>1, <3>1, <3>2
  <2>6. Stream!ReadableEnd(next)' = Stream!ReadableEnd(next)
    BY <1>0, <2>2 DEF Stream!ReadableEnd
  <2>7. shards[next].offset <= Stream!Reached(next)'
    <3>1. Stream!Reached(next) \in Nat /\ shards[next].offset \in Nat
      BY <2>2, ReachedFacts, PositionFacts
    <3> QED
      BY <2>3, <2>4, <3>1
  <2>8. Stream!Reached(next)' + carry'.n = Position'
    BY <2>1, <2>4
  <2>9. carry'.n > 0 => carry'.sh = next /\ carry'.at = Stream!Reached(next)'
    BY <2>1, <2>4
  <2> QED
    BY <1>0, <2>1, <2>2, <2>4, <2>5, <2>6, <2>7, <2>8, <2>9 DEF Streamed
<1>5. CASE CloseShard
  <2>1. /\ pc = "close" /\ pc' = "loop" /\ open /\ ~open' /\ next' = next + 1
        /\ UNCHANGED <<carry, out, shards>> /\ next <= Len(shards)
    BY <1>0, <1>5 DEF CloseShard, CloseWith, Places, batchVars
  <2>2. carry.n = 0
    BY <1>0, <2>1, EntryFacts DEF Carried
  <2>3. /\ Stream!Current <= next /\ Stream!Reached(next) + carry.n = Position
        /\ Position >= Stream!ReadableEnd(next) /\ shards[next].exists
        /\ \A k \in Stream!Current .. next - 1 : Stream!Exhausted(k)
    BY <1>0, <2>1 DEF Streamed, Ordered
  <2>4. Stream!Exhausted(next)
    BY <2>1, <2>2, <2>3, ReachedFacts, PositionFacts DEF Stream!Exhausted
  <2>5. \A k \in Stream!Current .. (next + 1) - 1 : Stream!Exhausted(k)
    BY <1>0, <2>3, <2>4
  <2>6. Stream!Current < next + 1
    BY <1>0, <2>3
  <2> QED
    BY <1>0, <2>1, <2>2, <2>5, <2>6, StreamFixed DEF Streamed
<1> QED
  BY <1>1, <1>2, <1>3, <1>4, <1>5, RunningSteps

-----------------------------------------------------------------------------
(* The theorems.                                                            *)

(* Every read() but the last fills its batch, and one that did not is the   *)
(* last to deliver anything: whatever the device does, and also if it reads *)
(* short.                                                                   *)
THEOREM OnlyTheLastIsShort == Spec => OnlyLastShort
<1>1. Spec => [](IInv /\ Carried /\ Ending)
  <2>1. Init => IInv /\ Carried /\ Ending
    BY InitTypeOK, InitPlaces, InitSupplied, InitExclusive, InitCarried, InitEnding DEF IInv
  <2>2. (IInv /\ Carried /\ Ending) /\ [Next]_vars => (IInv /\ Carried /\ Ending)'
    BY NextTypeOK, NextPlaces, NextSupplied, NextExclusive, NextCarried, NextEnding DEF IInv
  <2> QED
    BY <2>1, <2>2, PTL DEF Spec
<1>2. IInv /\ Ending /\ [Next]_vars => [lastRet < options.batch_bytes => out' = out]_vars
  <2> SUFFICES ASSUME TypeOK, Places, Ending, [Next]_vars, lastRet < options.batch_bytes
               PROVE  out' = out
    BY DEF IInv
  <2>1. ~open /\ carry.n = 0
    BY DEF Ending
  <2>2. CASE Read
    <3>1. out' = Copied(out, Prefix(carry, 0))
      <4>1. Min2(carry.n, options.batch_bytes) = 0
        BY <2>1, EntryFacts DEF Min2
      <4> QED
        BY <2>2, <4>1 DEF Read
    <3>2. Prefix(carry, 0).n = 0
      BY ExtentFacts DEF TypeOK
    <3> QED
      BY <3>1, <3>2 DEF Copied
  <2>3. ~TakeFront
    BY <2>1 DEF TakeFront, Places
  <2> QED
    BY <2>2, <2>3, SubmitFacts DEF Next, Reader, Destructor, Device, Finished, vars, batchVars,
       ReadReturns, OpenShard, OpenFails, Overrun, OpenBackendFails, BeginFill, FillOne, Submits,
       SubmitFails, NothingToSubmit, Reap, ReapFails, CloseShard, CloseWith, DestroyBuffers,
       DestroyBackend, Complete, CompleteOrphan
<1> QED
  BY <1>1, <1>2, PTL DEF Spec, OnlyLastShort

OrderInv == Ordered /\ Asked /\ Got /\ Carried /\ Streamed /\ Ending

(* Every step of ShardStream is a step of ByteStream or leaves it alone.   *)
LEMMA NextStream ==
  IInv /\ OrderInv /\ [Next]_vars => [Stream!Next]_(Stream!vars)
<1> SUFFICES ASSUME TypeOK, Places, Ordered, Got, Carried, Streamed, Ending, [Next]_vars
             PROVE  [Stream!Next]_(Stream!vars)
  BY DEF IInv, OrderInv
<1>0. shards' = shards /\ next \in Nat /\ Stream!Current \in Nat
  BY InputsFixed, EntryFacts, ReachedFacts
<1>1. ASSUME NEW n \in Nat, NEW e \in ExtentType, out' = Copied(out, Prefix(e, n)),
             n > 0 => /\ e.sh = next /\ e.at = Stream!Reached(next)
                      /\ e.at + n <= Stream!ReadableEnd(next) /\ open,
             Running, next' = next, lastRet' = lastRet
      PROVE  [Stream!Next]_(Stream!vars)
  <2>1. CASE n = 0
    <3>1. out' = out
      <4>1. Prefix(e, 0).n = 0
        BY ExtentFacts
      <4> QED
        BY <1>1, <2>1, <4>1 DEF Copied
    <3> QED
      BY <1>0, <1>1, <3>1 DEF Stream!vars
  <2>2. CASE n > 0
    <3> DEFINE p == Prefix(e, n)
    <3>1. /\ open /\ next <= Len(shards) /\ Stream!Current <= next /\ lastRet # 0
          /\ \A k \in Stream!Current .. next - 1 : Stream!Exhausted(k)
      BY <1>1, <2>2 DEF Streamed, Ending, Places
    <3>2. /\ out' = Append(out, p) /\ Len(out') = Len(out) + 1 /\ out'[Len(out) + 1] = p
      BY <1>0, <1>1, <2>2, <3>1, CopyFacts
    <3>3. p.sh = e.sh /\ p.at = e.at /\ p.n = n
      BY ExtentFacts DEF Prefix, ExtentType
    <3> HIDE DEF p
    <3>4. p.sh \in Stream!Current .. Len(shards)
      BY <1>0, <1>1, <2>2, <3>1, <3>3, InputFacts
    <3>5. Stream!Deliver(p)
      BY <1>0, <1>1, <2>2, <3>1, <3>2, <3>3, <3>4 DEF Stream!Deliver
    <3> QED
      BY <3>2, <3>5 DEF Stream!Next
  <2> QED
    BY <2>1, <2>2
<1>2. CASE Read
  <2>1. next' = next /\ lastRet' = lastRet /\ Running /\ carry \in ExtentType
    BY <1>2 DEF Read, shardVars, Running, TypeOK
  <2> QED
    BY <1>1, <1>2, <2>1, ReadCopies
<1>3. CASE TakeFront
  <2>1. next' = next /\ lastRet' = lastRet /\ Running /\ open
    BY <1>3 DEF TakeFront, shardVars, Running, Places
  <2> QED
    BY <1>1, <1>3, <2>1, TakeCopies
<1>4. CASE ReadReturns
  <2>1. /\ lastRet' = filled /\ out' = out /\ Running /\ (BatchFull \/ StreamDone)
    BY <1>4 DEF ReadReturns, Running
  <2>2. lastRet # 0
    BY <2>1 DEF Ending
  <2>3. CASE filled # 0
    BY <1>0, <2>1, <2>2, <2>3 DEF Stream!vars
  <2>4. CASE filled = 0
    <3>1. ~open /\ next > Len(shards)
      BY <2>1, <2>4, EntryFacts DEF BatchFull, StreamDone
    <3>2. Len(shards) \in Nat /\ next - 1 = Len(shards)
      <4>1. TypeOK
        BY <1>0, Zenon
      <4>2. Len(shards) \in Nat
        BY <4>1, InputFacts, Zenon
      <4>3. next \in Nat /\ next <= Len(shards) + 1
        BY <4>1, EntryFacts
      <4> QED
        BY <3>1, <4>2, <4>3
    <3>3. \A k \in Stream!Current .. Len(shards) : Stream!Exhausted(k)
      BY <2>1, <3>2 DEF Streamed
    <3> QED
      BY <1>0, <2>1, <2>2, <2>4, <3>3 DEF Stream!Next, Stream!Finish
  <2> QED
    BY <2>3, <2>4
<1>5. CASE ~(Read \/ TakeFront \/ ReadReturns)
  <2>1. out' = out /\ lastRet' = lastRet
    BY <1>5, SubmitFacts DEF Next, Reader, Destructor, Device, Finished, vars, batchVars,
       OpenShard, OpenFails, Overrun, OpenBackendFails, BeginFill, FillOne, Submits,
       SubmitFails, NothingToSubmit, Reap, ReapFails, CloseShard, CloseWith, DestroyBuffers,
       DestroyBackend, Complete, CompleteOrphan
  <2> QED
    BY <1>0, <2>1 DEF Stream!vars
<1> QED
  BY <1>2, <1>3, <1>4, <1>5

(* The inductive invariant, and what it says of the bytes, in every state. *)
LEMMA OrderInvariance ==
  ASSUME ~ShortReads
  PROVE  Spec => [](IInv /\ OrderInv)
<1>1. Init => IInv /\ OrderInv
  BY InitTypeOK, InitPlaces, InitSupplied, InitExclusive, InitOrdered, InitAsked, InitGot,
     InitCarried, InitStreamed, InitEnding DEF IInv, OrderInv
<1>2. (IInv /\ OrderInv) /\ [Next]_vars => (IInv /\ OrderInv)'
  <2> SUFFICES ASSUME IInv, OrderInv, [Next]_vars PROVE (IInv /\ OrderInv)'
    OBVIOUS
  <2>1. IInv'
    BY NextTypeOK, NextPlaces, NextSupplied, NextExclusive DEF IInv
  <2>2. Ordered' /\ Asked' /\ Carried' /\ Ending'
    BY NextOrdered, NextAsked, NextCarried, NextEnding DEF IInv, OrderInv
  <2>3. Got'
    BY NextGot DEF OrderInv
  <2>4. Streamed'
    BY NextStreamed DEF IInv, OrderInv
  <2> QED
    BY <2>1, <2>2, <2>3, <2>4 DEF OrderInv
<1> QED
  BY <1>1, <1>2, PTL DEF Spec

(* As long as reads are not short, ShardStream delivers the bytes of the   *)
(* windows, all of them, once and in order, and announces the end only     *)
(* when nothing is left, for every list of shards and in every order the   *)
(* reads finish.                                                           *)
THEOREM StreamIsContinuous ==
  ASSUME ~ShortReads
  PROVE  Spec => DeliversStream
<1>1. Init => Stream!Init
  BY InitEnding DEF Init, Stream!Init, Ending, Running
<1> QED
  BY <1>1, OrderInvariance, NextStream, PTL DEF Spec, DeliversStream, Stream!Spec

-----------------------------------------------------------------------------
(* What the stream holds and has asked for fits its slots.                  *)

\* A slot's bytes are pending, or those that are carried left its entry.
Room ==
  /\ Len(pending) <= read_depth
  /\ carry.n > 0 => Len(pending) < read_depth
  /\ carry.n <= segment
  /\ \A i \in DOMAIN pending : pending[i].bytes <= segment
  /\ \A r \in flight : r.length <= segment
  /\ \A c \in cq : c.bytes <= segment

(* Nothing is held at first.                                               *)
LEMMA InitRoom == Init => Room
<1> SUFFICES ASSUME Init PROVE Room
  OBVIOUS
<1>1. TypeOK
  BY InitTypeOK
<1>2. /\ pending = <<>> /\ carry = NoBytes /\ flight = {} /\ cq = {}
      /\ segment \in Nat /\ read_depth \in Nat \ {0}
  BY <1>1, InputFacts DEF Init, read_depth
<1>3. Len(pending) = 0 /\ DOMAIN pending = {} /\ carry.n = 0
  BY <1>2 DEF NoBytes
<1> QED
  BY <1>2, <1>3 DEF Room

(* A read brings no more than it asked for.                                *)
LEMMA OutcomeFacts ==
  ASSUME TypeOK, Places, NEW r \in flight \cup orphans, NEW o \in Outcomes(r)
  PROVE  o.bytes \in Nat /\ o.bytes <= r.length
<1>1. r \in FlightType /\ r.sh \in 1 .. Len(shards)
  BY DEF TypeOK, Places
<1>2. r.length \in Nat /\ r.offset \in Nat /\ shards[r.sh].size \in Nat
  BY <1>1, InputFacts DEF FlightType
<1>3. Available(r) \in Nat /\ Available(r) <= r.length
  BY <1>2 DEF Available, Max2, Min2
<1> DEFINE counts == IF ShortReads THEN Min2(1, Available(r)) .. Available(r)
                                  ELSE {Available(r)}
<1>4. /\ counts \in SUBSET Nat
      /\ \A n \in counts : n <= Available(r)
  BY <1>3 DEF Min2
<1>5. \/ o \in [bytes : counts, error : {FALSE}]
      \/ o = [bytes |-> 0, error |-> TRUE]
  <2>1. /\ (IF Misaligned(r) THEN {} ELSE [bytes : counts, error : {FALSE}])
             \subseteq [bytes : counts, error : {FALSE}]
        /\ (IF Misaligned(r) \/ shards[r.sh].faulty THEN {[bytes |-> 0, error |-> TRUE]} ELSE {})
             \subseteq {[bytes |-> 0, error |-> TRUE]}
    OBVIOUS
  <2> HIDE DEF counts
  <2> QED
    BY <2>1 DEF Outcomes, counts
<1> HIDE DEF counts
<1>6. o.bytes = 0 \/ o.bytes \in counts
  <2>1. CASE o \in [bytes : counts, error : {FALSE}]
    BY <2>1
  <2>2. CASE o = [bytes |-> 0, error |-> TRUE]
    BY <2>2
  <2> QED
    BY <1>5, <2>1, <2>2
<1>7. ASSUME NEW n, n = 0 \/ n \in counts
      PROVE  n \in Nat /\ n <= r.length
  <2>1. CASE n = 0
    BY <1>2, <2>1
  <2>2. CASE n \in counts
    <3>1. n \in Nat /\ n <= Available(r)
      BY <1>4, <2>2
    <3> QED
      BY <1>2, <1>3, <3>1
  <2> QED
    BY <1>7, <2>1, <2>2
<1> QED
  BY <1>6, <1>7

(* Only fill_pipeline adds entries, when nothing is carried; and what is   *)
(* carried is the rest of an entry that has left.                          *)
LEMMA NextRoom ==
  TypeOK /\ Places /\ Carried /\ RequestsAligned /\ Room /\ [Next]_vars => Room'
<1> SUFFICES ASSUME TypeOK, Places, Carried, RequestsAligned, Room, [Next]_vars
             PROVE  Room'
  OBVIOUS
<1>0. /\ read_depth' = read_depth /\ read_depth \in Nat \ {0} /\ segment \in Nat
      /\ carry.n \in Nat /\ Len(pending) \in Nat /\ DOMAIN pending = 1 .. Len(pending)
      /\ \A i \in 1 .. Len(pending) : pending[i].bytes \in Nat /\ pending[i].offset \in Nat
      /\ \A c \in cq : c.bytes \in Nat
      /\ window_end \in Nat
  BY InputsFixed, InputFacts, EntryFacts, SlotFacts DEF read_depth, TypeOK, CompletionType
<1>1. CASE \/ UNCHANGED vars \/ ReadReturns \/ OpenFails \/ Overrun \/ BeginFill \/ NothingToSubmit
           \/ ReapFails \/ DestroyBuffers \/ (\E r \in orphans : CompleteOrphan(r))
  <2>1. UNCHANGED <<pending, carry, segment, flight, cq>>
    BY <1>1 DEF vars, slotVars, batchVars, bufferVars, deviceVars, ReadReturns, OpenFails, Overrun,
       BeginFill, NothingToSubmit, ReapFails, DestroyBuffers, CompleteOrphan
  <2> QED
    BY <1>0, <2>1 DEF Room
<1>2. CASE OpenShard \/ OpenBackendFails
  <2>1. /\ UNCHANGED <<pending, carry, flight, cq>> /\ ~open /\ Running
    BY <1>2 DEF OpenShard, OpenBackendFails, MustOpen, batchVars, Running
  <2>2. pending = <<>> /\ flight = {} /\ cq = {} /\ carry.n = 0
    BY <1>0, <2>1 DEF Places, Carried
  <2>3. segment' \in Nat
    BY NextTypeOK DEF TypeOK
  <2>4. Len(pending) = 0 /\ DOMAIN pending = {}
    BY <2>2
  <2> QED
    BY <1>0, <2>1, <2>2, <2>3, <2>4 DEF Room
<1>3. CASE Read
  <2>1. UNCHANGED <<pending, segment, flight, cq>> /\ carry'.n = carry.n - Min2(carry.n, options.batch_bytes)
    BY <1>3 DEF Read, slotVars, bufferVars, deviceVars, Rest
  <2>2. carry'.n <= carry.n
    BY <1>0, <2>1, InputFacts DEF Min2
  <2>3. carry'.n \in Nat
    BY NextTypeOK DEF TypeOK, ExtentType
  <2> QED
    BY <1>0, <2>1, <2>2, <2>3 DEF Room
<1>4. ASSUME NEW s \in Slots, FillOne(s) PROVE Room'
  <2>1. UNCHANGED <<carry, segment, flight, cq>> /\ pc = "fill" /\ FillMore
    BY <1>4 DEF FillOne, batchVars, bufferVars, deviceVars
  <2>2. carry.n = 0
    BY <1>0, <2>1 DEF Carried, Running
  <2>3. Len(pending') = Len(pending) + 1 /\ pending' = Append(pending, pending'[Len(pending) + 1])
        /\ pending'[Len(pending) + 1].bytes = 0
    BY <1>0, <1>4, FillFacts, SlotFacts, AppendProperties DEF FillOne
  <2>4. Len(pending) < read_depth
    BY <1>0, <2>1, SlotFacts DEF FillMore
  <2>5. \A i \in DOMAIN pending' : pending'[i].bytes <= segment
    <3>1. DOMAIN pending' = 1 .. Len(pending) + 1
      BY <1>0, <2>3, NextTypeOK, LenProperties DEF TypeOK
    <3>2. \A i \in 1 .. Len(pending) : pending'[i] = pending[i] /\ pending[i].bytes <= segment
      BY <1>0, <1>4, FillFacts DEF Room
    <3> QED
      BY <1>0, <2>3, <3>1, <3>2
  <2> QED
    BY <1>0, <2>1, <2>2, <2>3, <2>4, <2>5 DEF Room
<1>5. CASE Submits
  <2>1. UNCHANGED <<carry, segment, pending, cq>> /\ pc = "fill"
        /\ flight' = flight \cup {InFlight(requests[i]) : i \in DOMAIN requests}
    BY <1>5 DEF Submits, batchVars, bufferVars, slotVars
  <2>2. \A i \in DOMAIN requests : InFlight(requests[i]).length <= segment
    BY <2>1, <1>0 DEF RequestsAligned, InFlight
  <2> QED
    BY <1>0, <2>1, <2>2 DEF Room
<1>6. CASE SubmitFails
  <2>1. /\ UNCHANGED <<carry, segment, flight, cq>> /\ pc = "fill"
        /\ pending' = SubSeq(pending, 1, Len(pending) - Len(requests))
    BY <1>6 DEF SubmitFails, batchVars, bufferVars, deviceVars
  <2>2. carry.n = 0
    BY <1>0, <2>1 DEF Carried, Running
  <2>3. /\ Len(pending') <= Len(pending) /\ Len(pending') \in Nat
        /\ \A i \in DOMAIN pending' : pending'[i] = pending[i] /\ i \in DOMAIN pending
    <3>1. /\ Len(requests) \in Nat /\ pending' \in Seq(PendingType)
          /\ Len(pending') \in Nat
      <4>1. /\ TypeOK' /\ Slots' = Slots
        BY NextTypeOK, InputsFixed
      <4>2. PendingType' = PendingType
        BY <4>1 DEF PendingType
      <4>3. pending' \in Seq(PendingType)
        BY <4>1, <4>2 DEF TypeOK
      <4> QED
        BY <4>3, SlotFacts, LenProperties
    <3>2. \A i \in 1 .. Len(pending) - Len(requests) : pending[i] \in PendingType
      BY <1>0, <3>1, SlotFacts
    <3>3. /\ Len(pending') = IF 1 <= Len(pending) - Len(requests)
                               THEN Len(pending) - Len(requests) ELSE 0
          /\ \A i \in 1 .. Len(pending) - Len(requests) : pending'[i] = pending[i]
      BY <1>0, <2>1, <3>1, <3>2, SubSeqProperties
    <3>4. DOMAIN pending' = 1 .. Len(pending')
      BY <3>1, LenProperties
    <3>5. Len(pending') <= Len(pending) /\ 1 .. Len(pending') = 1 .. Len(pending) - Len(requests)
      <4>1. Len(pending) \in Nat /\ Len(requests) \in Nat
        BY <1>0, <3>1
      <4>2. CASE 1 <= Len(pending) - Len(requests)
        BY <3>3, <4>1, <4>2
      <4>3. CASE ~(1 <= Len(pending) - Len(requests))
        <5>1. Len(pending') = 0
          BY <3>3, <4>3
        <5> QED
          BY <4>1, <4>3, <5>1
      <4> QED
        BY <4>2, <4>3
    <3>6. \A i \in DOMAIN pending' : i \in 1 .. Len(pending) - Len(requests)
      BY <3>4, <3>5
    <3>7. \A i \in 1 .. Len(pending) - Len(requests) : i \in DOMAIN pending
      BY <1>0, <3>1
    <3> QED
      BY <3>1, <3>3, <3>5, <3>6, <3>7
  <2> QED
    BY <1>0, <2>1, <2>2, <2>3 DEF Room
<1>7. ASSUME NEW c \in cq, Reap(c) PROVE Room'
  <2>1. /\ UNCHANGED <<carry, segment, flight>> /\ cq' = cq \ {c}
        /\ \/ pending' = pending
           \/ \E i \in EntriesOf(c.token) :
                pending' = [pending EXCEPT ![i] = Finish(pending[i], c)]
    BY <1>7 DEF Reap, batchVars, bufferVars
  <2>2. CASE pending' = pending
    BY <1>0, <2>1, <2>2 DEF Room
  <2>3. ASSUME NEW i \in EntriesOf(c.token),
               pending' = [pending EXCEPT ![i] = Finish(pending[i], c)]
        PROVE  Room'
    <3>1. i \in 1 .. Len(pending)
      BY <1>0 DEF EntriesOf
    <3>2. DOMAIN pending' = DOMAIN pending /\ Len(pending') = Len(pending)
      BY <1>0, <2>3, NextTypeOK, LenProperties DEF TypeOK
    <3>3. Finish(pending[i], c).bytes <= c.bytes
      BY <1>0, <3>1 DEF Finish, Min2
    <3>4. \A j \in DOMAIN pending : pending'[j] = IF j = i THEN Finish(pending[i], c) ELSE pending[j]
      BY <2>3
    <3>5. /\ c.bytes <= segment /\ c.bytes \in Nat
          /\ Finish(pending[i], c).bytes \in Int
      BY <1>0, <3>1 DEF Room, Finish, Min2
    <3>6. \A j \in DOMAIN pending' : pending'[j].bytes <= segment
      BY <1>0, <3>2, <3>3, <3>4, <3>5 DEF Room
    <3> QED
      BY <1>0, <2>1, <3>2, <3>6 DEF Room
  <2> QED
    BY <2>1, <2>2, <2>3
<1>8. CASE TakeFront
  <2>1. UNCHANGED <<segment, flight, cq>> /\ pending' = Tail(pending) /\ pc = "await"
    BY <1>8 DEF TakeFront, bufferVars, deviceVars
  <2>2. pending # <<>> /\ carry.n = 0 /\ 1 \in DOMAIN pending
    BY <1>0, <2>1, EntryFacts DEF Places, Carried, Running
  <2>3. /\ Len(pending') = Len(pending) - 1 /\ DOMAIN pending' = 1 .. Len(pending) - 1
        /\ \A i \in 1 .. Len(pending) - 1 : pending'[i] = pending[i + 1]
    BY <1>0, <2>1, <2>2, SlotFacts, NextTypeOK, HeadTailProperties, LenProperties DEF TypeOK
  <2>4. carry'.n <= segment
    <3>1. carry' = carry
            \/ carry'.n = pending[1].bytes - Min2(options.batch_bytes - filled, pending[1].bytes)
      BY <1>8 DEF TakeFront, Rest, Prefix, TakeLength
    <3>2. pending[1].bytes <= segment /\ pending[1].bytes \in Nat
      BY <1>0, <2>2 DEF Room
    <3>3. options.batch_bytes - filled \in Nat
      BY EntryFacts
    <3>4. Min2(options.batch_bytes - filled, pending[1].bytes) \in Nat
      BY <3>2, <3>3 DEF Min2
    <3> QED
      BY <1>0, <2>2, <3>1, <3>2, <3>4
  <2>5. \A i \in DOMAIN pending' : pending'[i].bytes <= segment
    <3>1. \A i \in 1 .. Len(pending) : pending[i].bytes <= segment
      BY <1>0 DEF Room
    <3>2. \A i \in 1 .. Len(pending) - 1 : i + 1 \in 1 .. Len(pending)
      BY <1>0
    <3> QED
      BY <2>1, <2>3, <3>1, <3>2
  <2> QED
    BY <1>0, <2>1, <2>3, <2>4, <2>5 DEF Room
<1>9. CASE CloseShard \/ DestroyBackend
  <2>1. UNCHANGED <<carry, segment>> /\ flight' = {} /\ cq' = {} /\ pending' \in {pending, <<>>}
    BY <1>9 DEF CloseShard, CloseWith, DestroyBackend, batchVars, bufferVars, slotVars
  <2>2. Len(<<>>) = 0 /\ DOMAIN <<>> = {}
    OBVIOUS
  <2>3. Len(pending') <= Len(pending) /\ Len(pending') \in Nat
    BY <1>0, <2>1, <2>2
  <2>4. \A i \in DOMAIN pending' : pending'[i].bytes <= segment
    BY <2>1, <2>2 DEF Room
  <2> QED
    BY <1>0, <2>1, <2>3, <2>4 DEF Room
<1>10. ASSUME NEW r \in flight, Complete(r) PROVE Room'
  <2>1. PICK o \in Outcomes(r) :
          cq' = cq \cup {[token |-> r.slot, bytes |-> o.bytes, error |-> o.error]}
    BY <1>10 DEF Complete
  <2>2. UNCHANGED <<carry, segment, pending>> /\ flight' = flight \ {r}
    BY <1>10 DEF Complete, batchVars, bufferVars, slotVars
  <2>3. o.bytes <= segment
    <3>1. r.length <= segment /\ r.length \in Nat
      BY DEF Room, TypeOK, FlightType
    <3>2. o.bytes \in Nat /\ o.bytes <= r.length
      BY <2>1, OutcomeFacts
    <3> QED
      BY <1>0, <3>1, <3>2
  <2> QED
    BY <1>0, <2>1, <2>2, <2>3 DEF Room
<1> QED
  BY <1>1, <1>2, <1>3, <1>4, <1>5, <1>6, <1>7, <1>8, <1>9, <1>10, SubmitFacts
  DEF Next, Reader, Destructor, Device, Finished

(* A product grows with its first factor.                                  *)
LEMMA TimesFacts ==
  ASSUME NEW a \in Nat, NEW b \in Nat, NEW s \in Nat, a <= b
  PROVE  a * s \in Nat /\ b * s \in Nat /\ a * s <= b * s /\ (a + 1) * s = a * s + s
OBVIOUS

(* So the segments that are pending and the bytes carried over never take  *)
(* more than the slots there are.                                          *)
LEMMA RoomInvariance ==
  Spec => [](carry.n + Len(pending) * segment <= read_depth * segment)
<1>1. Spec => [](IInv /\ Carried /\ Geometry /\ RequestsAligned /\ Room)
  <2>1. Init => IInv /\ Carried /\ Geometry /\ RequestsAligned /\ Room
    BY InitTypeOK, InitPlaces, InitSupplied, InitExclusive, InitCarried, InitGeometry, InitRoom
    DEF IInv, Init, RequestsAligned
  <2>2. /\ IInv /\ Carried /\ Geometry /\ RequestsAligned /\ Room
        /\ [Next]_vars
        => (IInv /\ Carried /\ Geometry /\ RequestsAligned /\ Room)'
    BY NextTypeOK, NextPlaces, NextSupplied, NextExclusive, NextCarried, NextGeometry, NextRoom
    DEF IInv
  <2> QED
    BY <2>1, <2>2, PTL DEF Spec
<1>2. TypeOK /\ Room => carry.n + Len(pending) * segment <= read_depth * segment
  <2> SUFFICES ASSUME TypeOK, Room
               PROVE  carry.n + Len(pending) * segment <= read_depth * segment
    OBVIOUS
  <2>1. /\ read_depth \in Nat /\ segment \in Nat /\ Len(pending) \in Nat /\ carry.n \in Nat
        /\ Len(pending) <= read_depth /\ carry.n <= segment
        /\ carry.n > 0 => Len(pending) + 1 <= read_depth
    <3>1. read_depth \in Nat /\ Len(pending) \in Nat /\ segment \in Nat /\ carry.n \in Nat
      BY InputFacts, EntryFacts DEF read_depth, TypeOK
    <3> QED
      BY <3>1 DEF Room
  <2>2. CASE carry.n = 0
    BY <2>1, <2>2, TimesFacts
  <2>3. CASE carry.n > 0
    <3>1. (Len(pending) + 1) * segment <= read_depth * segment
      BY <2>1, <2>3, TimesFacts
    <3>2. /\ (Len(pending) + 1) * segment = Len(pending) * segment + segment
          /\ Len(pending) * segment \in Nat /\ read_depth * segment \in Nat
      BY <2>1, TimesFacts
    <3> QED
      BY <2>1, <3>1, <3>2
  <2> QED
    BY <2>1, <2>2, <2>3
<1> QED
  BY <1>1, <1>2, PTL DEF IInv
=============================================================================
