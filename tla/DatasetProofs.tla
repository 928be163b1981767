--------------------------- MODULE DatasetProofs ---------------------------
(***************************************************************************)
(* Proofs that for_each_batch, with its ShardStream inside, gives the      *)
(* callback the bytes of the shard set, and how far it reads ahead, for    *)
(* every set of shards, all options with segments of at least a block      *)
(* (SegmentAssumption) and every interleaving of the two threads with the  *)
(* device.                                                                 *)
(*                                                                         *)
(* The proofs about the two components are cited through the instances SP  *)
(* and FP: the stream of a call is a ShardStream (StreamRuns), and, once   *)
(* bytes are counted, the call is a run of the batch pipeline              *)
(* (CallImplementsPipeline).  What is added to their inductive invariants  *)
(* is DInv: what was delivered is a prefix of the set's bytes (Delivered), *)
(* its length is that of the batches made up so far and of the one being   *)
(* filled (Counted), and each batch ends where it should in the set (Cut). *)
(***************************************************************************)
EXTENDS Dataset, SequenceTheorems, WellFoundedInduction, TLAPS

SP == INSTANCE ShardStreamProofs WITH
        options <- StreamOptions(options, segment_bytes),
        Options <- {StreamOptions(o, size) : o \in Options, size \in SegmentSizes},
        free <- slots,
        ShortReads <- FALSE

FP == INSTANCE ForEachBatchProofs WITH Totals <- Nat, ReadMayThrow <- FALSE

(* The constants satisfy what the two components assume of theirs.         *)
LEMMA StreamAssumptions ==
  /\ SP!ShardListsAssumption /\ SP!OptionsAssumption
  /\ SP!SegmentAssumption /\ SP!FlagsAssumption
<1>1. SP!ShardListsAssumption
  BY ShardListsAssumption DEF SP!ShardType, S!ShardType
<1>2. SP!OptionsAssumption
  BY OptionsAssumption, SegmentAssumption DEF SP!OptionsType, StreamOptions
<1>3. SP!SegmentAssumption
  BY SegmentAssumption
<1>4. SP!FlagsAssumption
  BY FlagsAssumption
<1> QED
  BY <1>1, <1>2, <1>3, <1>4

(* A call's options are BatchOptions, its stream is as long as it is, and   *)
(* no exception leaves its reads.                                          *)
LEMMA PipelineAssumptions ==
  FP!OptionsAssumption /\ FP!TotalsAssumption /\ FP!ThrowAssumption
BY OptionsAssumption

(* The stream of this module is the one the proofs about ShardStream are    *)
(* about: their definitions are the same.                                   *)
LEMMA SameStream ==
  /\ (S!Init <=> SP!Init)
  /\ (S!Read <=> SP!Read)
  /\ (S!ReadReturns <=> SP!ReadReturns)
  /\ (S!OpenShard <=> SP!OpenShard)
  /\ (S!OpenFails <=> SP!OpenFails)
  /\ (S!OpenBackendFails <=> SP!OpenBackendFails)
  /\ (S!BeginFill <=> SP!BeginFill)
  /\ (\A s : S!FillOne(s) <=> SP!FillOne(s))
  /\ (S!Submit <=> SP!Submit)
  /\ (S!SubmitFails <=> SP!SubmitFails)
  /\ (S!NothingToSubmit <=> SP!NothingToSubmit)
  /\ (\A c : S!Reap(c) <=> SP!Reap(c))
  /\ (S!ReapFails <=> SP!ReapFails)
  /\ (S!TakeFront <=> SP!TakeFront)
  /\ (S!CloseShard <=> SP!CloseShard)
  /\ (S!DestroyBuffers <=> SP!DestroyBuffers)
  /\ (S!DestroyBackend <=> SP!DestroyBackend)
  /\ (\A r : S!Complete(r) <=> SP!Complete(r))
  /\ (\A r : S!CompleteOrphan(r) <=> SP!CompleteOrphan(r))
  /\ S!Slots = SP!Slots
<1> USE DEF S!inputs, SP!inputs, S!shardVars, SP!shardVars, S!bufferVars, SP!bufferVars,
     S!slotVars, SP!slotVars, S!batchVars, SP!batchVars, S!deviceVars, SP!deviceVars,
     S!Min2, SP!Min2, S!Max2, SP!Max2, S!Slots, SP!Slots, S!read_depth, SP!read_depth
<1>1. (S!Init <=> SP!Init)
  BY DEF S!Init, SP!Init, S!NoBytes, SP!NoBytes
<1>2. (S!Read <=> SP!Read)
  BY DEF S!Read, SP!Read, S!Copied, SP!Copied, S!Prefix, SP!Prefix, S!Rest, SP!Rest
<1>3. (S!ReadReturns <=> SP!ReadReturns)
  BY DEF S!ReadReturns, SP!ReadReturns, S!BatchFull, SP!BatchFull, S!StreamDone,
     SP!StreamDone
<1>4. (S!OpenShard <=> SP!OpenShard)
  BY DEF S!OpenShard, SP!OpenShard, S!MustOpen, SP!MustOpen, S!BatchFull, SP!BatchFull,
     S!PrepareBuffers, SP!PrepareBuffers, S!NoBytes, SP!NoBytes, S!SegmentFor, SP!SegmentFor
<1>5. (S!OpenFails <=> SP!OpenFails)
  BY DEF S!OpenFails, SP!OpenFails, S!MustOpen, SP!MustOpen, S!BatchFull, SP!BatchFull,
     S!AllocatesNothing, SP!AllocatesNothing, S!SegmentFor, SP!SegmentFor
<1>6. (S!OpenBackendFails <=> SP!OpenBackendFails)
  BY DEF S!OpenBackendFails, SP!OpenBackendFails, S!MustOpen, SP!MustOpen, S!BatchFull,
     SP!BatchFull, S!PrepareBuffers, SP!PrepareBuffers, S!NoBytes, SP!NoBytes, S!SegmentFor,
     SP!SegmentFor
<1>7. (S!BeginFill <=> SP!BeginFill)
  BY DEF S!BeginFill, SP!BeginFill, S!BatchFull, SP!BatchFull
<1>8. (\A s : S!FillOne(s) <=> SP!FillOne(s))
  BY DEF S!FillOne, SP!FillOne, S!FillMore, SP!FillMore, S!TakesSlot, SP!TakesSlot,
     S!RequestLength, SP!RequestLength
<1>9. (S!Submit <=> SP!Submit)
  BY DEF S!Submit, SP!Submit, S!SubmitLeaving, SP!SubmitLeaving, S!Requested,
     SP!Requested, S!FillMore, SP!FillMore, S!QueueFull, SP!QueueFull,
     S!Cardinality, SP!Cardinality,
     S!InFlight, SP!InFlight
<1>10. (S!SubmitFails <=> SP!SubmitFails)
  BY DEF S!SubmitFails, SP!SubmitFails, S!FillMore, SP!FillMore, S!QueueFull, SP!QueueFull,
     S!Cardinality, SP!Cardinality
<1>11. (S!NothingToSubmit <=> SP!NothingToSubmit)
  BY DEF S!NothingToSubmit, SP!NothingToSubmit, S!FillMore, SP!FillMore
<1>12. (\A c : S!Reap(c) <=> SP!Reap(c))
  BY DEF S!Reap, SP!Reap, S!AwaitsFront, SP!AwaitsFront, S!EntriesOf, SP!EntriesOf,
     S!Finish, SP!Finish
<1>13. (S!ReapFails <=> SP!ReapFails)
  BY DEF S!ReapFails, SP!ReapFails, S!AwaitsFront, SP!AwaitsFront
<1>14. (S!TakeFront <=> SP!TakeFront)
  BY DEF S!TakeFront, SP!TakeFront, S!TakeLength, SP!TakeLength, S!Prefix, SP!Prefix,
     S!Copied, SP!Copied, S!Rest, SP!Rest, S!Released, SP!Released
<1>15. (S!CloseShard <=> SP!CloseShard)
  BY DEF S!CloseShard, SP!CloseShard, S!CloseWith, SP!CloseWith, S!ResetDone, SP!ResetDone
<1>16. (S!DestroyBuffers <=> SP!DestroyBuffers)
  BY DEF S!DestroyBuffers, SP!DestroyBuffers
<1>17. (S!DestroyBackend <=> SP!DestroyBackend)
  BY DEF S!DestroyBackend, SP!DestroyBackend, S!ResetDone, SP!ResetDone
<1>18. (\A r : S!Complete(r) <=> SP!Complete(r))
  BY DEF S!Complete, SP!Complete, S!Outcomes, SP!Outcomes, S!Available, SP!Available,
     S!Misaligned, SP!Misaligned, S!Writes, SP!Writes
<1>19. (\A r : S!CompleteOrphan(r) <=> SP!CompleteOrphan(r))
  BY DEF S!CompleteOrphan, SP!CompleteOrphan, S!Outcomes, SP!Outcomes, S!Available,
     SP!Available, S!Misaligned, SP!Misaligned, S!Writes, SP!Writes
<1> QED
  BY <1>1, <1>2, <1>3, <1>4, <1>5, <1>6, <1>7, <1>8, <1>9, <1>10, <1>11, <1>12, <1>13,
     <1>14, <1>15, <1>16, <1>17, <1>18, <1>19


(* Every step is one of the stream or leaves it alone.                      *)
LEMMA StreamStep == [Next]_vars => [SP!Next]_(SP!vars)
<1> SUFFICES ASSUME [Next]_vars PROVE SP!Next \/ UNCHANGED SP!vars
  OBVIOUS
<1> USE SameStream
<1>1. CASE InRead
  <2>1. SP!Reader
    BY <1>1 DEF InRead, SP!Reader
  <2> QED
    BY <2>1 DEF SP!Next
<1>2. CASE ReadOk \/ ReadEnd
  <2>1. SP!ReadReturns
    BY <1>2 DEF ReadOk, ReadEnd
  <2> QED
    BY <2>1 DEF SP!Next, SP!Reader
<1>3. CASE Device
  <2>1. SP!Device
    BY <1>3 DEF Device, S!Device, SP!Device
  <2> QED
    BY <2>1 DEF SP!Next
<1>4. CASE DestroyStream
  <2>1. SP!Destructor
    BY <1>4 DEF DestroyStream, S!Destructor, SP!Destructor
  <2> QED
    BY <2>1 DEF SP!Next
<1>5. CASE \/ UNCHANGED vars \/ BetweenReads \/ ReadFails \/ Caller \/ Finished
  <2>1. UNCHANGED <<options, segment_bytes, streamVars>>
    BY <1>5 DEF vars, fixed, BetweenReads, ReadFails, Caller, Finished,
       P!PRecv, P!PRecvClosed, P!PSetError, P!PClose, P!PSend, P!PSendClosed, P!PReadFails,
       P!Consumer, P!RejectOptions, P!Start, P!CRecv, P!CRecvClosed, P!CCallback,
       P!CCallbackThrows, P!CRecycle, P!CCloseFree, P!CCloseReady, P!CTake, P!CJoin
  <2> QED
    BY <2>1 DEF SP!vars, streamVars, SP!inputs, SP!shardVars, SP!bufferVars, SP!slotVars,
       SP!batchVars, SP!deviceVars, StreamOptions
<1> QED
  BY <1>1, <1>2, <1>3, <1>4, <1>5 DEF Next, Producer

(* The stream of a call is a ShardStream.                                   *)
LEMMA StreamRuns == Spec => SP!Spec
<1>1. Init => SP!Init
  BY SameStream DEF Init
<1> QED
  BY <1>1, StreamStep, PTL DEF Spec, SP!Spec

(* Nor do reads outlive their buffers.                                     *)
THEOREM BuffersAreKept == Spec => []BuffersKept
<1>1. Spec => []SP!BuffersKept
  BY StreamRuns, SP!BuffersAreKept, StreamAssumptions, PTL
<1>2. SP!BuffersKept <=> BuffersKept
  BY DEF SP!BuffersKept, BuffersKept, S!BuffersKept
<1> QED
  BY <1>1, <1>2, PTL

-----------------------------------------------------------------------------
(* Induction over the extents of a stream.                                  *)

(* A set of numbers that is not empty has a least element.                 *)
LEMMA LeastElement ==
  ASSUME NEW T \in SUBSET Nat, T # {}
  PROVE  \E n \in T : \A m \in T : n <= m
<1> DEFINE R == OpToRel(<, Nat)
<1>1. IsWellFoundedOn(R, Nat)
  BY NatLessThanWellFounded
<1>2. PICK n \in T : \A m \in T : ~ (<<m, n>> \in R)
  <2> HIDE DEF R
  <2> QED BY <1>1, WFMin
<1>3. \A m \in T : ~ (m < n)
  BY <1>2 DEF OpToRel
<1> QED
  BY <1>3

(* So what holds of 0 and goes from a number to the next one holds up to n. *)
LEMMA Induction ==
  ASSUME NEW n \in Nat, NEW T,
         0 \in T,
         \A i \in 1 .. n : i - 1 \in T => i \in T
  PROVE  \A i \in 0 .. n : i \in T
<1> DEFINE Left == {i \in 0 .. n : i \notin T}
<1>1. SUFFICES ASSUME Left # {} PROVE FALSE
  OBVIOUS
<1>2. Left \in SUBSET Nat
  OBVIOUS
<1>3. PICK k \in Left : \A m \in Left : k <= m
  <2> HIDE DEF Left
  <2> QED BY <1>1, <1>2, LeastElement
<1>4. k \in 0 .. n /\ k \notin T /\ k # 0
  OBVIOUS
<1>5. k \in 1 .. n /\ k - 1 \notin T /\ k - 1 \in 0 .. n
  BY <1>4
<1> QED
  BY <1>3, <1>5

\* f[k] is what k steps make of first.
Steps(f, n, Values, first, step) ==
  /\ f \in [0 .. n -> Values]
  /\ f[0] = first
  /\ \A i \in 1 .. n : f[i] = step[i][f[i - 1]]

(* The function that starts with `first' and goes on with `step' exists.   *)
LEMMA Recursion ==
  ASSUME NEW Values, NEW n \in Nat,
         NEW first \in Values, NEW step \in [1 .. n -> [Values -> Values]]
  PROVE  \E f : Steps(f, n, Values, first, step)
<1> DEFINE Good(f, k) == Steps(f, k, Values, first, step)
<1> USE DEF Steps
<1> DEFINE T == {k \in 0 .. n : \E f : Good(f, k)}
<1>1. 0 \in T
  <2>1. Good([i \in 0 .. 0 |-> first], 0)
    OBVIOUS
  <2>2. 0 \in 0 .. n
    OBVIOUS
  <2> HIDE DEF Good
  <2> QED BY <2>1, <2>2
<1>2. ASSUME NEW k \in 1 .. n, k - 1 \in T PROVE k \in T
  <2>1. PICK f : Good(f, k - 1)
    <3> HIDE DEF Good
    <3> QED BY <1>2
  <2> DEFINE g == [i \in 0 .. k |-> IF i = k THEN step[k][f[k - 1]] ELSE f[i]]
  <2>2. k \in Nat /\ k - 1 \in 0 .. k - 1 /\ k \in 1 .. n
    OBVIOUS
  <2>3. step[k][f[k - 1]] \in Values
    BY <2>1, <2>2
  <2>4. g \in [0 .. k -> Values]
    BY <2>1, <2>2, <2>3
  <2>5. g[0] = first
    BY <2>1, <2>2
  <2>6. \A i \in 1 .. k : g[i] = step[i][g[i - 1]]
    <3> TAKE i \in 1 .. k
    <3>1. CASE i = k
      BY <3>1, <2>2
    <3>2. CASE i # k
      <4>1. i \in 1 .. k - 1 /\ i - 1 \in 0 .. k - 1
        BY <3>2, <2>2
      <4>2. g[i] = f[i] /\ g[i - 1] = f[i - 1]
        BY <4>1, <2>2
      <4>3. f[i] = step[i][f[i - 1]]
        BY <4>1, <2>1
      <4> HIDE DEF g
      <4> QED BY <4>2, <4>3
    <3> QED BY <3>1, <3>2
  <2>7. Good(g, k)
    <3> HIDE DEF g
    <3> QED BY <2>4, <2>5, <2>6
  <2>8. k \in 0 .. n
    OBVIOUS
  <2> HIDE DEF g, Good
  <2> QED
    BY <2>7, <2>8
<1>3. n \in T
  <2> HIDE DEF T
  <2>1. \A i \in 1 .. n : i - 1 \in T => i \in T
    BY <1>2
  <2>2. \A i \in 0 .. n : i \in T
    BY <1>1, <2>1, Induction
  <2> QED BY <2>2
<1> HIDE DEF Steps
<1> QED
  BY <1>3

-----------------------------------------------------------------------------
(* The bytes of a list of extents.                                          *)

Extent == [sh : Nat, at : Nat, n : Nat]
Byte == Nat \X Nat

(* An extent's bytes follow each other.                                    *)
LEMMA ExtentFacts ==
  ASSUME NEW e \in Extent
  PROVE  /\ ExtentBytes(e) \in Seq(Byte)
         /\ Len(ExtentBytes(e)) = e.n
         /\ \A i \in 1 .. e.n : ExtentBytes(e)[i] = <<e.sh, e.at + i - 1>>
<1>1. e.n \in Nat /\ e.sh \in Nat /\ e.at \in Nat
  BY DEF Extent
<1>2. ExtentBytes(e) = [i \in 1 .. e.n |-> <<e.sh, e.at + i - 1>>]
  BY DEF ExtentBytes
<1>3. \A i \in 1 .. e.n : <<e.sh, e.at + i - 1>> \in Byte
  BY <1>1 DEF Byte
<1>4. ExtentBytes(e) \in [1 .. e.n -> Byte]
  BY <1>2, <1>3
<1>5. ExtentBytes(e) \in Seq(Byte)
  BY <1>1, <1>4, SeqDef
<1>6. Len(ExtentBytes(e)) \in Nat /\ DOMAIN ExtentBytes(e) = 1 .. Len(ExtentBytes(e))
  BY <1>5, LenProperties
<1>7. 1 .. Len(ExtentBytes(e)) = 1 .. e.n
  BY <1>2, <1>6
<1>8. Len(ExtentBytes(e)) = e.n
  BY <1>1, <1>6, <1>7
<1> QED
  BY <1>2, <1>5, <1>8

(* BytesOf, extent by extent.                                              *)
LEMMA BytesByExtent ==
  ASSUME NEW extents \in Seq(Extent)
  PROVE  \E f \in [0 .. Len(extents) -> Seq(Byte)] :
           /\ f[0] = <<>>
           /\ \A i \in 1 .. Len(extents) : f[i] = f[i - 1] \o ExtentBytes(extents[i])
           /\ BytesOf(extents) = f[Len(extents)]
<1> DEFINE step == [i \in 1 .. Len(extents) |-> [bytes \in Seq(Byte) |->
                      bytes \o ExtentBytes(extents[i])]]
<1>0. Len(extents) \in Nat /\ <<>> \in Seq(Byte)
  OBVIOUS
<1>1. step \in [1 .. Len(extents) -> [Seq(Byte) -> Seq(Byte)]]
  <2>1. \A i \in 1 .. Len(extents) : \A bytes \in Seq(Byte) :
          bytes \o ExtentBytes(extents[i]) \in Seq(Byte)
    BY ExtentFacts, ConcatProperties
  <2> QED BY <2>1
<1>2. PICK f \in [0 .. Len(extents) -> Seq(Byte)] :
        f[0] = <<>> /\ \A i \in 1 .. Len(extents) : f[i] = step[i][f[i - 1]]
  <2> HIDE DEF step
  <2>1. \E f : Steps(f, Len(extents), Seq(Byte), <<>>, step)
    BY <1>0, <1>1, Recursion
  <2> QED BY <2>1 DEF Steps
<1>3. \A i \in 1 .. Len(extents) : f[i] = f[i - 1] \o ExtentBytes(extents[i])
  <2> TAKE i \in 1 .. Len(extents)
  <2>1. i - 1 \in 0 .. Len(extents)
    BY <1>0
  <2>2. f[i - 1] \in Seq(Byte)
    BY <2>1
  <2>3. f[i] = step[i][f[i - 1]]
    <3> HIDE DEF step
    <3> QED BY <1>2
  <2> QED BY <2>2, <2>3
<1> HIDE DEF step
<1> DEFINE bytes == CHOOSE F : F = [n \in 0 .. Len(extents) |->
                      IF n = 0 THEN <<>> ELSE F[n - 1] \o ExtentBytes(extents[n])]
<1>4. f = [n \in 0 .. Len(extents) |->
             IF n = 0 THEN <<>> ELSE f[n - 1] \o ExtentBytes(extents[n])]
  <2>1. \A i \in 0 .. Len(extents) :
          f[i] = IF i = 0 THEN <<>> ELSE f[i - 1] \o ExtentBytes(extents[i])
    <3> TAKE i \in 0 .. Len(extents)
    <3>1. i = 0 \/ i \in 1 .. Len(extents)
      BY <1>0
    <3> QED BY <1>2, <1>3, <3>1
  <2> QED BY <2>1
<1>5. bytes = [n \in 0 .. Len(extents) |->
                 IF n = 0 THEN <<>> ELSE bytes[n - 1] \o ExtentBytes(extents[n])]
  BY <1>4
<1>6. BytesOf(extents) = bytes[Len(extents)]
  BY DEF BytesOf
<1> HIDE DEF bytes
<1>7. \A i \in 0 .. Len(extents) : bytes[i] = f[i]
  <2> DEFINE T == {i \in 0 .. Len(extents) : bytes[i] = f[i]}
  <2>1. 0 \in T
    BY <1>0, <1>2, <1>5
  <2>2. \A i \in 1 .. Len(extents) : i - 1 \in T => i \in T
    <3> SUFFICES ASSUME NEW i \in 1 .. Len(extents), bytes[i - 1] = f[i - 1]
                 PROVE  bytes[i] = f[i]
      OBVIOUS
    <3>1. i \in 0 .. Len(extents) /\ i # 0
      OBVIOUS
    <3>2. bytes[i] = bytes[i - 1] \o ExtentBytes(extents[i])
      BY <1>5, <3>1
    <3> QED BY <1>3, <3>2
  <2>3. \A i \in 0 .. Len(extents) : i \in T
    <3> HIDE DEF T
    <3> QED BY <1>0, <2>1, <2>2, Induction
  <2> QED BY <2>3
<1>8. BytesOf(extents) = f[Len(extents)]
  BY <1>0, <1>6, <1>7
<1> QED
  BY <1>2, <1>3, <1>8

(* They are a sequence of bytes; no extents have none.                     *)
LEMMA BytesType ==
  ASSUME NEW extents \in Seq(Extent)
  PROVE  /\ BytesOf(extents) \in Seq(Byte)
         /\ Len(BytesOf(extents)) \in Nat
         /\ extents = <<>> => BytesOf(extents) = <<>>
<1>1. PICK f \in [0 .. Len(extents) -> Seq(Byte)] :
        f[0] = <<>> /\ BytesOf(extents) = f[Len(extents)]
  BY BytesByExtent
<1>2. Len(extents) \in Nat /\ Len(extents) \in 0 .. Len(extents)
  OBVIOUS
<1>3. BytesOf(extents) \in Seq(Byte)
  BY <1>1, <1>2
<1>4. extents = <<>> => Len(extents) = 0
  OBVIOUS
<1> QED
  BY <1>1, <1>3, <1>4, LenProperties

(* One more extent adds its bytes at the end.                              *)
LEMMA BytesAppend ==
  ASSUME NEW extents \in Seq(Extent), NEW e \in Extent
  PROVE  BytesOf(Append(extents, e)) = BytesOf(extents) \o ExtentBytes(e)
<1> DEFINE longer == Append(extents, e)
           n == Len(extents)
<1>1. /\ longer \in Seq(Extent) /\ Len(longer) = n + 1 /\ n \in Nat
      /\ \A i \in 1 .. n : longer[i] = extents[i]
      /\ longer[n + 1] = e
  BY AppendProperties, LenProperties
<1> HIDE DEF longer
<1>2. PICK f \in [0 .. n -> Seq(Byte)] :
        /\ f[0] = <<>>
        /\ \A i \in 1 .. n : f[i] = f[i - 1] \o ExtentBytes(extents[i])
        /\ BytesOf(extents) = f[n]
  BY BytesByExtent
<1>3. PICK g \in [0 .. n + 1 -> Seq(Byte)] :
        /\ g[0] = <<>>
        /\ \A i \in 1 .. n + 1 : g[i] = g[i - 1] \o ExtentBytes(longer[i])
        /\ BytesOf(longer) = g[n + 1]
  <2>1. \E g \in [0 .. Len(longer) -> Seq(Byte)] :
          /\ g[0] = <<>>
          /\ \A i \in 1 .. Len(longer) : g[i] = g[i - 1] \o ExtentBytes(longer[i])
          /\ BytesOf(longer) = g[Len(longer)]
    BY <1>1, BytesByExtent
  <2> QED BY <1>1, <2>1
<1>4. \A i \in 0 .. n : f[i] = g[i]
  <2> DEFINE T == {i \in 0 .. n : f[i] = g[i]}
  <2>1. 0 \in T
    BY <1>1, <1>2, <1>3
  <2>2. \A i \in 1 .. n : i - 1 \in T => i \in T
    <3> SUFFICES ASSUME NEW i \in 1 .. n, f[i - 1] = g[i - 1] PROVE f[i] = g[i]
      OBVIOUS
    <3>1. i \in 1 .. n + 1
      BY <1>1
    <3>2. g[i] = g[i - 1] \o ExtentBytes(longer[i])
      BY <1>3, <3>1
    <3>3. longer[i] = extents[i]
      BY <1>1
    <3> QED BY <1>2, <3>2, <3>3
  <2>3. \A i \in 0 .. n : i \in T
    <3> HIDE DEF T
    <3> QED BY <1>1, <2>1, <2>2, Induction
  <2> QED BY <2>3
<1>5. g[n + 1] = g[n] \o ExtentBytes(e)
  <2>1. n + 1 \in 1 .. n + 1 /\ (n + 1) - 1 = n
    BY <1>1
  <2> QED BY <1>1, <1>3, <2>1
<1>6. f[n] = g[n]
  BY <1>1, <1>4
<1> QED
  BY <1>2, <1>3, <1>5, <1>6 DEF longer

(* A part of the extents that is one longer has that extent's bytes more.  *)
LEMMA BytesNext ==
  ASSUME NEW extents \in Seq(Extent), NEW a \in 1 .. Len(extents), NEW b \in a .. Len(extents)
  PROVE  BytesOf(SubSeq(extents, a, b))
           = BytesOf(SubSeq(extents, a, b - 1)) \o ExtentBytes(extents[b])
<1>1. SubSeq(extents, a, b) = Append(SubSeq(extents, a, b - 1), extents[b])
  BY SubSeqRecursiveSecond
<1>2. extents[b] \in Extent
  BY LenProperties
<1>3. SubSeq(extents, a, b - 1) \in Seq(Extent)
  <2>1. a \in Int /\ b - 1 \in Int /\ \A i \in a .. b - 1 : extents[i] \in Extent
    BY LenProperties
  <2> QED BY <2>1, SubSeqProperties
<1> QED
  BY <1>1, <1>2, <1>3, BytesAppend

(* The parts of a list of extents are lists of extents.                    *)
LEMMA PartType ==
  ASSUME NEW extents \in Seq(Extent), NEW a \in Nat \ {0}, NEW b \in 0 .. Len(extents)
  PROVE  /\ SubSeq(extents, a, b) \in Seq(Extent)
         /\ BytesOf(SubSeq(extents, a, b)) \in Seq(Byte)
         /\ Len(BytesOf(SubSeq(extents, a, b))) \in Nat
         /\ b < a => BytesOf(SubSeq(extents, a, b)) = <<>>
<1>1. a \in Int /\ b \in Int /\ \A i \in a .. b : extents[i] \in Extent
  BY LenProperties
<1>2. SubSeq(extents, a, b) \in Seq(Extent)
  BY <1>1, SubSeqProperties
<1>3. b < a => SubSeq(extents, a, b) = <<>>
  BY <1>1, SubSeqEmpty
<1> QED
  BY <1>2, <1>3, BytesType

(* The bytes of two parts that follow each other.                          *)
LEMMA BytesSplit ==
  ASSUME NEW extents \in Seq(Extent), NEW a \in 0 .. Len(extents), NEW b \in a .. Len(extents)
  PROVE  BytesOf(SubSeq(extents, 1, b))
           = BytesOf(SubSeq(extents, 1, a)) \o BytesOf(SubSeq(extents, a + 1, b))
<1> DEFINE n == Len(extents)
           T == {d \in 0 .. n - a : BytesOf(SubSeq(extents, 1, a + d))
                   = BytesOf(SubSeq(extents, 1, a)) \o BytesOf(SubSeq(extents, a + 1, a + d))}
<1>0. n \in Nat /\ a \in Nat /\ b \in Nat /\ a <= n /\ n - a \in Nat
  BY LenProperties
<1>1. 0 \in T
  <2>1. a + 0 = a /\ a + 1 \in Nat \ {0} /\ a < a + 1 /\ 1 \in Nat \ {0} /\ 0 \in 0 .. n - a
    BY <1>0
  <2>2. BytesOf(SubSeq(extents, a + 1, a)) = <<>> /\ BytesOf(SubSeq(extents, 1, a)) \in Seq(Byte)
    BY <2>1, PartType
  <2> QED BY <2>1, <2>2, ConcatEmptySeq
<1>2. ASSUME NEW d \in 1 .. n - a, d - 1 \in T PROVE d \in T
  <2>1. /\ 1 \in 1 .. n /\ a + d \in 1 .. n /\ a + 1 \in 1 .. n /\ a + d \in a + 1 .. n
        /\ a + d \in Nat /\ a + (d - 1) = (a + d) - 1 /\ a + (d - 1) \in 0 .. n
        /\ 1 \in Nat \ {0} /\ a + 1 \in Nat \ {0}
    BY <1>0
  <2>2. extents[a + d] \in Extent
    BY <2>1, LenProperties
  <2> DEFINE x == BytesOf(SubSeq(extents, 1, a))
             y == BytesOf(SubSeq(extents, a + 1, a + (d - 1)))
             z == ExtentBytes(extents[a + d])
  <2>3. BytesOf(SubSeq(extents, 1, a + (d - 1))) = x \o y
    BY <1>2
  <2>4. BytesOf(SubSeq(extents, 1, a + d)) = (x \o y) \o z
    <3>1. BytesOf(SubSeq(extents, 1, a + d)) = BytesOf(SubSeq(extents, 1, (a + d) - 1)) \o z
      BY <2>1, BytesNext
    <3> QED BY <2>1, <2>3, <3>1
  <2>5. BytesOf(SubSeq(extents, a + 1, a + d)) = y \o z
    <3>1. BytesOf(SubSeq(extents, a + 1, a + d))
            = BytesOf(SubSeq(extents, a + 1, (a + d) - 1)) \o z
      BY <2>1, BytesNext
    <3> QED BY <2>1, <3>1
  <2>6. x \in Seq(Byte) /\ y \in Seq(Byte) /\ z \in Seq(Byte)
    BY <1>0, <2>1, <2>2, PartType, ExtentFacts
  <2>7. (x \o y) \o z = x \o (y \o z)
    <3>1. PICK u \in Seq(Byte), v \in Seq(Byte), w \in Seq(Byte) : u = x /\ v = y /\ w = z
      <4> HIDE DEF x, y, z
      <4> QED BY <2>6, Zenon
    <3>2. (u \o v) \o w = u \o (v \o w)
      BY ONLY ConcatAssociative
    <3> QED BY <3>1, <3>2, Zenon
  <2>8. d \in 0 .. n - a
    OBVIOUS
  <2> QED BY <2>4, <2>5, <2>7, <2>8
<1>3. \A d \in 0 .. n - a : d \in T
  <2>1. \A d \in 1 .. n - a : d - 1 \in T => d \in T
    BY <1>2
  <2> HIDE DEF T
  <2> QED BY <1>0, <1>1, <2>1, Induction
<1>4. b - a \in 0 .. n - a /\ a + (b - a) = b
  BY <1>0
<1> QED
  BY <1>3, <1>4

(* Where the bytes of extent k are among those of all.                     *)
LEMMA BytesAt ==
  ASSUME NEW extents \in Seq(Extent), NEW k \in 1 .. Len(extents)
  PROVE  LET before == Len(BytesOf(SubSeq(extents, 1, k - 1)))
         IN  /\ before \in Nat
             /\ Len(BytesOf(SubSeq(extents, 1, k))) = before + extents[k].n
             /\ before + extents[k].n <= Len(BytesOf(extents))
             /\ \A j \in 1 .. extents[k].n :
                  BytesOf(extents)[before + j] = <<extents[k].sh, extents[k].at + j - 1>>
<1> DEFINE n == Len(extents)
           x == BytesOf(SubSeq(extents, 1, k - 1))
           y == ExtentBytes(extents[k])
           z == BytesOf(SubSeq(extents, k + 1, n))
<1>0. /\ n \in Nat /\ k \in Nat /\ 1 \in 1 .. n /\ k \in 0 .. n /\ n \in k .. n /\ k - 1 \in 0 .. n
      /\ 1 \in Nat \ {0} /\ k + 1 \in Nat \ {0} /\ n \in 0 .. n /\ extents[k] \in Extent
  BY LenProperties
<1>1. x \in Seq(Byte) /\ y \in Seq(Byte) /\ z \in Seq(Byte)
  BY <1>0, PartType, ExtentFacts
<1>2. BytesOf(SubSeq(extents, 1, k)) = x \o y
  BY <1>0, BytesNext
<1>3. BytesOf(extents) = (x \o y) \o z
  <2>1. BytesOf(SubSeq(extents, 1, n)) = BytesOf(SubSeq(extents, 1, k)) \o z
    BY <1>0, BytesSplit
  <2>2. SubSeq(extents, 1, n) = extents
    BY SubSeqFull
  <2> QED BY <1>2, <2>1, <2>2
<1>4. /\ Len(y) = extents[k].n /\ extents[k].n \in Nat
      /\ \A j \in 1 .. extents[k].n : y[j] = <<extents[k].sh, extents[k].at + j - 1>>
  BY <1>0, ExtentFacts DEF Extent
<1> HIDE DEF x, y, z
<1>5. Len(x) \in Nat /\ Len(z) \in Nat
  BY <1>1, LenProperties
<1>6. x \o y \in Seq(Byte) /\ Len(x \o y) = Len(x) + extents[k].n
  <2>1. x \o y \in Seq(Byte) /\ Len(x \o y) = Len(x) + Len(y)
    BY <1>1, ConcatProperties
  <2> QED BY <1>4, <2>1
<1>7. Len(BytesOf(extents)) = Len(x) + extents[k].n + Len(z)
  BY <1>1, <1>3, <1>6, ConcatProperties
<1>8. ASSUME NEW j \in 1 .. extents[k].n
      PROVE  BytesOf(extents)[Len(x) + j] = <<extents[k].sh, extents[k].at + j - 1>>
  <2>1. /\ Len(x) + j \in 1 .. Len(x) + Len(y) /\ ~(Len(x) + j <= Len(x))
        /\ (Len(x) + j) - Len(x) = j
    BY <1>4, <1>5
  <2>2. (x \o y)[Len(x) + j] = y[j]
    BY <1>1, <2>1, ConcatProperties
  <2>3. Len(x) + j \in 1 .. Len(x \o y) + Len(z) /\ Len(x) + j <= Len(x \o y)
    <3>1. j \in 1 .. Len(y) /\ Len(y) \in Nat /\ Len(x \o y) = Len(x) + Len(y)
      BY <1>4, <1>6
    <3> QED
      BY <1>5, <3>1
  <2>4. ((x \o y) \o z)[Len(x) + j] = (x \o y)[Len(x) + j]
    BY <1>1, <1>6, <2>3, ConcatProperties
  <2> QED BY <1>3, <1>4, <2>2, <2>4
<1>9. extents[k].n \in Nat
  BY <1>4
<1>10. Len(x) + extents[k].n <= Len(BytesOf(extents))
  BY <1>5, <1>7, <1>9
<1>11. Len(BytesOf(SubSeq(extents, 1, k))) = Len(x) + extents[k].n
  BY <1>2, <1>6
<1> QED
  BY <1>5, <1>8, <1>10, <1>11 DEF x

(* What begins as z does and goes on as z does.                            *)
LEMMA Continued ==
  ASSUME NEW D, NEW z \in Seq(D), NEW y \in Seq(D), NEW l \in Nat, l + Len(y) <= Len(z),
         \A j \in 1 .. Len(y) : y[j] = z[l + j]
  PROVE  SubSeq(z, 1, l) \o y = SubSeq(z, 1, l + Len(y))
<1> DEFINE x == SubSeq(z, 1, l)
           w == SubSeq(z, 1, l + Len(y))
<1>1. Len(y) \in Nat /\ Len(z) \in Nat /\ \A i \in 1 .. Len(z) : z[i] \in D
  BY LenProperties
<1>2. /\ x \in Seq(D) /\ Len(x) = l /\ \A i \in 1 .. l : x[i] = z[i]
  <2>1. 1 \in Int /\ l \in Int /\ \A i \in 1 .. l : z[i] \in D
    BY <1>1
  <2> QED BY <2>1, SubSeqProperties
<1>3. /\ w \in Seq(D) /\ Len(w) = l + Len(y) /\ \A i \in 1 .. l + Len(y) : w[i] = z[i]
  <2>1. 1 \in Int /\ l + Len(y) \in Int /\ \A i \in 1 .. l + Len(y) : z[i] \in D
    BY <1>1
  <2> QED BY <1>1, <2>1, SubSeqProperties
<1> HIDE DEF x, w
<1>4. /\ x \o y \in Seq(D) /\ Len(x \o y) = l + Len(y)
      /\ \A i \in 1 .. l + Len(y) : (x \o y)[i] = IF i <= l THEN x[i] ELSE y[i - l]
  BY <1>2, ConcatProperties
<1>5. \A i \in 1 .. l + Len(y) : (x \o y)[i] = w[i]
  <2> TAKE i \in 1 .. l + Len(y)
  <2>1. CASE i <= l
    <3>1. i \in 1 .. l
      BY <2>1
    <3> QED BY <1>2, <1>3, <1>4, <2>1, <3>1
  <2>2. CASE ~(i <= l)
    <3>1. i - l \in 1 .. Len(y) /\ l + (i - l) = i
      BY <1>1, <2>2
    <3>2. y[i - l] = z[i]
      BY <3>1
    <3> QED BY <1>3, <1>4, <2>2, <3>2
  <2> QED BY <2>1, <2>2
<1>6. x \o y = w
  BY <1>3, <1>4, <1>5, SeqEqual
<1> QED
  BY <1>6 DEF x, w

(* What follows a beginning of z in a longer one.                          *)
LEMMA Remaining ==
  ASSUME NEW D, NEW z \in Seq(D), NEW y \in Seq(D), NEW l \in Nat, NEW m \in Nat,
         l <= m, m <= Len(z), SubSeq(z, 1, l) \o y = SubSeq(z, 1, m)
  PROVE  y = SubSeq(z, l + 1, m)
<1> DEFINE x == SubSeq(z, 1, l)
           w == SubSeq(z, 1, m)
           v == SubSeq(z, l + 1, m)
<1>1. Len(y) \in Nat /\ Len(z) \in Nat /\ \A i \in 1 .. Len(z) : z[i] \in D
  BY LenProperties
<1>2. /\ x \in Seq(D) /\ Len(x) = l
  <2>1. 1 \in Int /\ l \in Int /\ \A i \in 1 .. l : z[i] \in D
    BY <1>1
  <2> QED BY <2>1, SubSeqProperties
<1>3. /\ w \in Seq(D) /\ Len(w) = m /\ \A i \in 1 .. m : w[i] = z[i]
  <2>1. 1 \in Int /\ m \in Int /\ \A i \in 1 .. m : z[i] \in D
    BY <1>1
  <2> QED BY <2>1, SubSeqProperties
<1>4. /\ v \in Seq(D) /\ Len(v) = m - l /\ \A i \in 1 .. m - l : v[i] = z[l + i]
  <2>1. /\ l + 1 \in Int /\ m \in Int /\ \A i \in l + 1 .. m : z[i] \in D
        /\ m - (l + 1) + 1 = m - l /\ \A i \in 1 .. m - l : (l + 1) + i - 1 = l + i
    BY <1>1
  <2>2. /\ v \in Seq(D) /\ Len(v) = IF l + 1 <= m THEN m - (l + 1) + 1 ELSE 0
        /\ \A i \in 1 .. m - (l + 1) + 1 : v[i] = z[(l + 1) + i - 1]
    BY <2>1, SubSeqProperties
  <2>3. Len(v) = m - l
    BY <2>2
  <2>4. \A i \in 1 .. m - l : v[i] = z[l + i]
    BY <2>1, <2>2
  <2> QED BY <2>2, <2>3, <2>4
<1>5. x \o y = w
  OBVIOUS
<1> HIDE DEF x, w, v
<1>6. /\ Len(x \o y) = l + Len(y)
      /\ \A i \in 1 .. l + Len(y) : (x \o y)[i] = IF i <= l THEN x[i] ELSE y[i - l]
  BY <1>2, ConcatProperties
<1>7. Len(y) = m - l
  BY <1>1, <1>3, <1>5, <1>6
<1>8. \A i \in 1 .. m - l : y[i] = v[i]
  <2> TAKE i \in 1 .. m - l
  <2>1. l + i \in 1 .. m /\ l + i \in 1 .. l + Len(y) /\ ~(l + i <= l) /\ (l + i) - l = i
    BY <1>7
  <2> QED BY <1>3, <1>4, <1>5, <1>6, <2>1
<1>9. y = v
  BY <1>4, <1>7, <1>8, SeqEqual
<1> QED
  BY <1>9 DEF v

-----------------------------------------------------------------------------
(* The bytes that the stream has delivered are the first ones of the set.   *)

Pos == Len(BytesOf(out))
Windows == [k \in DOMAIN shards |-> Window(k)]
Before(k) == Len(BytesOf(SubSeq(Windows, 1, k - 1)))

(* The arguments of the call are lists and numbers.                        *)
LEMMA CallFacts ==
  ASSUME SP!TypeOK
  PROVE  /\ out \in Seq(Extent)
         /\ Len(shards) \in Nat /\ DOMAIN shards = 1 .. Len(shards)
         /\ \A k \in 1 .. Len(shards) :
              /\ shards[k].offset \in Nat /\ shards[k].length \in Nat /\ shards[k].size \in Nat
<1>1. out \in Seq(Extent)
  BY DEF SP!TypeOK, SP!ExtentType, Extent
<1>2. shards \in Seq(S!ShardType)
  BY ShardListsAssumption DEF SP!TypeOK
<1>3. \A k \in 1 .. Len(shards) : shards[k] \in S!ShardType
  BY <1>2, LenProperties
<1> QED
  BY <1>1, <1>2, <1>3, LenProperties DEF S!ShardType

(* The windows are extents, one for each shard.                            *)
LEMMA WindowFacts ==
  ASSUME SP!TypeOK
  PROVE  /\ Windows \in Seq(Extent) /\ Len(Windows) = Len(shards)
         /\ SetBytes = BytesOf(Windows)
         /\ \A k \in 1 .. Len(shards) :
              /\ SP!Stream!ReadableEnd(k) \in Nat
              /\ Windows[k].sh = k /\ Windows[k].at = shards[k].offset
              /\ Windows[k].n = IF SP!Stream!ReadableEnd(k) < shards[k].offset THEN 0
                                ELSE SP!Stream!ReadableEnd(k) - shards[k].offset
<1>1. /\ Len(shards) \in Nat /\ DOMAIN shards = 1 .. Len(shards)
      /\ \A k \in 1 .. Len(shards) :
           /\ shards[k].offset \in Nat /\ shards[k].length \in Nat /\ shards[k].size \in Nat
  BY CallFacts
<1>2. ASSUME NEW k \in 1 .. Len(shards)
      PROVE  /\ SP!Stream!ReadableEnd(k) \in Nat
             /\ Windows[k].sh = k /\ Windows[k].at = shards[k].offset
             /\ Windows[k].n = IF SP!Stream!ReadableEnd(k) < shards[k].offset THEN 0
                               ELSE SP!Stream!ReadableEnd(k) - shards[k].offset
             /\ Windows[k] \in Extent
  <2>1. Windows[k] = Window(k)
    BY <1>1 DEF Windows
  <2>2. SP!Stream!ReadableEnd(k) \in Nat
    BY <1>1 DEF SP!Stream!ReadableEnd
  <2> DEFINE held == S!Min2(shards[k].offset + shards[k].length, shards[k].size)
  <2>3. held = SP!Stream!ReadableEnd(k)
    <3>1. /\ shards[k].offset \in Nat /\ shards[k].length \in Nat /\ shards[k].size \in Nat
      BY <1>1
    <3>2. \A a, b \in Nat : S!Min2(a, b) = IF b < a THEN b ELSE a
      BY DEF S!Min2
    <3>3. shards[k].offset + shards[k].length \in Nat
      BY <3>1
    <3> QED BY <3>1, <3>2, <3>3 DEF SP!Stream!ReadableEnd
  <2>4. Window(k) = [sh |-> k, at |-> shards[k].offset, n |-> S!Max2(0, held - shards[k].offset)]
    BY DEF Window
  <2>5. S!Max2(0, held - shards[k].offset)
          = IF SP!Stream!ReadableEnd(k) < shards[k].offset THEN 0
            ELSE SP!Stream!ReadableEnd(k) - shards[k].offset
    BY <1>1, <2>2, <2>3 DEF S!Max2
  <2> HIDE DEF held
  <2>6. S!Max2(0, held - shards[k].offset) \in Nat
    BY <1>1, <2>2, <2>5
  <2> QED
    BY <1>1, <2>1, <2>2, <2>4, <2>5, <2>6 DEF Extent
<1>3. Windows \in [1 .. Len(shards) -> Extent]
  BY <1>1, <1>2 DEF Windows
<1>4. Windows \in Seq(Extent)
  <2>1. \A m \in Nat : \A f \in [1 .. m -> Extent] : f \in Seq(Extent)
    BY SeqDef
  <2> QED
    BY <1>1, <1>3, <2>1, Zenon
<1>5. Len(Windows) = Len(shards)
  BY <1>1, <1>3, <1>4, LenProperties
<1> QED
  BY <1>2, <1>4, <1>5 DEF SetBytes, Windows

(* How the windows' bytes are laid out in the set.                         *)
LEMMA BeforeFacts ==
  ASSUME SP!TypeOK
  PROVE  /\ SetBytes \in Seq(Byte) /\ Len(SetBytes) \in Nat
         /\ Before(1) = 0 /\ Before(Len(shards) + 1) = Len(SetBytes)
         /\ \A k \in 1 .. Len(shards) :
              /\ Before(k) \in Nat /\ Windows[k].n \in Nat
              /\ Before(k + 1) = Before(k) + Windows[k].n
              /\ Before(k) + Windows[k].n <= Len(SetBytes)
              /\ \A j \in 1 .. Windows[k].n :
                   SetBytes[Before(k) + j] = <<k, shards[k].offset + j - 1>>
<1>1. /\ Windows \in Seq(Extent) /\ Len(Windows) = Len(shards) /\ Len(shards) \in Nat
      /\ SetBytes = BytesOf(Windows)
  BY WindowFacts, CallFacts
<1>2. SetBytes \in Seq(Byte) /\ Len(SetBytes) \in Nat
  BY <1>1, BytesType
<1>3. Before(1) = 0
  <2>1. SubSeq(Windows, 1, 1 - 1) = <<>>
    BY <1>1, SubSeqEmpty
  <2> QED BY <2>1, BytesType, EmptySeq DEF Before
<1>4. Before(Len(shards) + 1) = Len(SetBytes)
  <2>1. (Len(shards) + 1) - 1 = Len(Windows)
    BY <1>1
  <2>2. SubSeq(Windows, 1, Len(Windows)) = Windows
    BY <1>1, SubSeqFull
  <2> QED BY <1>1, <2>1, <2>2 DEF Before
<1>5. ASSUME NEW k \in 1 .. Len(shards)
      PROVE  /\ Before(k) \in Nat /\ Windows[k].n \in Nat
             /\ Before(k + 1) = Before(k) + Windows[k].n
             /\ Before(k) + Windows[k].n <= Len(SetBytes)
             /\ \A j \in 1 .. Windows[k].n :
                  SetBytes[Before(k) + j] = <<k, shards[k].offset + j - 1>>
  <2>1. k \in 1 .. Len(Windows) /\ (k + 1) - 1 = k
    BY <1>1
  <2>2. /\ Before(k) \in Nat
        /\ Before(k + 1) = Before(k) + Windows[k].n
        /\ Before(k) + Windows[k].n <= Len(SetBytes)
        /\ \A j \in 1 .. Windows[k].n :
             SetBytes[Before(k) + j] = <<Windows[k].sh, Windows[k].at + j - 1>>
    BY <1>1, <2>1, BytesAt DEF Before
  <2>3. Windows[k] \in Extent /\ Windows[k].sh = k /\ Windows[k].at = shards[k].offset
    BY <1>1, <2>1, WindowFacts, LenProperties
  <2> QED BY <2>2, <2>3 DEF Extent
<1> QED
  BY <1>2, <1>3, <1>4, <1>5

\* How many bytes of shard k are delivered, if the stream is in it or before.
Come(k) == SP!Stream!Reached(k) - shards[k].offset

\* The bytes delivered are those before shard k, and what has come of it.
Placed(k) == Pos = Before(k) + (IF k <= Len(shards) THEN Come(k) ELSE 0)

Delivered ==
  /\ Pos <= Len(SetBytes)
  /\ BytesOf(out) = SubSeq(SetBytes, 1, Pos)
  /\ out # <<>> =>
       /\ SP!Stream!Current \in 1 .. Len(shards)
       /\ Come(SP!Stream!Current) \in 0 .. Windows[SP!Stream!Current].n
       /\ Placed(SP!Stream!Current)

(* A shard that is exhausted has come as far as its window goes.           *)
LEMMA ComeFacts ==
  ASSUME SP!TypeOK, Delivered
  PROVE  /\ SP!Stream!Current \in Nat \ {0}
         /\ \A k \in 1 .. Len(shards) : SP!Stream!Current <= k =>
              /\ Come(k) \in 0 .. Windows[k].n
              /\ SP!Stream!Reached(k) = shards[k].offset + Come(k)
              /\ SP!Stream!Current < k => Come(k) = 0
              /\ out = <<>> => Come(k) = 0
              /\ SP!Stream!Exhausted(k) => Come(k) = Windows[k].n
<1>1. out = <<>> => SP!Stream!Current = 1
  BY DEF SP!Stream!Current
<1>2. out # <<>> => SP!Stream!Current \in 1 .. Len(shards)
  BY DEF Delivered
<1>3. SP!Stream!Current \in Nat \ {0}
  BY <1>1, <1>2
<1> SUFFICES ASSUME NEW k \in 1 .. Len(shards), SP!Stream!Current <= k
             PROVE  /\ Come(k) \in 0 .. Windows[k].n
                    /\ SP!Stream!Reached(k) = shards[k].offset + Come(k)
                    /\ SP!Stream!Current < k => Come(k) = 0
                    /\ out = <<>> => Come(k) = 0
                    /\ SP!Stream!Exhausted(k) => Come(k) = Windows[k].n
  BY <1>3
<1>4. /\ shards[k].offset \in Nat /\ SP!Stream!ReadableEnd(k) \in Nat
      /\ Windows[k].n = IF SP!Stream!ReadableEnd(k) < shards[k].offset THEN 0
                        ELSE SP!Stream!ReadableEnd(k) - shards[k].offset
  BY CallFacts, WindowFacts
<1>5. CASE out # <<>> /\ SP!Stream!Current = k
  <2>1. Come(k) \in 0 .. Windows[k].n
    BY <1>5 DEF Delivered
  <2>2. out \in Seq(Extent) /\ out # <<>>
    BY <1>5, CallFacts
  <2>3. out[Len(out)] \in Extent
    BY <2>2, HeadTailProperties, EmptySeq, LenProperties
  <2>4. SP!Stream!Reached(k) = out[Len(out)].at + out[Len(out)].n
    BY <1>5 DEF SP!Stream!Reached
  <2>5. SP!Stream!Reached(k) \in Nat
    BY <2>3, <2>4 DEF Extent
  <2>6. SP!Stream!Exhausted(k) => SP!Stream!Reached(k) >= SP!Stream!ReadableEnd(k)
    BY DEF SP!Stream!Exhausted
  <2> QED
    BY <1>3, <1>4, <1>5, <2>1, <2>5, <2>6 DEF Come
<1>6. CASE out = <<>> \/ SP!Stream!Current < k
  <2>1. SP!Stream!Reached(k) = shards[k].offset
    BY <1>3, <1>6 DEF SP!Stream!Reached
  <2>2. SP!Stream!Exhausted(k) => SP!Stream!Reached(k) >= SP!Stream!ReadableEnd(k)
    BY DEF SP!Stream!Exhausted
  <2> QED
    BY <1>4, <2>1, <2>2 DEF Come
<1> QED
  BY <1>3, <1>5, <1>6

(* So the stream may skip exhausted shards without skipping bytes.         *)
LEMMA SkipFacts ==
  ASSUME SP!TypeOK, Delivered,
         NEW m \in Nat, SP!Stream!Current <= m, m <= Len(shards) + 1,
         \A k \in SP!Stream!Current .. m - 1 : SP!Stream!Exhausted(k)
  PROVE  Placed(m)
<1>1. SP!Stream!Current \in Nat \ {0} /\ Len(shards) \in Nat
  BY ComeFacts, CallFacts
<1> DEFINE first == SP!Stream!Current
           T == {i \in 0 .. m - first : Placed(first + i)}
<1>2. 0 \in T
  <2>1. CASE out # <<>>
    BY <1>1, <2>1 DEF Delivered
  <2>2. CASE out = <<>>
    <3>1. Pos = 0
      BY <2>2, BytesType, CallFacts, EmptySeq DEF Pos
    <3>2. first = 1
      BY <2>2 DEF SP!Stream!Current
    <3>3. first <= Len(shards) => Come(first) = 0
      BY <1>1, <2>2, ComeFacts
    <3>4. Before(1) = 0
      BY BeforeFacts
    <3> QED
      BY <1>1, <3>1, <3>2, <3>3, <3>4 DEF Placed
  <2> QED
    BY <2>1, <2>2
<1>3. \A i \in 1 .. m - first : i - 1 \in T => i \in T
  <2> SUFFICES ASSUME NEW i \in 1 .. m - first, Placed(first + (i - 1))
               PROVE  Placed(first + i)
    BY <1>1
  <2> DEFINE k == first + (i - 1)
  <2>1. k \in 1 .. Len(shards) /\ first <= k /\ k \in first .. m - 1 /\ first + i = k + 1
    BY <1>1
  <2>2. Come(k) = Windows[k].n
    BY <2>1, ComeFacts
  <2>3. Before(k + 1) = Before(k) + Windows[k].n /\ Before(k) \in Nat /\ Windows[k].n \in Nat
    BY <2>1, BeforeFacts
  <2>4. Pos = Before(k) + Come(k)
    BY <2>1 DEF Placed
  <2>5. k + 1 <= Len(shards) => Come(k + 1) = 0
    BY <1>1, <2>1, ComeFacts
  <2> HIDE DEF k
  <2> QED
    BY <2>1, <2>2, <2>3, <2>4, <2>5 DEF Placed
<1>4. m - first \in Nat /\ m - first \in 0 .. m - first
  BY <1>1
<1> HIDE DEF T
<1>5. m - first \in T
  BY <1>2, <1>3, <1>4, Induction
<1> QED
  BY <1>1, <1>5 DEF T

(* A stream that has exhausted every shard has delivered the set.          *)
LEMMA AllDelivered ==
  ASSUME SP!TypeOK, Delivered, SP!Stream!Current <= Len(shards) + 1,
         \A k \in SP!Stream!Current .. Len(shards) : SP!Stream!Exhausted(k)
  PROVE  Pos = Len(SetBytes)
<1>1. Len(shards) \in Nat /\ Len(shards) + 1 \in Nat /\ (Len(shards) + 1) - 1 = Len(shards)
  BY CallFacts
<1>2. Placed(Len(shards) + 1)
  BY <1>1, SkipFacts
<1>3. ~(Len(shards) + 1 <= Len(shards)) /\ Before(Len(shards) + 1) = Len(SetBytes)
      /\ Len(SetBytes) \in Nat
  BY <1>1, BeforeFacts
<1> QED
  BY <1>2, <1>3 DEF Placed

(* The set does not change during the call.                                *)
LEMMA SameSet ==
  ASSUME shards' = shards
  PROVE  /\ SetBytes' = SetBytes /\ Windows' = Windows
         /\ \A k : Before(k)' = Before(k)
         /\ \A k : SP!Stream!ReadableEnd(k)' = SP!Stream!ReadableEnd(k)
BY DEF SetBytes, Windows, Window, Before, SP!Stream!ReadableEnd

(* Nor does what was delivered when nothing is.                            *)
LEMMA SameDelivered ==
  ASSUME Delivered, UNCHANGED <<shards, out>>
  PROVE  Delivered' /\ Pos' = Pos
<1>1. Pos' = Pos
  BY DEF Pos
<1>2. SP!Stream!Current' = SP!Stream!Current
  BY DEF SP!Stream!Current
<1>3. \A k : SP!Stream!Reached(k)' = SP!Stream!Reached(k)
  BY DEF SP!Stream!Reached, SP!Stream!Current
<1>4. \A k : Come(k)' = Come(k)
  BY <1>3 DEF Come
<1>5. \A k : Placed(k)' = Placed(k)
  BY <1>1, <1>4, SameSet DEF Placed
<1>6. Come(SP!Stream!Current)' = Come(SP!Stream!Current)
      /\ Placed(SP!Stream!Current)' = Placed(SP!Stream!Current)
  BY <1>1, <1>2, <1>3, SameSet DEF Come, Placed
<1> QED
  BY <1>1, <1>2, <1>6, SameSet DEF Delivered

(* An extent that is delivered holds the next bytes of the set.            *)
LEMMA DeliverFacts ==
  ASSUME SP!TypeOK, Delivered, NEW e \in Extent, SP!Stream!Deliver(e)
  PROVE  Delivered' /\ Pos' = Pos + e.n
<1> DEFINE k == e.sh
<1>1. /\ k \in SP!Stream!Current .. Len(shards)
      /\ \A i \in SP!Stream!Current .. k - 1 : SP!Stream!Exhausted(i)
      /\ e.n > 0 /\ e.at = SP!Stream!Reached(k) /\ e.at + e.n <= SP!Stream!ReadableEnd(k)
      /\ out' = Append(out, e) /\ shards' = shards
  BY DEF SP!Stream!Deliver
<1>2. /\ SP!Stream!Current \in Nat \ {0} /\ Len(shards) \in Nat /\ out \in Seq(Extent)
      /\ e.n \in Nat /\ e.at \in Nat
  BY ComeFacts, CallFacts DEF Extent
<1>3. k \in 1 .. Len(shards) /\ k \in Nat /\ SP!Stream!Current <= k /\ k <= Len(shards) + 1
  BY <1>1, <1>2
<1> HIDE DEF k
<1>4. Placed(k)
  BY <1>1, <1>3, SkipFacts
<1>5. /\ Come(k) \in Nat /\ e.at = shards[k].offset + Come(k)
      /\ shards[k].offset \in Nat /\ SP!Stream!ReadableEnd(k) \in Nat
      /\ Windows[k].n = IF SP!Stream!ReadableEnd(k) < shards[k].offset THEN 0
                        ELSE SP!Stream!ReadableEnd(k) - shards[k].offset
  BY <1>1, <1>3, ComeFacts, CallFacts, WindowFacts
<1>6. Come(k) + e.n <= Windows[k].n
  <2> DEFINE come == Come(k)
             offset == shards[k].offset
             end == SP!Stream!ReadableEnd(k)
  <2>1. come \in Nat /\ offset \in Nat /\ end \in Nat /\ e.n \in Nat
    BY <1>2, <1>5
  <2>2. e.n > 0 /\ (offset + come) + e.n <= end
    BY <1>1, <1>5
  <2>3. Windows[k].n = IF end < offset THEN 0 ELSE end - offset
    BY <1>5
  <2> HIDE DEF come, offset, end
  <2>4. come + e.n <= IF end < offset THEN 0 ELSE end - offset
    BY <2>1, <2>2
  <2> QED
    BY <2>3, <2>4 DEF come
<1>7. /\ SetBytes \in Seq(Byte) /\ Len(SetBytes) \in Nat
      /\ Before(k) \in Nat /\ Windows[k].n \in Nat
      /\ Before(k) + Windows[k].n <= Len(SetBytes)
      /\ \A j \in 1 .. Windows[k].n : SetBytes[Before(k) + j] = <<k, shards[k].offset + j - 1>>
  BY <1>3, BeforeFacts
<1>8. Pos = Before(k) + Come(k) /\ Pos \in Nat
  BY <1>3, <1>4, <1>5, <1>7 DEF Placed
<1> DEFINE come == Come(k)
           n == Windows[k].n
           before == Before(k)
           all == Len(SetBytes)
<1>22. /\ come \in Nat /\ n \in Nat /\ before \in Nat /\ all \in Nat /\ e.n \in Nat /\ e.n > 0
       /\ come + e.n <= n /\ before + n <= all /\ Pos = before + come
  BY <1>1, <1>2, <1>5, <1>6, <1>7, <1>8
<1> HIDE DEF come, n, before, all
<1>9. Pos + e.n <= Len(SetBytes)
  <2>1. Pos + e.n <= all
    BY <1>22
  <2> QED
    BY <2>1 DEF all
<1>10. /\ ExtentBytes(e) \in Seq(Byte) /\ Len(ExtentBytes(e)) = e.n
       /\ \A j \in 1 .. e.n : ExtentBytes(e)[j] = <<k, e.at + j - 1>>
  BY ExtentFacts DEF k
<1>11. \A j \in 1 .. e.n : ExtentBytes(e)[j] = SetBytes[Pos + j]
  <2> SUFFICES ASSUME NEW j \in 1 .. e.n PROVE ExtentBytes(e)[j] = SetBytes[Pos + j]
    OBVIOUS
  <2>1. Come(k) + j \in 1 .. Windows[k].n
    <3>1. come + j \in 1 .. n
      BY <1>22
    <3> QED
      BY <3>1 DEF come, n
  <2>2. SetBytes[Before(k) + (Come(k) + j)] = <<k, shards[k].offset + (Come(k) + j) - 1>>
    BY <1>7, <2>1
  <2>3. Before(k) + (Come(k) + j) = Pos + j
    BY <1>5, <1>7, <1>8
  <2>4. shards[k].offset + (Come(k) + j) - 1 = e.at + j - 1
    <3>1. j \in Nat /\ Come(k) \in Nat /\ shards[k].offset \in Nat
          /\ e.at = shards[k].offset + Come(k)
      BY <1>5
    <3> QED
      BY <3>1
  <2> QED
    BY <1>10, <2>2, <2>3, <2>4
<1>12. BytesOf(out') = BytesOf(out) \o ExtentBytes(e)
  BY <1>1, <1>2, BytesAppend
<1>13. BytesOf(out') = SubSeq(SetBytes, 1, Pos + e.n)
  <2>1. SubSeq(SetBytes, 1, Pos) \o ExtentBytes(e) = SubSeq(SetBytes, 1, Pos + Len(ExtentBytes(e)))
    BY <1>7, <1>8, <1>9, <1>10, <1>11, Continued
  <2> QED
    BY <1>10, <1>12, <2>1 DEF Delivered
<1>14. Pos' = Pos + e.n
  <2>1. Len(BytesOf(out')) = Len(BytesOf(out)) + Len(ExtentBytes(e))
    <3>1. BytesOf(out) \in Seq(Byte)
      BY <1>2, BytesType
    <3> QED BY <1>10, <1>12, <3>1, ConcatProperties
  <2> QED
    BY <1>10, <2>1 DEF Pos
<1>15. out' # <<>> /\ out'[Len(out')] = e
  BY <1>1, <1>2, AppendProperties, EmptySeq, LenProperties
<1>16. SP!Stream!Current' = k
  BY <1>15 DEF SP!Stream!Current, k
<1>17. SP!Stream!Reached(k)' = e.at + e.n
  BY <1>15, <1>16 DEF SP!Stream!Reached
<1>18. Come(k)' = Come(k) + e.n
  BY <1>1, <1>2, <1>5, <1>17 DEF Come
<1>19. Placed(k)'
  <2>1. shards' = shards
    BY <1>1
  <2>2. Before(k)' = Before(k)
    BY <2>1, SameSet
  <2>3. Pos + e.n = Before(k) + (Come(k) + e.n)
    <3>1. Pos + e.n = before + (come + e.n)
      BY <1>22
    <3> QED
      BY <3>1 DEF before, come
  <2>4. Pos' = Before(k)' + Come(k)' /\ k <= Len(shards')
    BY <1>3, <1>14, <1>18, <2>1, <2>2, <2>3
  <2> QED
    BY <2>4 DEF Placed
<1>20. Come(SP!Stream!Current)' = Come(k)' /\ Placed(SP!Stream!Current)' = Placed(k)'
  <2>1. SP!Stream!Reached(SP!Stream!Current)' = SP!Stream!Reached(k)'
    BY <1>16 DEF SP!Stream!Reached
  <2>2. Come(SP!Stream!Current)' = Come(k)'
    BY <1>16, <2>1 DEF Come
  <2> QED
    BY <1>16, <2>2, SameSet DEF Placed, Before
<1>21. Come(k)' \in 0 .. Windows'[k].n
  <2>1. come + e.n \in 0 .. n
    BY <1>22
  <2>2. Windows'[k].n = n
    BY <1>1, SameSet DEF n
  <2> QED
    BY <1>18, <2>1, <2>2 DEF come
<1> QED
  BY <1>1, <1>3, <1>9, <1>13, <1>14, <1>16, <1>19, <1>20, <1>21, SameSet DEF Delivered

(* Nothing is delivered at first.                                          *)
LEMMA InitDelivered == Init => Delivered
<1> SUFFICES ASSUME Init PROVE Delivered
  OBVIOUS
<1>1. SP!TypeOK
  BY SameStream, SP!InitTypeOK, StreamAssumptions DEF Init
<1>2. out = <<>>
  BY DEF Init, S!Init
<1>3. out \in Seq(Extent)
  BY <1>1, CallFacts
<1>4. Pos = 0 /\ BytesOf(out) = <<>>
  BY <1>2, <1>3, BytesType, EmptySeq DEF Pos
<1>5. SetBytes \in Seq(Byte) /\ Len(SetBytes) \in Nat
  BY <1>1, BeforeFacts
<1>6. SubSeq(SetBytes, 1, 0) = <<>>
  BY <1>5, SubSeqEmpty
<1>7. BytesOf(out) = SubSeq(SetBytes, 1, Pos)
  BY <1>4, <1>6
<1>8. Pos <= Len(SetBytes)
  BY <1>4, <1>5
<1> QED
  BY <1>2, <1>7, <1>8, Zenon DEF Delivered

(* Every step delivers the next bytes of the set, or none.                 *)
LEMMA NextDelivered ==
  ASSUME SP!IInv, SP!OrderInv, SP!TypeOK', Delivered, [SP!Next]_(SP!vars)
  PROVE  /\ Delivered' /\ shards' = shards
         /\ \/ out' = out /\ Pos' = Pos
            \/ \E e \in Extent : out' = Append(out, e) /\ Pos' = Pos + e.n
<1>1. [SP!Stream!Next]_(SP!Stream!vars)
  BY SP!NextStream, StreamAssumptions
<1>2. SP!TypeOK
  BY DEF SP!IInv
<1>3. shards' = shards
  BY SP!InputsFixed, StreamAssumptions
<1>4. CASE SP!Stream!Finish \/ UNCHANGED SP!Stream!vars
  <2>1. out' = out
    BY <1>4 DEF SP!Stream!Finish, SP!Stream!vars
  <2> QED
    BY <1>3, <2>1, SameDelivered
<1>5. ASSUME Len(out') = Len(out) + 1, SP!Stream!Deliver(out'[Len(out) + 1])
      PROVE  /\ Delivered'
             /\ \E e \in Extent : out' = Append(out, e) /\ Pos' = Pos + e.n
  <2> DEFINE e == out'[Len(out) + 1]
  <2>1. e \in Extent
    <3>1. out' \in Seq(Extent)
      BY DEF SP!TypeOK, SP!ExtentType, Extent
    <3>2. Len(out) + 1 \in 1 .. Len(out')
      BY <1>2, <1>5, CallFacts, LenProperties
    <3> QED
      BY <3>1, <3>2, LenProperties
  <2>2. out' = Append(out, e)
    BY <1>5 DEF SP!Stream!Deliver
  <2> HIDE DEF e
  <2>3. SP!Stream!Deliver(e)
    BY <1>5 DEF e
  <2> QED
    BY <1>2, <2>1, <2>2, <2>3, DeliverFacts
<1> QED
  BY <1>1, <1>3, <1>4, <1>5 DEF SP!Stream!Next

(* Copying n bytes moves the end of what was delivered by n.               *)
LEMMA CopiedBytes ==
  ASSUME SP!TypeOK, NEW e \in Extent, NEW n \in Nat, out' = SP!Copied(out, SP!Prefix(e, n))
  PROVE  Pos' = Pos + n
<1>1. SP!Prefix(e, n) \in Extent /\ SP!Prefix(e, n).n = n
  BY SP!ExtentFacts, StreamAssumptions DEF Extent, SP!ExtentType
<1> DEFINE p == SP!Prefix(e, n)
<1>2. out \in Seq(Extent) /\ BytesOf(out) \in Seq(Byte) /\ Len(BytesOf(out)) \in Nat
  BY CallFacts, BytesType
<1>3. CASE n = 0
  <2>1. out' = out
    BY <1>1, <1>3 DEF SP!Copied
  <2> QED
    BY <1>2, <1>3, <2>1 DEF Pos
<1>4. CASE n # 0
  <2>1. out' = Append(out, p)
    BY <1>1, <1>4 DEF SP!Copied
  <2>2. p \in Extent /\ p.n = n
    BY <1>1
  <2> HIDE DEF p
  <2>3. BytesOf(out') = BytesOf(out) \o ExtentBytes(p)
    BY <1>2, <2>1, <2>2, BytesAppend
  <2>4. ExtentBytes(p) \in Seq(Byte) /\ Len(ExtentBytes(p)) = n
    BY <2>2, ExtentFacts
  <2> QED
    BY <1>2, <2>3, <2>4, ConcatProperties DEF Pos
<1> QED
  BY <1>3, <1>4

-----------------------------------------------------------------------------
(* Batches are cut where they should be.                                    *)

(* Which steps deliver bytes, and which make up a batch.                   *)
LEMMA DatasetSteps ==
  ASSUME [Next]_vars
  PROVE  /\ UNCHANGED <<options, segment_bytes, total>>
         /\ \/ /\ ppc = "read" /\ (SP!Read \/ SP!TakeFront)
               /\ UNCHANGED <<produced, cuts, seen, ppc>>
            \/ ReadOk /\ SP!ReadReturns
            \/ /\ UNCHANGED <<out, produced, cuts>>
               /\ SP!Running' => UNCHANGED <<filled, lastRet>> /\ (pc' = "idle" <=> pc = "idle")
<1> DEFINE Quiet ==
      /\ UNCHANGED <<out, produced, cuts>>
      /\ SP!Running' => UNCHANGED <<filled, lastRet>> /\ (pc' = "idle" <=> pc = "idle")
<1>1. CASE InRead
  <2>1. UNCHANGED <<options, segment_bytes, total>> /\ ppc = "read"
        /\ UNCHANGED <<produced, cuts, seen, ppc>>
    BY <1>1 DEF InRead, fixed, pipelineVars
  <2>2. SP!Read \/ SP!TakeFront \/ Quiet
    <3>1. CASE S!Read
      BY <3>1, SameStream
    <3>2. CASE S!TakeFront
      BY <3>2, SameStream
    <3>3. CASE S!OpenShard \/ S!BeginFill \/ (\E s \in S!Slots : S!FillOne(s))
               \/ S!Submit \/ S!NothingToSubmit \/ (\E c \in cq : S!Reap(c)) \/ S!CloseShard
      <4>1. UNCHANGED <<out, filled, lastRet>> /\ pc # "idle" /\ pc' # "idle"
        BY <3>3 DEF S!OpenShard, S!MustOpen, S!BeginFill, S!FillOne, S!Submit,
           S!SubmitLeaving, S!NothingToSubmit, S!Reap, S!AwaitsFront, S!CloseShard, S!CloseWith, S!batchVars
      <4> QED
        BY <2>1, <4>1
    <3>4. CASE S!OpenFails \/ S!OpenBackendFails \/ S!SubmitFails \/ S!ReapFails
      <4>1. out' = out /\ pc' = "failed"
        BY <3>4 DEF S!OpenFails, S!OpenBackendFails, S!SubmitFails, S!ReapFails, S!batchVars
      <4> QED
        BY <2>1, <4>1 DEF SP!Running
    <3> QED
      BY <1>1, <3>1, <3>2, <3>3, <3>4 DEF InRead
  <2> QED
    BY <2>1, <2>2
<1>2. CASE ReadOk
  <2>1. SP!ReadReturns
    BY <1>2, SameStream DEF ReadOk
  <2> QED
    BY <1>2, <2>1 DEF ReadOk, fixed
<1>3. CASE ReadEnd
  <2>1. UNCHANGED <<options, segment_bytes, total>> /\ UNCHANGED <<out, produced, cuts>>
        /\ pc' = "end"
    BY <1>3 DEF ReadEnd, fixed, S!ReadReturns, GotNothing
  <2> QED
    BY <2>1 DEF SP!Running
<1>4. CASE Device \/ DestroyStream
  <2>1. UNCHANGED <<options, segment_bytes, total>> /\ UNCHANGED <<out, produced, cuts>>
    BY <1>4 DEF Device, DestroyStream, S!Device, S!Complete, S!CompleteOrphan, S!Destructor,
       S!DestroyBuffers, S!DestroyBackend, S!batchVars, fixed, pipelineVars
  <2>2. SP!Running' => UNCHANGED <<filled, lastRet>> /\ pc' = pc
    BY <1>4 DEF Device, DestroyStream, S!Device, S!Complete, S!CompleteOrphan, S!Destructor,
       S!DestroyBuffers, S!DestroyBackend, S!batchVars, SP!Running
  <2> QED
    BY <2>1, <2>2
<1>5. CASE BetweenReads \/ ReadFails \/ Caller \/ Finished \/ UNCHANGED vars
  <2>1. UNCHANGED <<options, segment_bytes, total, streamVars, cuts, produced>>
    BY <1>5 DEF vars, fixed, pipelineVars, BetweenReads, ReadFails, Caller, Finished,
       P!producerVars, P!consumerVars,
       P!PRecv, P!PRecvClosed, P!PSetError, P!PClose, P!PSend, P!PSendClosed, P!PReadFails,
       P!Consumer, P!RejectOptions, P!Start, P!CRecv, P!CRecvClosed, P!CCallback,
       P!CCallbackThrows, P!CRecycle, P!CCloseFree, P!CCloseReady, P!CTake, P!CJoin
  <2> QED
    BY <2>1 DEF streamVars
<1> QED
  BY <1>1, <1>2, <1>3, <1>4, <1>5 DEF Next, Producer

\* While read() may be called or goes on: every batch so far was full, or the
\* set is delivered.
Counted ==
  /\ produced \in Nat
  /\ SP!Running =>
       /\ lastRet = options.batch_bytes =>
            Pos = produced * options.batch_bytes + (IF pc = "idle" THEN 0 ELSE filled)
       /\ lastRet # options.batch_bytes =>
            /\ Pos = Len(SetBytes) /\ Pos <= produced * options.batch_bytes
            /\ pc = "idle" \/ filled = 0

(* What read() finds when it is about to return.                           *)
LEMMA ReturnFacts ==
  ASSUME SP!IInv, SP!OrderInv, Delivered, Counted, SP!ReadReturns
  PROVE  /\ filled \in Nat /\ filled <= options.batch_bytes
         /\ filled # 0 => /\ Pos = produced * options.batch_bytes + filled
                          /\ Pos <= Len(SetBytes)
         /\ filled # options.batch_bytes => /\ Pos = Len(SetBytes)
                                            /\ Pos <= produced * options.batch_bytes + filled
<1>1. pc = "loop" /\ (filled = options.batch_bytes \/ (~open /\ next > Len(shards)))
  BY DEF SP!ReadReturns, SP!BatchFull, SP!StreamDone, StreamOptions
<1>2. SP!Running /\ SP!TypeOK
  BY <1>1 DEF SP!Running, SP!IInv
<1>3. /\ filled \in Nat /\ filled <= options.batch_bytes /\ options.batch_bytes \in Nat \ {0}
      /\ next \in Nat \ {0} /\ next <= Len(shards) + 1
  BY <1>2, SP!EntryFacts, StreamAssumptions DEF StreamOptions
<1>4. Pos \in Nat /\ Len(SetBytes) \in Nat /\ Pos <= Len(SetBytes)
  BY <1>2, CallFacts, BytesType, BeforeFacts DEF Pos, Delivered
<1>5. produced * options.batch_bytes \in Nat
  BY <1>3 DEF Counted
<1>6. filled # 0 => Pos = produced * options.batch_bytes + filled
  BY <1>1, <1>2 DEF Counted
<1>7. ASSUME filled # options.batch_bytes PROVE Pos = Len(SetBytes)
  <2>1. ~open /\ next > Len(shards) /\ Len(shards) \in Nat
    BY <1>1, <1>2, <1>7, CallFacts
  <2>2. next = Len(shards) + 1 /\ next - 1 = Len(shards)
    BY <1>3, <2>1
  <2>3. \A k \in SP!Stream!Current .. Len(shards) : SP!Stream!Exhausted(k)
    BY <1>2, <2>2 DEF SP!OrderInv, SP!Streamed
  <2>4. SP!Stream!Current <= Len(shards) + 1
    <3>1. out = <<>> \/ SP!Stream!Current < next
      BY <1>2, <2>1 DEF SP!OrderInv, SP!Streamed
    <3>2. out = <<>> => SP!Stream!Current = 1
      BY DEF SP!Stream!Current
    <3>3. SP!Stream!Current \in Nat
      BY <1>2, ComeFacts
    <3> QED
      BY <1>3, <2>1, <2>2, <3>1, <3>2, <3>3
  <2> QED
    BY <1>2, <2>3, <2>4, AllDelivered
<1>8. filled = 0 => Pos <= produced * options.batch_bytes
  BY <1>1, <1>2, <1>4, <1>5 DEF Counted
<1> QED
  BY <1>3, <1>4, <1>5, <1>6, <1>7, <1>8

(* Before the first read() nothing is delivered and no batch is made up.   *)
LEMMA InitCounted == Init => Counted
<1> SUFFICES ASSUME Init PROVE Counted
  OBVIOUS
<1>1. SP!TypeOK
  BY SameStream, SP!InitTypeOK, StreamAssumptions DEF Init
<1>2. Pos = 0
  <2>1. out = <<>>
    BY DEF Init, S!Init
  <2> QED
    BY <1>1, <2>1, BytesType, CallFacts, EmptySeq DEF Pos
<1>3. produced = 0 /\ pc = "idle" /\ lastRet = options.batch_bytes
  BY DEF Init, P!Init, S!Init, StreamOptions
<1>4. options.batch_bytes \in Nat
  BY <1>1, SP!EntryFacts, StreamAssumptions DEF StreamOptions
<1> QED
  BY <1>2, <1>3, <1>4 DEF Counted

(* Full batches follow each other until the set is delivered.              *)
LEMMA NextCounted ==
  ASSUME SP!IInv, SP!OrderInv, SP!TypeOK', Delivered, Delivered', Counted, [Next]_vars
  PROVE  Counted'
<1> DEFINE bytes == options.batch_bytes
           full == produced * bytes
<1>0. SP!TypeOK /\ SP!Places
  BY DEF SP!IInv
<1>1. /\ bytes \in Nat \ {0} /\ filled \in Nat /\ filled <= bytes /\ produced \in Nat
      /\ full \in Nat /\ Pos \in Nat /\ Len(SetBytes) \in Nat
  <2>1. bytes \in Nat \ {0} /\ filled \in Nat /\ filled <= bytes /\ produced \in Nat
    BY <1>0, SP!EntryFacts, StreamAssumptions DEF StreamOptions, Counted
  <2>2. Pos \in Nat /\ Len(SetBytes) \in Nat
    BY <1>0, CallFacts, BytesType, BeforeFacts DEF Pos
  <2> QED
    BY <2>1, <2>2
<1>2. [SP!Next]_(SP!vars) /\ bytes' = bytes
  BY StreamStep, DatasetSteps
<1>3. SP!Running' => SP!Running
  BY <1>2, SP!RunningBefore, StreamAssumptions
<1>4. shards' = shards /\ SetBytes' = SetBytes
  BY <1>2, SP!InputsFixed, StreamAssumptions, SameSet
<1>5. ASSUME NEW n \in Nat, NEW e \in Extent, out' = SP!Copied(out, SP!Prefix(e, n)),
             SP!Running, produced' = produced, lastRet' = lastRet, pc' # "idle",
             \/ pc = "idle" /\ filled' = n /\ (n = bytes \/ n = carry.n)
             \/ pc # "idle" /\ filled' = filled + n /\ open
      PROVE  Counted'
  <2>1. Pos' = Pos + n
    BY <1>0, <1>5, CopiedBytes
  <2>2. CASE lastRet = bytes
    <3>1. Pos = full + (IF pc = "idle" THEN 0 ELSE filled)
      BY <1>5, <2>2 DEF Counted
    <3>2. Pos' = full + filled'
      <4> HIDE DEF full
      <4>1. CASE pc = "idle"
        <5>1. Pos = full /\ filled' = n
          <6>1. Pos = full + 0 /\ filled' = n
            BY <1>5, <3>1, <4>1
          <6>2. full \in Nat
            BY <1>1
          <6> QED
            BY <6>1, <6>2
        <5> QED
          BY <2>1, <5>1
      <4>2. CASE pc # "idle"
        <5>1. Pos = full + filled /\ filled' = filled + n
          BY <1>5, <3>1, <4>2
        <5> QED
          BY <1>1, <2>1, <5>1
      <4> QED
        BY <4>1, <4>2
    <3>3. lastRet' = bytes' /\ full = produced' * bytes'
      BY <1>2, <1>5, <2>2
    <3>4. Pos' = produced' * bytes' + filled'
      BY <3>2, <3>3
    <3> QED
      BY <1>1, <1>5, <3>3, <3>4 DEF Counted
  <2>3. CASE lastRet # bytes
    <3>1. Pos = Len(SetBytes) /\ Pos <= full
      BY <1>5, <2>3 DEF Counted
    <3>2. ~open /\ carry.n = 0
      <4>1. lastRet \in 0 .. StreamOptions(options, segment_bytes).batch_bytes
        BY <1>0 DEF SP!TypeOK
      <4>2. StreamOptions(options, segment_bytes).batch_bytes = bytes
        BY DEF StreamOptions
      <4> HIDE DEF bytes
      <4>3. lastRet < bytes
        BY <1>1, <2>3, <4>1, <4>2
      <4> QED
        BY <4>2, <4>3 DEF SP!OrderInv, SP!Ending
    <3>3. pc = "idle" /\ filled' = n
      BY <1>5, <3>2
    <3>4. Pos' <= Len(SetBytes)
      BY <1>4 DEF Delivered
    <3>5. n = 0
      BY <1>1, <2>1, <3>1, <3>4
    <3>6. Pos' = Len(SetBytes') /\ full = produced' * bytes' /\ lastRet' # bytes' /\ filled' = 0
      BY <1>1, <1>2, <1>4, <1>5, <2>1, <2>3, <3>1, <3>3, <3>5
    <3>7. Pos' <= produced' * bytes'
      BY <1>1, <2>1, <3>1, <3>5, <3>6
    <3> QED
      BY <1>1, <1>5, <3>6, <3>7 DEF Counted
  <2> QED
    BY <2>2, <2>3
<1>6. CASE ppc = "read" /\ SP!Read /\ UNCHANGED <<produced, cuts, seen, ppc>>
  <2>1. PICK n \in Nat : /\ out' = SP!Copied(out, SP!Prefix(carry, n)) /\ filled' = n
                         /\ n = bytes \/ n = carry.n
    BY <1>0, <1>6, SP!BatchFacts, StreamAssumptions DEF StreamOptions
  <2>2. carry \in Extent /\ SP!Running /\ pc = "idle" /\ pc' # "idle" /\ lastRet' = lastRet
    BY <1>0, <1>6 DEF SP!Read, SP!Running, SP!TypeOK, SP!ExtentType, Extent
  <2> QED
    BY <1>5, <1>6, <2>1, <2>2
<1>7. CASE ppc = "read" /\ SP!TakeFront /\ UNCHANGED <<produced, cuts, seen, ppc>>
  <2>1. PICK n \in Nat, e \in Extent : /\ out' = SP!Copied(out, SP!Prefix(e, n))
                                       /\ filled' = filled + n
    BY <1>0, <1>7, SP!BatchFacts, StreamAssumptions DEF SP!ExtentType, Extent
  <2>2. SP!Running /\ open /\ pc # "idle" /\ pc' # "idle" /\ lastRet' = lastRet
    BY <1>0, <1>7 DEF SP!TakeFront, SP!Running, SP!Places
  <2> QED
    BY <1>5, <1>7, <2>1, <2>2
<1>8. CASE ReadOk /\ SP!ReadReturns
  <2>1. filled # 0 /\ produced' = produced + 1 /\ out' = out /\ lastRet' = filled
        /\ pc' = "idle"
    BY <1>8 DEF ReadOk, GotNothing, SP!ReadReturns, SP!deviceVars
  <2>2. /\ Pos = full + filled
        /\ filled # bytes => Pos = Len(SetBytes)
    BY <1>8, <2>1, ReturnFacts
  <2>3. Pos' = Pos
    BY <2>1 DEF Pos
  <2>4. produced' * bytes' = full + bytes
    BY <1>1, <1>2, <2>1
  <2> HIDE DEF full
  <2>5. lastRet' = bytes' => Pos' = produced' * bytes'
    BY <1>2, <2>1, <2>2, <2>3, <2>4
  <2>6. lastRet' # bytes' => Pos' = Len(SetBytes') /\ Pos' <= produced' * bytes'
    BY <1>1, <1>2, <1>4, <2>1, <2>2, <2>3, <2>4
  <2>7. produced' * bytes' \in Nat
    BY <1>1, <2>4
  <2> QED
    BY <1>1, <2>1, <2>5, <2>6, <2>7 DEF Counted
<1>9. CASE /\ UNCHANGED <<out, produced, cuts>>
           /\ SP!Running' => UNCHANGED <<filled, lastRet>> /\ (pc' = "idle" <=> pc = "idle")
  <2>1. Pos' = Pos
    BY <1>9 DEF Pos
  <2> QED
    BY <1>2, <1>3, <1>4, <1>9, <2>1 DEF Counted
<1> QED
  BY <1>6, <1>7, <1>8, <1>9, DatasetSteps

CutAt(k) == IF k = 0 THEN 0 ELSE cuts[k]

\* Where batch k ends in the set.
EndOf(k) ==
  IF k * options.batch_bytes < Len(SetBytes) THEN k * options.batch_bytes ELSE Len(SetBytes)

\* Batch k ends at EndOf(k) and is not empty.
Cut ==
  /\ cuts \in Seq(Nat) /\ Len(cuts) = produced
  /\ \A k \in 0 .. produced :
       /\ CutAt(k) \in 0 .. Len(out)
       /\ BytesOf(SubSeq(out, 1, CutAt(k))) = SubSeq(SetBytes, 1, EndOf(k))
  /\ \A k \in 1 .. produced :
       /\ (k - 1) * options.batch_bytes < Len(SetBytes)
       /\ CutAt(k - 1) <= CutAt(k)

(* What follows does not change what came first.                           *)
LEMMA PrefixKept ==
  ASSUME NEW extents \in Seq(Extent), NEW e \in Extent, NEW k \in 0 .. Len(extents)
  PROVE  SubSeq(Append(extents, e), 1, k) = SubSeq(extents, 1, k)
<1>1. /\ Append(extents, e) \in Seq(Extent) /\ Len(Append(extents, e)) = Len(extents) + 1
      /\ \A i \in 1 .. Len(extents) : Append(extents, e)[i] = extents[i]
  BY AppendProperties
<1>2. Len(extents) \in Nat
  BY LenProperties
<1>3. \A i \in 1 .. k : extents[i] \in Extent /\ Append(extents, e)[i] \in Extent
  BY <1>1, <1>2, LenProperties
<1>4. SubSeq(Append(extents, e), 1, k) = [i \in 1 .. k |-> Append(extents, e)[i]]
  BY <1>1, <1>2, <1>3, SubSeqProperties
<1>5. SubSeq(extents, 1, k) = [i \in 1 .. k |-> extents[i]]
  BY <1>2, <1>3, SubSeqProperties
<1>6. \A i \in 1 .. k : Append(extents, e)[i] = extents[i]
  BY <1>1, <1>2
<1> QED
  BY <1>4, <1>5, <1>6

(* No batch is made up at first.                                           *)
LEMMA InitCut == Init => Cut
<1> SUFFICES ASSUME Init PROVE Cut
  OBVIOUS
<1>1. SP!TypeOK /\ options.batch_bytes \in Nat
  BY SameStream, SP!InitTypeOK, StreamAssumptions, OptionsAssumption DEF Init
<1>2. out \in Seq(Extent) /\ SetBytes \in Seq(Byte) /\ Len(SetBytes) \in Nat /\ Len(out) \in Nat
  BY <1>1, CallFacts, BeforeFacts, LenProperties
<1>3. produced = 0 /\ cuts = <<>>
  BY DEF Init, P!Init
<1>4. EndOf(0) = 0
  BY <1>1, <1>2 DEF EndOf
<1>5. SubSeq(out, 1, 0) = <<>> /\ SubSeq(SetBytes, 1, 0) = <<>>
  BY <1>2, SubSeqEmpty
<1>6. BytesOf(SubSeq(out, 1, 0)) = SubSeq(SetBytes, 1, EndOf(0))
  BY <1>4, <1>5, EmptySeq, BytesType
<1>7. \A k \in 0 .. produced : k = 0
  BY <1>3
<1>8. CutAt(0) = 0 /\ 0 \in 0 .. Len(out)
  BY <1>2 DEF CutAt
<1>9. \A k \in 1 .. produced : FALSE
  BY <1>3
<1>10. cuts \in Seq(Nat) /\ Len(cuts) = produced
  BY <1>3, EmptySeq
<1> QED
  BY <1>6, <1>7, <1>8, <1>9, <1>10, Zenon DEF Cut

(* A batch is cut where it ends in the set.                                *)
LEMMA NextCut ==
  ASSUME SP!IInv, SP!OrderInv, SP!TypeOK', Delivered, Counted, Cut, [Next]_vars
  PROVE  Cut'
<1> DEFINE bytes == options.batch_bytes
           all == Len(SetBytes)
<1>0. SP!TypeOK
  BY DEF SP!IInv
<1>1. /\ bytes \in Nat \ {0} /\ produced \in Nat /\ all \in Nat
      /\ out \in Seq(Extent) /\ Len(out) \in Nat
  BY <1>0, SP!EntryFacts, StreamAssumptions, CallFacts, BeforeFacts, LenProperties
  DEF StreamOptions, Counted
<1>2. [SP!Next]_(SP!vars) /\ bytes' = bytes
  BY StreamStep, DatasetSteps
<1>3. /\ SetBytes' = SetBytes
      /\ out' = out \/ \E e \in Extent : out' = Append(out, e)
  BY <1>2, NextDelivered, SameSet
<1>4. \A k : EndOf(k)' = EndOf(k)
  BY <1>2, <1>3 DEF EndOf
<1>5. ASSUME UNCHANGED <<produced, cuts>> PROVE Cut'
  <2>1. \A k : CutAt(k)' = CutAt(k)
    BY <1>5 DEF CutAt
  <2>2. \A k \in 0 .. produced : /\ CutAt(k) \in 0 .. Len(out')
                                 /\ SubSeq(out', 1, CutAt(k)) = SubSeq(out, 1, CutAt(k))
    <3> SUFFICES ASSUME NEW k \in 0 .. produced
                 PROVE  /\ CutAt(k) \in 0 .. Len(out')
                        /\ SubSeq(out', 1, CutAt(k)) = SubSeq(out, 1, CutAt(k))
      OBVIOUS
    <3>1. CutAt(k) \in 0 .. Len(out)
      BY DEF Cut
    <3>2. CASE out' = out
      BY <3>1, <3>2
    <3>3. ASSUME NEW e \in Extent, out' = Append(out, e)
          PROVE  /\ CutAt(k) \in 0 .. Len(out')
                 /\ SubSeq(out', 1, CutAt(k)) = SubSeq(out, 1, CutAt(k))
      <4>1. Len(out') = Len(out) + 1
        BY <1>1, <3>3, AppendProperties
      <4> QED
        BY <1>1, <3>1, <3>3, <4>1, PrefixKept
    <3> QED
      BY <1>3, <3>2, <3>3
  <2>3. /\ cuts' \in Seq(Nat) /\ Len(cuts') = produced'
        /\ \A k \in 1 .. produced' :
             /\ (k - 1) * bytes' < Len(SetBytes')
             /\ CutAt(k - 1)' <= CutAt(k)'
    BY <1>2, <1>3, <1>5, <2>1 DEF Cut
  <2>4. \A k \in 0 .. produced' :
           /\ CutAt(k)' \in 0 .. Len(out')
           /\ BytesOf(SubSeq(out', 1, CutAt(k)')) = SubSeq(SetBytes', 1, EndOf(k)')
    BY <1>3, <1>4, <1>5, <2>1, <2>2 DEF Cut
  <2> QED
    BY <2>3, <2>4 DEF Cut
<1>6. CASE ReadOk /\ SP!ReadReturns
  <2>1. /\ filled # 0 /\ produced' = produced + 1 /\ out' = out
        /\ cuts' = Append(cuts, Len(out))
    BY <1>6 DEF ReadOk, GotNothing, SP!ReadReturns
  <2>0. PICK p \in Nat : p = produced
    BY <1>1
  <2>2. /\ filled \in Nat /\ filled <= bytes
        /\ Pos = p * bytes + filled /\ Pos <= all
        /\ filled # bytes => Pos = all
    BY <1>6, <2>0, <2>1, ReturnFacts
  <2>3. p * bytes \in Nat /\ (p + 1) * bytes = p * bytes + bytes
    BY <1>1
  <2> DEFINE full == p * bytes
  <2> HIDE DEF full, all, bytes
  <2>4. Pos = EndOf(p + 1)
    <3>1. (p + 1) * bytes = full + bytes /\ full \in Nat /\ Pos = full + filled
      BY <2>2, <2>3 DEF full
    <3>2. EndOf(p + 1) = IF full + bytes < all THEN full + bytes ELSE all
      BY <3>1 DEF EndOf, all, bytes
    <3> QED
      BY <1>1, <2>2, <3>1, <3>2
  <2>5. p * bytes < all
    <3>1. full < all
      BY <1>1, <2>1, <2>2, <2>3 DEF full
    <3> QED
      BY <3>1 DEF full
  <2>6. /\ cuts' \in Seq(Nat) /\ Len(cuts') = p + 1
        /\ \A k \in 1 .. p : cuts'[k] = cuts[k]
        /\ cuts'[p + 1] = Len(out)
    BY <1>1, <2>0, <2>1, AppendProperties DEF Cut
  <2>7. /\ \A k \in 0 .. p : CutAt(k)' = CutAt(k)
        /\ CutAt(p + 1)' = Len(out)
    BY <1>1, <2>6 DEF CutAt
  <2>8. SubSeq(out, 1, Len(out)) = out
    BY <1>1, SubSeqFull
  <2>9. \A k \in 0 .. p + 1 :
           /\ CutAt(k)' \in 0 .. Len(out')
           /\ BytesOf(SubSeq(out', 1, CutAt(k)')) = SubSeq(SetBytes', 1, EndOf(k)')
    <3>1. ASSUME NEW k \in 0 .. p
          PROVE  /\ CutAt(k)' \in 0 .. Len(out')
                 /\ BytesOf(SubSeq(out', 1, CutAt(k)')) = SubSeq(SetBytes', 1, EndOf(k)')
      BY <1>3, <1>4, <2>0, <2>1, <2>7 DEF Cut
    <3>2. BytesOf(SubSeq(out', 1, Len(out))) = SubSeq(SetBytes', 1, EndOf(p + 1)')
      BY <1>3, <1>4, <2>1, <2>4, <2>8 DEF Delivered
    <3>3. \A k \in 0 .. p + 1 : k \in 0 .. p \/ k = p + 1
      BY <1>1
    <3>4. Len(out) \in 0 .. Len(out')
      BY <1>1, <2>1
    <3> QED
      BY <2>7, <3>1, <3>2, <3>3, <3>4
  <2>10. \A k \in 1 .. p + 1 :
           /\ (k - 1) * bytes < all
           /\ CutAt(k - 1)' <= CutAt(k)'
    <3>1. ASSUME NEW k \in 1 .. p
          PROVE  (k - 1) * bytes < all /\ CutAt(k - 1)' <= CutAt(k)'
      <4>1. k \in 0 .. p /\ k - 1 \in 0 .. p
        BY <1>1
      <4> QED
        BY <2>0, <2>7, <4>1 DEF Cut, bytes, all
    <3>2. CutAt(p)' <= Len(out)
      <4>1. p \in 0 .. p
        BY <1>1
      <4>2. CutAt(p) \in 0 .. Len(out)
        BY <2>0, <4>1 DEF Cut
      <4> QED
        BY <1>1, <2>7, <4>1, <4>2
    <3>3. \A k \in 1 .. p + 1 : k \in 1 .. p \/ k = p + 1
      BY <1>1
    <3>4. (p + 1) - 1 = p
      BY <1>1
    <3> QED
      BY <2>5, <2>7, <3>1, <3>2, <3>3, <3>4
  <2> QED
    BY <1>2, <1>3, <2>0, <2>1, <2>6, <2>9, <2>10 DEF Cut, bytes, all
<1> QED
  BY <1>5, <1>6, DatasetSteps

-----------------------------------------------------------------------------
(* To the pipeline the stream is what ForEachBatch takes it for.            *)

(* Products of numbers are numbers, larger ones of larger numbers; batches  *)
(* may be counted in two parts.                                            *)
LEMMA ProductFacts ==
  ASSUME NEW x \in Nat, NEW y \in Nat, NEW b \in Nat
  PROVE  /\ x * b \in Nat
         /\ (x + 1) * b = x * b + b
         /\ x <= y => x * b <= y * b
         /\ (x + y + 1) * b \in Nat
         /\ (x + y + 1) * b = x * b + (y + 1) * b
OBVIOUS

(* CeilDiv counts the batches: there is a p-th one if bytes are left for it.*)
LEMMA CeilFacts ==
  ASSUME NEW a \in Nat, NEW b \in Nat \ {0}, NEW p \in Nat
  PROVE  CeilDiv(a, b) \in Nat /\ (p < CeilDiv(a, b) <=> p * b < a)
<1> DEFINE q == (a + b - 1) \div b
<1>1. q \in Nat /\ q * b <= a + b - 1 /\ a + b - 1 < q * b + b
  <2>1. a + b - 1 \in Nat
    OBVIOUS
  <2>2. \A x \in Nat : /\ x \div b \in Nat
                       /\ x = b * (x \div b) + (x % b) /\ x % b \in 0 .. b - 1
    OBVIOUS
  <2> QED
    BY <2>1, <2>2
<1> HIDE DEF q
<1>2. ASSUME p < q PROVE p * b < a
  <2>1. p + 1 <= q /\ p + 1 \in Nat
    BY <1>1, <1>2
  <2>2. (p + 1) * b <= q * b
    BY <1>1, <2>1
  <2>3. (p + 1) * b = p * b + b /\ p * b \in Nat /\ q * b \in Nat
    BY <1>1
  <2> QED
    BY <1>1, <2>2, <2>3
<1>3. ASSUME q <= p PROVE ~(p * b < a)
  <2>1. q * b <= p * b /\ p * b \in Nat /\ q * b \in Nat
    BY <1>1, <1>3
  <2> QED
    BY <1>1, <2>1
<1>4. CeilDiv(a, b) = q
  BY DEF CeilDiv, q
<1> QED
  BY <1>1, <1>2, <1>3, <1>4

Total == total = CeilDiv(Len(SetBytes), options.batch_bytes)

(* The pipeline of this module is the one the proofs about ForEachBatch are *)
(* about.                                                                  *)
LEMMA SamePipeline ==
  /\ P!vars = FP!vars
  /\ (P!Init <=> FP!Init)
  /\ (P!PReadOk <=> FP!PReadOk) /\ (P!PReadEnd <=> FP!PReadEnd)
  /\ (P!Producer <=> FP!Producer)
  /\ (P!Consumer <=> FP!Consumer)
  /\ (P!Next <=> FP!Next)
<1> USE DEF P!producerVars, FP!producerVars, P!consumerVars, FP!consumerVars, P!Buffers, FP!Buffers,
     P!Dirty, FP!Dirty, P!RecvThrows, FP!RecvThrows, P!HasRoom, FP!HasRoom,
     P!ReadyCapacity, FP!ReadyCapacity, P!FreeCapacity, FP!FreeCapacity,
     P!ValidOptions, FP!ValidOptions, P!MoreInStream, FP!MoreInStream
<1>1. P!vars = FP!vars
  BY DEF P!vars, FP!vars
<1>2. P!Init <=> FP!Init
  BY DEF P!Init, FP!Init
<1>3. /\ (P!PRecv <=> FP!PRecv) /\ (P!PRecvClosed <=> FP!PRecvClosed)
      /\ (P!PReadOk <=> FP!PReadOk) /\ (P!PReadEnd <=> FP!PReadEnd)
      /\ (P!PReadFails <=> FP!PReadFails) /\ (P!PReadThrows <=> FP!PReadThrows)
      /\ (P!PSetError <=> FP!PSetError) /\ (P!PClose <=> FP!PClose)
      /\ (P!PSend <=> FP!PSend) /\ (P!PSendClosed <=> FP!PSendClosed)
  BY DEF P!PRecv, FP!PRecv, P!PRecvClosed, FP!PRecvClosed, P!PReadOk, FP!PReadOk,
     P!PReadEnd, FP!PReadEnd, P!PReadFails, FP!PReadFails, P!PReadThrows, FP!PReadThrows,
     P!PSetError, FP!PSetError, P!PClose, FP!PClose, P!PSend, FP!PSend,
     P!PSendClosed, FP!PSendClosed
<1>4. P!Producer <=> FP!Producer
  BY <1>3 DEF P!Producer, FP!Producer
<1>5. /\ (P!RejectOptions <=> FP!RejectOptions) /\ (P!Start <=> FP!Start)
      /\ (P!CRecv <=> FP!CRecv) /\ (P!CRecvClosed <=> FP!CRecvClosed)
      /\ (\A more : P!CCallback(more) <=> FP!CCallback(more))
      /\ (P!CCallbackThrows <=> FP!CCallbackThrows) /\ (P!CRecycle <=> FP!CRecycle)
      /\ (P!CCloseFree <=> FP!CCloseFree) /\ (P!CCloseReady <=> FP!CCloseReady)
      /\ (P!CTake <=> FP!CTake) /\ (P!CJoin <=> FP!CJoin)
  BY DEF P!RejectOptions, FP!RejectOptions, P!Start, FP!Start, P!CRecv, FP!CRecv,
     P!CRecvClosed, FP!CRecvClosed, P!CCallback, FP!CCallback,
     P!CCallbackThrows, FP!CCallbackThrows, P!CRecycle, FP!CRecycle,
     P!CCloseFree, FP!CCloseFree, P!CCloseReady, FP!CCloseReady, P!CTake, FP!CTake,
     P!CJoin, FP!CJoin
<1>6. P!Consumer <=> FP!Consumer
  BY <1>5 DEF P!Consumer, FP!Consumer
<1>7. P!Finished <=> FP!Finished
  BY DEF P!Finished, FP!Finished, P!Returned, FP!Returned, P!vars, FP!vars
<1>8. P!Next <=> FP!Next
  BY <1>4, <1>6, <1>7 DEF P!Next, FP!Next
<1> QED
  BY <1>1, <1>2, <1>3, <1>4, <1>6, <1>8

(* A read() that returns bytes yields a batch of the stream's, one that     *)
(* returns none has read them all; no other step of the stream is seen.    *)
LEMMA PipelineStep ==
  ASSUME SP!IInv, SP!OrderInv, Delivered, Counted, Total, [Next]_vars
  PROVE  [P!Next]_(P!vars)
<1>1. /\ options.batch_bytes \in Nat \ {0} /\ produced \in Nat /\ Len(SetBytes) \in Nat
      /\ Pos \in Nat /\ produced * options.batch_bytes \in Nat
  <2>1. SP!TypeOK
    BY DEF SP!IInv
  <2>2. /\ options.batch_bytes \in Nat \ {0} /\ produced \in Nat
        /\ Len(SetBytes) \in Nat /\ Pos \in Nat
    BY <2>1, SP!EntryFacts, StreamAssumptions, CallFacts, BytesType, BeforeFacts
    DEF StreamOptions, Counted, Pos
  <2> QED
    BY <2>2
<1>2. produced < total <=> produced * options.batch_bytes < Len(SetBytes)
  BY <1>1, CeilFacts DEF Total
<1>3. CASE ReadOk
  <2>1. SP!ReadReturns /\ filled # 0
    BY <1>3, SameStream DEF ReadOk, GotNothing
  <2>2. /\ filled \in Nat /\ Pos = produced * options.batch_bytes + filled
        /\ Pos <= Len(SetBytes)
    BY <2>1, ReturnFacts
  <2> DEFINE full == produced * options.batch_bytes
             all == Len(SetBytes)
  <2>3. full \in Nat /\ all \in Nat
    BY <1>1
  <2> HIDE DEF full, all
  <2>4. full < all
    BY <2>1, <2>2, <2>3 DEF full, all
  <2>5. P!MoreInStream
    BY <1>2, <2>4 DEF full, all, P!MoreInStream
  <2>6. P!PReadOk
    BY <1>3, <2>5 DEF ReadOk, P!PReadOk, P!consumerVars, fixed
  <2> QED
    BY <2>6 DEF P!Next, P!Producer
<1>4. CASE ReadEnd
  <2>1. SP!ReadReturns /\ filled = 0
    BY <1>4, SameStream DEF ReadEnd, GotNothing
  <2>2. ~(produced * options.batch_bytes < Len(SetBytes))
    BY <1>1, <2>1, ReturnFacts
  <2>3. P!PReadEnd
    BY <1>2, <1>4, <2>2 DEF ReadEnd, P!PReadEnd, P!MoreInStream, P!consumerVars, fixed
  <2> QED
    BY <2>3 DEF P!Next, P!Producer
<1>5. CASE InRead \/ Device \/ DestroyStream \/ UNCHANGED vars
  <2>1. UNCHANGED <<fixed, pipelineVars>>
    BY <1>5 DEF InRead, Device, DestroyStream, vars
  <2> QED
    BY <2>1 DEF fixed, pipelineVars, P!vars
<1>6. CASE BetweenReads \/ ReadFails
  BY <1>6 DEF BetweenReads, ReadFails, P!Next, P!Producer
<1>7. CASE Caller
  BY <1>7 DEF Caller, P!Next
<1>8. CASE Finished
  <2>1. UNCHANGED P!vars
    BY <1>8 DEF Finished, vars, fixed, pipelineVars, P!vars
  <2> QED
    BY <2>1
<1> QED
  BY <1>3, <1>4, <1>5, <1>6, <1>7, <1>8 DEF Next, Producer

-----------------------------------------------------------------------------
(* What holds throughout the call.                                          *)

DInv == SP!IInv /\ SP!OrderInv /\ Delivered /\ Counted /\ Cut /\ Total

(* It holds at first and every step keeps it.                              *)
LEMMA CallInvariance == Spec => []DInv
<1> DEFINE SInv == SP!IInv /\ SP!OrderInv
           J == Delivered /\ Counted /\ Cut /\ Total
<1>1. Spec => []SInv
  BY StreamRuns, SP!OrderInvariance, StreamAssumptions, PTL
<1>2. Init => J
  BY InitDelivered, InitCounted, InitCut DEF Init, Total
<1>3. SInv /\ SInv' /\ J /\ [Next]_vars => J'
  <2> SUFFICES ASSUME SInv, SInv', J, [Next]_vars PROVE J'
    OBVIOUS
  <2>1. SP!TypeOK' /\ [SP!Next]_(SP!vars)
    BY StreamStep DEF SP!IInv
  <2>2. Delivered' /\ shards' = shards
    BY <2>1, NextDelivered
  <2>3. Counted'
    BY <2>1, <2>2, NextCounted
  <2>4. Cut'
    BY <2>1, NextCut
  <2>5. Total'
    <3>1. total' = total /\ options' = options
      BY DatasetSteps
    <3> QED
      BY <2>2, <3>1, SameSet DEF Total
  <2> QED
    BY <2>2, <2>3, <2>4, <2>5
<1>4. SInv /\ J => DInv
  BY DEF DInv
<1> QED
  BY <1>1, <1>2, <1>3, <1>4, PTL DEF Spec

(* For every set of shards and every batch size, the call is a run of the  *)
(* batch pipeline on a stream of as many batches as the set fills: reads   *)
(* that return bytes are its batches, and the end comes after the last.    *)
THEOREM CallImplementsPipeline == Spec => P!Spec
<1>1. Init => P!Init
  BY DEF Init
<1>2. DInv /\ [Next]_vars => [P!Next]_(P!vars)
  BY PipelineStep DEF DInv
<1> QED
  BY <1>1, <1>2, CallInvariance, PTL DEF Spec, P!Spec

(* So its inductive invariant holds of the call.                           *)
LEMMA PipelineInvariance == Spec => []FP!IInv
<1>1. P!Init => FP!Init
  BY SamePipeline
<1>2. [P!Next]_(P!vars) => [FP!Next]_(FP!vars)
  BY SamePipeline DEF P!vars, FP!vars
<1>3. P!Spec => FP!Spec
  BY <1>1, <1>2, PTL DEF P!Spec, FP!Spec
<1> QED
  BY <1>3, CallImplementsPipeline, FP!Invariance, PipelineAssumptions, PTL

-----------------------------------------------------------------------------
(* What the callback is given.                                              *)

\* No buffer holds, and no callback has seen, a batch that is not read yet.
Known ==
  /\ \A b \in P!Buffers : content[b] <= produced
  /\ \A i \in DOMAIN seen : seen[i] <= produced

(* At first all buffers are dirty and nothing is seen.                     *)
LEMMA InitKnown == Init => Known
BY DEF Init, P!Init, P!Dirty, Known

(* A buffer gets the number of the batch just read, the callback that of    *)
(* its buffer.                                                             *)
LEMMA NextKnown ==
  ASSUME FP!TypeOK, Known, [P!Next]_(P!vars)
  PROVE  Known'
<1> USE DEF P!Dirty
<1>1. /\ options' = options /\ P!Buffers' = P!Buffers
      /\ content \in [P!Buffers -> Nat] /\ produced \in Nat /\ seen \in Seq(Nat)
      /\ Len(seen) \in Nat /\ DOMAIN seen = 1 .. Len(seen)
      /\ pbuf \in P!Buffers /\ cbuf \in P!Buffers
  <2>1. [FP!Next]_(FP!vars)
    BY SamePipeline DEF P!vars, FP!vars
  <2>2. FP!Buffers = P!Buffers /\ FP!Buffers' = P!Buffers'
    BY DEF FP!Buffers, P!Buffers
  <2>3. /\ options' = options /\ FP!Buffers' = FP!Buffers /\ total \in Nat
        /\ seen \in Seq(0 .. total) /\ Len(seen) \in Nat /\ DOMAIN seen = 1 .. Len(seen)
        /\ content \in [FP!Buffers -> 0 .. total] /\ produced \in Nat
        /\ pbuf \in FP!Buffers /\ cbuf \in FP!Buffers
    BY <2>1, FP!StepFacts, PipelineAssumptions
  <2>4. content \in [P!Buffers -> Nat] /\ seen \in Seq(Nat)
    BY <2>2, <2>3, LenProperties
  <2> QED
    BY <2>2, <2>3, <2>4
<1>2. CASE P!PReadOk
  <2>1. /\ produced' = produced + 1 /\ seen' = seen
        /\ content' = [content EXCEPT ![pbuf] = produced + 1]
    BY <1>2 DEF P!PReadOk, P!consumerVars
  <2>2. \A b \in P!Buffers : content'[b] <= produced + 1
    BY <1>1, <2>1 DEF Known
  <2>3. \A i \in DOMAIN seen : seen[i] <= produced + 1
    BY <1>1, LenProperties DEF Known
  <2> QED
    BY <1>1, <2>1, <2>2, <2>3 DEF Known
<1>3. CASE P!PRecv
  <2>1. /\ produced' = produced /\ seen' = seen
        /\ content' = [content EXCEPT ![Head(free)] = 0]
    BY <1>3 DEF P!PRecv, P!consumerVars
  <2>2. \A b \in P!Buffers : content'[b] <= produced
    BY <1>1, <2>1 DEF Known
  <2> QED
    BY <1>1, <2>1, <2>2 DEF Known
<1>4. CASE P!CCallbackThrows \/ \E more \in BOOLEAN : P!CCallback(more)
  <2>1. produced' = produced /\ content' = content /\ seen' = Append(seen, content[cbuf])
    BY <1>4 DEF P!CCallbackThrows, P!CCallback, P!producerVars
  <2>2. content[cbuf] \in Nat /\ content[cbuf] <= produced
    BY <1>1 DEF Known
  <2>3. /\ DOMAIN seen' = 1 .. Len(seen) + 1 /\ seen'[Len(seen) + 1] = content[cbuf]
        /\ \A i \in 1 .. Len(seen) : seen'[i] = seen[i]
    BY <1>1, <2>1, <2>2, AppendProperties, LenProperties
  <2>4. \A i \in 1 .. Len(seen) + 1 : i \in 1 .. Len(seen) \/ i = Len(seen) + 1
    BY <1>1
  <2>5. \A i \in DOMAIN seen' : seen'[i] <= produced
    BY <1>1, <2>2, <2>3, <2>4 DEF Known
  <2> QED
    BY <1>1, <2>1, <2>5 DEF Known
<1>5. CASE ~(P!PReadOk \/ P!PRecv \/ P!CCallbackThrows \/ \E more \in BOOLEAN : P!CCallback(more))
  <2>1. UNCHANGED <<produced, content, seen>>
    BY <1>5 DEF P!Next, P!Producer, P!Consumer, P!Finished, P!vars, P!producerVars, P!consumerVars,
       P!PRecvClosed, P!PReadEnd, P!PReadFails, P!PReadThrows, P!PSetError, P!PClose, P!PSend,
       P!PSendClosed, P!RejectOptions, P!Start, P!CRecv, P!CRecvClosed, P!CRecycle,
       P!CCloseFree, P!CCloseReady, P!CTake, P!CJoin
  <2> QED
    BY <1>1, <2>1 DEF Known
<1> QED
  BY <1>2, <1>3, <1>4, <1>5

(* A batch the callback has seen is the bytes between its two cuts.         *)
LEMMA BatchFacts ==
  ASSUME DInv, NEW i \in 1 .. produced
  PROVE  LET from == (i - 1) * options.batch_bytes
         IN  /\ BatchBytes(i) = SubSeq(SetBytes, from + 1,
                                       S!Min2(from + options.batch_bytes, Len(SetBytes)))
             /\ from < Len(SetBytes)
<1> DEFINE bytes == options.batch_bytes
           all == Len(SetBytes)
           from == (i - 1) * bytes
           y == BytesOf(SubSeq(out, CutAt(i - 1) + 1, CutAt(i)))
<1>0. SP!TypeOK /\ Delivered /\ Cut /\ Counted
  BY DEF DInv, SP!IInv
<1>1. /\ bytes \in Nat \ {0} /\ produced \in Nat /\ all \in Nat /\ SetBytes \in Seq(Byte)
      /\ out \in Seq(Extent) /\ Len(out) \in Nat
  BY <1>0, SP!EntryFacts, StreamAssumptions, CallFacts, BeforeFacts, LenProperties
  DEF StreamOptions, Counted
<1>2. i \in 0 .. produced /\ i - 1 \in 0 .. produced /\ i - 1 \in Nat /\ i \in Nat
  BY <1>1
<1>3. /\ CutAt(i - 1) \in 0 .. Len(out) /\ CutAt(i) \in 0 .. Len(out) /\ CutAt(i - 1) <= CutAt(i)
      /\ BytesOf(SubSeq(out, 1, CutAt(i - 1))) = SubSeq(SetBytes, 1, EndOf(i - 1))
      /\ BytesOf(SubSeq(out, 1, CutAt(i))) = SubSeq(SetBytes, 1, EndOf(i))
      /\ from < all
  BY <1>0, <1>2 DEF Cut
<1>4. from \in Nat /\ i * bytes = from + bytes
  BY <1>1, <1>2
<1>5. BatchBytes(i) = y
  <2>1. i # P!Dirty
    BY <1>2 DEF P!Dirty
  <2>2. cuts[i] = CutAt(i)
    BY <1>2 DEF CutAt
  <2>3. (IF i = 1 THEN 1 ELSE cuts[i - 1] + 1) = CutAt(i - 1) + 1
    BY <1>2 DEF CutAt
  <2> QED
    BY <2>1, <2>2, <2>3 DEF BatchBytes
<1>6. BytesOf(SubSeq(out, 1, CutAt(i))) = BytesOf(SubSeq(out, 1, CutAt(i - 1))) \o y
  <2>1. CutAt(i) \in CutAt(i - 1) .. Len(out)
    BY <1>1, <1>3
  <2> QED
    BY <1>1, <1>3, <2>1, BytesSplit
<1>7. y \in Seq(Byte)
  <2>1. CutAt(i - 1) + 1 \in Nat \ {0}
    BY <1>1, <1>3
  <2> QED
    BY <1>1, <1>3, <2>1, PartType
<1> HIDE DEF y, from, all, bytes
<1>8. EndOf(i - 1) = from
  BY <1>3 DEF EndOf, from, all, bytes
<1>9. /\ EndOf(i) = S!Min2(from + bytes, all) /\ EndOf(i) \in Nat
      /\ from <= EndOf(i) /\ EndOf(i) <= all
  <2>1. EndOf(i) = IF from + bytes < all THEN from + bytes ELSE all
    BY <1>4 DEF EndOf, all, bytes
  <2>2. S!Min2(from + bytes, all) = IF from + bytes < all THEN from + bytes ELSE all
    BY DEF S!Min2
  <2> QED
    BY <1>1, <1>3, <1>4, <2>1, <2>2
<1>10. y = SubSeq(SetBytes, from + 1, EndOf(i))
  <2>1. SubSeq(SetBytes, 1, from) \o y = SubSeq(SetBytes, 1, EndOf(i))
    BY <1>3, <1>6, <1>8
  <2>2. EndOf(i) <= Len(SetBytes)
    BY <1>9 DEF all
  <2> QED
    BY <1>1, <1>4, <1>7, <1>9, <2>1, <2>2, Remaining
<1> QED
  BY <1>3, <1>5, <1>9, <1>10 DEF from, all, bytes

(* What the two invariants say together.                                   *)
LEMMA GivenFacts == DInv /\ FP!IInv /\ Known => CallbackGetsTheSet
<1> SUFFICES ASSUME DInv, FP!IInv, Known PROVE CallbackGetsTheSet
  OBVIOUS
<1>1. /\ SP!TypeOK /\ FP!TypeOK /\ FP!Numbered /\ FP!Ending /\ Total
  BY DEF DInv, SP!IInv, FP!IInv
<1>2. seen \in Seq(0 .. total) /\ produced \in 0 .. total /\ total \in Nat
  BY <1>1 DEF FP!TypeOK
<1>3. /\ Len(seen) \in Nat /\ DOMAIN seen = 1 .. Len(seen) /\ produced \in Nat
  BY <1>2, LenProperties
<1>4. ASSUME NEW i \in DOMAIN seen
      PROVE  LET from == (i - 1) * options.batch_bytes
             IN  /\ BatchBytes(seen[i]) =
                      SubSeq(SetBytes, from + 1,
                             S!Min2(from + options.batch_bytes, Len(SetBytes)))
                 /\ from < Len(SetBytes)
  <2>1. seen[i] = i
    BY <1>1 DEF FP!Numbered, FP!InOrder
  <2>2. i \in 1 .. produced
    BY <1>3, <2>1 DEF Known
  <2> QED
    BY <2>1, <2>2, BatchFacts
<1>5. ASSUME P!Returned, result = "ok", keep_going
      PROVE  Len(seen) * options.batch_bytes >= Len(SetBytes)
  <2>1. options.batch_bytes \in Nat \ {0} /\ FP!ValidOptions
    BY <1>1, OptionsAssumption DEF FP!TypeOK, FP!ValidOptions
  <2>2. produced = Len(seen) /\ produced = total
    BY <1>1, <1>5, <2>1 DEF FP!Ending, P!Returned
  <2>3. Len(SetBytes) \in Nat
    BY <1>1, BeforeFacts
  <2>4. ~(total * options.batch_bytes < Len(SetBytes))
    <3>1. total < CeilDiv(Len(SetBytes), options.batch_bytes)
          <=> total * options.batch_bytes < Len(SetBytes)
      BY <1>2, <2>1, <2>3, CeilFacts, Zenon
    <3>2. ~(total < CeilDiv(Len(SetBytes), options.batch_bytes))
      BY <1>1, <1>2 DEF Total
    <3> QED
      BY <3>1, <3>2, Zenon
  <2>5. total * options.batch_bytes \in Nat
    BY <1>2, <2>1
  <2>6. total * options.batch_bytes >= Len(SetBytes)
    BY <2>3, <2>4, <2>5
  <2> QED
    BY <2>2, <2>6
<1> QED
  BY <1>4, <1>5 DEF CallbackGetsTheSet

(* For every set of shards, batch size, prefetch, read depth and segment   *)
(* size, and every interleaving of the two threads with the device, the    *)
(* i-th call of the callback gets the i-th batch_bytes bytes of the set,   *)
(* and a call that returns ok without having been stopped gave it all.     *)
THEOREM CallbackGetsAll == Spec => []CallbackGetsTheSet
<1>1. Spec => []Known
  <2>1. Spec => [][P!Next]_(P!vars)
    BY CallImplementsPipeline, PTL DEF P!Spec
  <2>2. FP!IInv /\ Known /\ [P!Next]_(P!vars) => Known'
    BY NextKnown DEF FP!IInv
  <2> QED
    BY <2>1, <2>2, InitKnown, PipelineInvariance, PTL DEF Spec
<1> QED
  BY <1>1, GivenFacts, CallInvariance, PipelineInvariance, PTL

-----------------------------------------------------------------------------
(* How far the stream runs ahead of the callback.                           *)

\* In whole batches; what the slots hold comes on top (SP!RoomInvariance).
Ahead == Pos <= (Len(seen) + options.prefetch + 1) * options.batch_bytes

(* A producer that reads holds a buffer, so one fewer is ahead.            *)
LEMMA ReadingFacts ==
  ASSUME FP!IInv, ppc = "read"
  PROVE  produced <= Len(seen) + options.prefetch
<1>1. FP!TypeOK /\ FP!Conserved /\ FP!Numbered
  BY DEF FP!IInv
<1>2. /\ Len(free) \in Nat /\ Len(ready) \in Nat /\ Len(seen) \in Nat /\ produced \in Nat
      /\ options.prefetch \in Nat
  <2>1. /\ free \in Seq(FP!Buffers) /\ ready \in Seq(FP!Buffers) /\ seen \in Seq(0 .. total)
        /\ total \in Nat /\ produced \in 0 .. total /\ options \in Options
    BY <1>1 DEF FP!TypeOK
  <2>2. options.prefetch \in Nat
    BY <2>1, OptionsAssumption
  <2> QED
    BY <2>1, <2>2, LenProperties
<1>3. Len(free) + Len(ready) + 1 + FP!Bit(FP!ConsumerHolds) <= options.prefetch + 1
  BY <1>1, <1>2 DEF FP!Conserved, FP!ProducerHolds, FP!Bit
<1>4. produced = FP!Taken + Len(ready)
  BY <1>1, <1>2 DEF FP!Numbered, FP!Bit, FP!Taken
<1>5. FP!Taken <= Len(seen) + FP!Bit(FP!ConsumerHolds) /\ FP!Bit(FP!ConsumerHolds) \in 0 .. 1
      /\ FP!Taken \in Nat
  BY <1>2 DEF FP!Taken, FP!Bit, FP!ConsumerHolds
<1> QED
  BY <1>2, <1>3, <1>4, <1>5

(* The callback is never taken back a batch.                               *)
LEMMA SeenGrows ==
  ASSUME FP!TypeOK, [Next]_vars
  PROVE  /\ Len(seen) \in Nat /\ Len(seen') \in Nat /\ Len(seen) <= Len(seen')
         /\ seen' \in Seq(Nat)
<1>1. seen \in Seq(0 .. total) /\ total \in Nat /\ content \in [FP!Buffers -> 0 .. total]
      /\ cbuf \in FP!Buffers
  BY DEF FP!TypeOK
<1>2. seen' = seen \/ seen' = Append(seen, content[cbuf])
  BY DEF Next, vars, fixed, pipelineVars, Producer, BetweenReads, InRead, ReadOk,
     ReadEnd, ReadFails,
     DestroyStream, Caller, Device, Finished, P!consumerVars,
     P!PRecv, P!PRecvClosed, P!PSetError, P!PClose, P!PSend, P!PSendClosed, P!PReadFails,
     P!Consumer, P!RejectOptions, P!Start, P!CRecv, P!CRecvClosed, P!CCallback,
     P!CCallbackThrows, P!CRecycle, P!CCloseFree, P!CCloseReady, P!CTake, P!CJoin
<1>3. content[cbuf] \in 0 .. total
  BY <1>1
<1>4. seen' \in Seq(0 .. total) /\ Len(seen) \in Nat
      /\ (Len(seen') = Len(seen) \/ Len(seen') = Len(seen) + 1)
  <2>1. Append(seen, content[cbuf]) \in Seq(0 .. total)
        /\ Len(Append(seen, content[cbuf])) = Len(seen) + 1
    BY <1>1, <1>3, AppendProperties, Zenon
  <2> QED
    BY <1>1, <1>2, <2>1, LenProperties, Zenon
<1>5. seen' \in Seq(Nat)
  BY <1>1, <1>4, LenProperties
<1> QED
  BY <1>4, <1>5

(* Bytes are delivered only into the batch of a reading producer.          *)
LEMMA NextAhead ==
  ASSUME DInv, DInv', FP!IInv, Ahead, [Next]_vars
  PROVE  Ahead'
<1> DEFINE bytes == options.batch_bytes
           batches == Len(seen) + options.prefetch + 1
<1>1. /\ bytes \in Nat \ {0} /\ options.prefetch \in Nat
      /\ options' = options /\ produced \in Nat /\ Pos \in Nat /\ Pos' \in Nat
  <2>1. options \in Options /\ SP!TypeOK /\ SP!TypeOK' /\ produced \in Nat
    BY DEF FP!IInv, FP!TypeOK, DInv, SP!IInv, Counted
  <2>2. Pos \in Nat
    BY <2>1, CallFacts, BytesType DEF Pos
  <2>3. Pos' \in Nat
    <3>1. out' \in Seq(Extent)
      BY <2>1 DEF SP!TypeOK, SP!ExtentType, Extent
    <3> QED BY <3>1, BytesType DEF Pos
  <2> QED
    BY <2>1, <2>2, <2>3, OptionsAssumption, DatasetSteps
<1>2. Len(seen) \in Nat /\ Len(seen') \in Nat /\ Len(seen) <= Len(seen')
  BY SeenGrows DEF FP!IInv
<1>3. batches * bytes <= batches' * bytes'
  <2>1. batches \in Nat /\ batches' \in Nat /\ batches <= batches' /\ bytes' = bytes
    <3>1. options.prefetch \in Nat /\ options' = options
      BY <1>1
    <3>2. PICK n \in Nat, m \in Nat, f \in Nat :
            n = Len(seen) /\ m = Len(seen') /\ f = options.prefetch /\ n <= m
      BY <1>2, <3>1
    <3>3. batches = n + f + 1 /\ batches' = m + f + 1
      BY <3>1, <3>2
    <3> QED
      BY <3>1, <3>2, <3>3
  <2>2. bytes \in Nat
    BY <1>1
  <2>3. \A a, b, s \in Nat : a <= b => a * s <= b * s
    BY SP!TimesFacts, StreamAssumptions
  <2> HIDE DEF batches, bytes
  <2>4. batches * bytes <= batches' * bytes
    BY <2>1, <2>2, <2>3, Zenon
  <2> QED
    BY <2>1, <2>4, Zenon
<1>4. batches * bytes \in Nat /\ batches' * bytes' \in Nat
  <2>1. batches \in Nat /\ batches' \in Nat /\ bytes \in Nat /\ bytes' \in Nat
    BY <1>1, <1>2
  <2> HIDE DEF batches, bytes
  <2> QED
    BY <2>1, ProductFacts, Zenon
<1>5. CASE out' = out
  <2>1. Pos' = Pos /\ Pos <= batches * bytes
    BY <1>5 DEF Pos, Ahead
  <2>2. Pos' <= batches' * bytes'
    BY <1>1, <1>3, <1>4, <2>1
  <2> QED
    BY <2>2 DEF Ahead
<1>6. CASE ppc = "read" /\ (SP!Read \/ SP!TakeFront) /\ UNCHANGED <<produced, cuts, seen, ppc>>
  <2>1. SP!Running' /\ pc' # "idle"
    BY <1>6 DEF SP!Read, SP!TakeFront, SP!Running
  <2>2. filled' \in Nat /\ filled' <= bytes
    <3>1. filled' \in 0 .. StreamOptions(options', segment_bytes').batch_bytes
      BY DEF DInv, SP!IInv, SP!TypeOK
    <3>2. StreamOptions(options', segment_bytes').batch_bytes = bytes
      BY <1>1 DEF StreamOptions
    <3> HIDE DEF bytes
    <3> QED
      BY <1>1, <3>1, <3>2
  <2>3. Pos' <= produced * bytes + bytes
    <3>1. Counted' /\ produced' = produced /\ bytes' = bytes
      BY <1>1, <1>6 DEF DInv
    <3>2. \/ Pos' = produced * bytes + filled'
          \/ Pos' <= produced * bytes
      BY <2>1, <3>1 DEF Counted
    <3> DEFINE full == produced * bytes
    <3>3. full \in Nat
      BY <1>1
    <3> HIDE DEF full
    <3>4. Pos' <= full + bytes
      BY <1>1, <2>2, <3>2, <3>3 DEF full
    <3> QED
      BY <3>4 DEF full
  <2>4. (produced + 1) * bytes <= batches * bytes
    <3>1. produced + 1 \in Nat /\ batches \in Nat /\ produced + 1 <= batches
      BY <1>1, <1>2, <1>6, ReadingFacts
    <3> QED
      BY <1>1, <3>1, SP!TimesFacts, StreamAssumptions
  <2>5. (produced + 1) * bytes = produced * bytes + bytes /\ produced * bytes \in Nat
    BY <1>1
  <2>6. Pos' <= batches' * bytes'
    <3> DEFINE full == produced * bytes
               room == batches * bytes
    <3> HIDE DEF full, room
    <3>1. Pos' <= room
      BY <1>1, <1>4, <2>3, <2>4, <2>5 DEF full, room
    <3> QED
      BY <1>1, <1>3, <1>4, <3>1 DEF room
  <2> QED
    BY <2>6 DEF Ahead
<1>7. CASE ReadOk /\ SP!ReadReturns
  BY <1>5, <1>7 DEF SP!ReadReturns
<1> QED
  BY <1>5, <1>6, <1>7, DatasetSteps

(* For every call, the stream is at most prefetch + 1 batches and          *)
(* read_depth segments of the set ahead of the callback.                   *)
THEOREM ReadAheadIsBounded == Spec => []ReadAheadBounded
<1>1. Spec => []Ahead
  <2>1. Init => Ahead
    <3> SUFFICES ASSUME Init PROVE Ahead
      OBVIOUS
    <3>1. SP!TypeOK
      BY SameStream, SP!InitTypeOK, StreamAssumptions DEF Init
    <3>2. Pos = 0
      <4>1. out = <<>>
        BY DEF Init, S!Init
      <4> QED
        BY <3>1, <4>1, BytesType, CallFacts, EmptySeq DEF Pos
    <3>3. options.batch_bytes \in Nat /\ options.prefetch \in Nat /\ Len(seen) = 0
      BY OptionsAssumption, EmptySeq DEF Init, P!Init
    <3>4. (Len(seen) + options.prefetch + 1) * options.batch_bytes \in Nat
      BY <3>3
    <3> QED
      BY <3>2, <3>4 DEF Ahead
  <2>2. DInv /\ DInv' /\ FP!IInv /\ Ahead /\ [Next]_vars => Ahead'
    BY NextAhead
  <2> QED
    BY <2>1, <2>2, CallInvariance, PipelineInvariance, PTL DEF Spec
<1>2. Spec => [](carry.n + Len(pending) * segment <= options.read_depth * segment)
  <2>1. SP!read_depth = options.read_depth
    BY DEF SP!read_depth, StreamOptions
  <2>2. Spec => [](carry.n + Len(pending) * segment <= SP!read_depth * segment)
    BY StreamRuns, SP!RoomInvariance, StreamAssumptions, PTL
  <2>3. carry.n + Len(pending) * segment <= SP!read_depth * segment
        => carry.n + Len(pending) * segment <= options.read_depth * segment
    BY <2>1
  <2> QED
    BY <2>2, <2>3, PTL
<1>3. /\ DInv /\ FP!IInv /\ Ahead
      /\ carry.n + Len(pending) * segment <= options.read_depth * segment
      => ReadAheadBounded
  <2> SUFFICES ASSUME DInv, FP!IInv, Ahead,
                      carry.n + Len(pending) * segment <= options.read_depth * segment
               PROVE  ReadAheadBounded
    OBVIOUS
  <2>1. SP!TypeOK /\ FP!TypeOK
    BY DEF DInv, SP!IInv, FP!IInv
  <2>2. /\ options.batch_bytes \in Nat /\ options.prefetch \in Nat /\ options.read_depth \in Nat
        /\ Pos \in Nat /\ carry.n \in Nat /\ Len(pending) \in Nat /\ segment \in Nat
        /\ Len(seen) \in Nat
    <3>1. options \in Options /\ seen \in Seq(0 .. total) /\ segment \in Nat
      BY <2>1 DEF SP!TypeOK, FP!TypeOK
    <3>2. Len(seen) \in Nat
      BY <3>1, LenProperties
    <3>3. carry.n \in Nat /\ Len(pending) \in Nat
      BY <2>1, SP!EntryFacts, StreamAssumptions
    <3>4. Pos \in Nat
      BY <2>1, CallFacts, BytesType DEF Pos
    <3>5. options.batch_bytes \in Nat /\ options.prefetch \in Nat /\ options.read_depth \in Nat
      BY <3>1, OptionsAssumption
    <3> QED
      BY <3>1, <3>2, <3>3, <3>4, <3>5
  <2> DEFINE bytes == options.batch_bytes
             asked == Len(pending) * segment
             slotRoom == options.read_depth * segment
             given == Len(seen) * bytes
             ahead == (options.prefetch + 1) * bytes
             all == (Len(seen) + options.prefetch + 1) * bytes
  <2>3. asked \in Nat /\ slotRoom \in Nat
    BY <2>2, ProductFacts
  <2>4. given \in Nat /\ ahead \in Nat /\ all \in Nat /\ all = given + ahead
    <3>1. PICK n \in Nat, f \in Nat, b \in Nat :
            n = Len(seen) /\ f = options.prefetch /\ b = bytes
      BY <2>2
    <3>2. /\ n * b \in Nat /\ (f + 1) * b \in Nat /\ (n + f + 1) * b \in Nat
          /\ (n + f + 1) * b = n * b + (f + 1) * b
      <4>1. f + 1 \in Nat
        OBVIOUS
      <4>2. (f + 1) * b \in Nat
        BY <4>1, ProductFacts, Zenon
      <4>3. /\ n * b \in Nat /\ (n + f + 1) * b \in Nat
            /\ (n + f + 1) * b = n * b + (f + 1) * b
        BY ProductFacts
      <4> QED
        BY <4>2, <4>3, Zenon
    <3>3. given = n * b /\ ahead = (f + 1) * b /\ all = (n + f + 1) * b
      BY <3>1, Zenon
    <3> HIDE DEF given, ahead, all
    <3> QED
      BY <3>2, <3>3
  <2>5. Pos <= all /\ carry.n + asked <= slotRoom
    BY DEF Ahead
  <2> HIDE DEF asked, slotRoom, given, ahead, all
  <2>6. Pos + carry.n + asked <= given + ahead + slotRoom
    BY <2>2, <2>3, <2>4, <2>5
  <2> QED
    BY <2>6 DEF ReadAheadBounded, Pos, asked, slotRoom, given, ahead
<1> QED
  BY <1>1, <1>2, <1>3, CallInvariance, PipelineInvariance, PTL

-----------------------------------------------------------------------------
(* An error of the call is never of its own making.                         *)

Sure ==
  ~S!Disturbed =>
    /\ ppc # "fail" /\ ~error /\ result # "err"
    /\ cpc \in {"join", "returned"} => result # "none"

(* The call begins with no error and no result.                            *)
LEMMA InitSure == Init => Sure
BY DEF Init, P!Init, Sure

(* The producer sets an error only when the stream has failed, the caller  *)
(* returns only that, and valid options are not rejected.                  *)
LEMMA NextSure ==
  ASSUME FP!TypeOK, SP!NeverFailsAlone, Sure, [Next]_vars
  PROVE  Sure'
<1> SUFFICES ASSUME ~S!Disturbed'
             PROVE  /\ ppc' # "fail" /\ ~error' /\ result' # "err"
                    /\ cpc' \in {"join", "returned"} => result' # "none"
  BY DEF Sure
<1>0. /\ shards' = shards
      /\ StreamOptions(options, segment_bytes)' = StreamOptions(options, segment_bytes)
  BY StreamStep, SP!InputsFixed, StreamAssumptions
<1>1. ~S!Disturbed
  BY <1>0 DEF S!Disturbed, S!SegmentFor, S!Min2, S!Max2
<1>2. /\ pc # "failed" /\ ppc # "fail" /\ ~error /\ result # "err"
      /\ cpc \in {"join", "returned"} => result # "none"
  BY <1>1 DEF S!Disturbed, SP!Disturbed, S!SegmentFor, SP!SegmentFor, S!Min2, SP!Min2,
     S!Max2, SP!Max2, SP!NeverFailsAlone, Sure
<1>3. P!ValidOptions
  <2>1. options \in Options
    BY DEF FP!TypeOK
  <2> QED
    BY <2>1, OptionsAssumption DEF P!ValidOptions
<1>4. CASE BetweenReads
  BY <1>2, <1>4 DEF BetweenReads, P!PRecv, P!PRecvClosed, P!PSetError, P!PClose, P!PSend,
     P!PSendClosed, P!consumerVars
<1>5. CASE InRead \/ DestroyStream \/ Device \/ Finished \/ UNCHANGED vars
  <2>1. UNCHANGED <<ppc, error, result, cpc>>
    BY <1>5 DEF InRead, DestroyStream, Device, Finished, vars, pipelineVars
  <2> QED
    BY <1>2, <2>1
<1>6. CASE ReadOk \/ ReadEnd
  <2>1. UNCHANGED <<error, result, cpc>> /\ ppc' # "fail"
    BY <1>6 DEF ReadOk, ReadEnd
  <2> QED
    BY <1>2, <2>1
<1>7. CASE ReadFails
  BY <1>2, <1>7 DEF ReadFails
<1>8. CASE Caller
  <2>1. P!Consumer
    BY <1>8 DEF Caller
  <2>2. CASE P!RejectOptions
    BY <1>3, <2>2 DEF P!RejectOptions
  <2>3. CASE P!CTake
    BY <1>2, <2>3 DEF P!CTake, P!producerVars
  <2>4. CASE P!CCallbackThrows
    BY <1>2, <2>4 DEF P!CCallbackThrows, P!producerVars
  <2>5. CASE P!CCloseReady
    BY <1>2, <2>5 DEF P!CCloseReady, P!producerVars
  <2>6. CASE P!CJoin
    BY <1>2, <2>6 DEF P!CJoin, P!producerVars
  <2>7. CASE P!Start
    BY <1>2, <2>7 DEF P!Start
  <2>8. CASE P!CRecv \/ P!CRecvClosed \/ (\E more \in BOOLEAN : P!CCallback(more))
             \/ P!CRecycle \/ P!CCloseFree
    <3>1. UNCHANGED <<ppc, error, result>> /\ cpc' \notin {"join", "returned"}
      BY <2>8 DEF P!CRecv, P!CRecvClosed, P!CCallback, P!CRecycle, P!CCloseFree, P!producerVars
    <3> QED
      BY <1>2, <3>1
  <2> QED
    BY <2>1, <2>2, <2>3, <2>4, <2>5, <2>6, <2>7, <2>8 DEF P!Consumer
<1> QED
  BY <1>4, <1>5, <1>6, <1>7, <1>8 DEF Next, Producer

(* If every file is there, every window starts on a block boundary and no  *)
(* call fails, for_each_batch returns no error, whatever the shards,       *)
(* options and interleavings; with CallbackGetsAll, a call that was        *)
(* neither stopped nor left by an exception then returns ok and has given  *)
(* the callback the whole set.                                             *)
THEOREM ErrorsAreNotItsOwn == Spec => []ErrorsHaveCause
<1>1. Spec => []SP!NeverFailsAlone
  BY StreamRuns, SP!FailuresHaveCause, StreamAssumptions, PTL
<1>2. Spec => []Sure
  <2>1. FP!IInv /\ SP!NeverFailsAlone /\ Sure /\ [Next]_vars => Sure'
    BY NextSure DEF FP!IInv
  <2> QED
    BY <1>1, <2>1, InitSure, PipelineInvariance, PTL DEF Spec
<1>3. FP!IInv /\ Sure => ErrorsHaveCause
  BY DEF FP!IInv, FP!TypeOK, Sure, ErrorsHaveCause, P!Returned
<1> QED
  BY <1>2, <1>3, PipelineInvariance, PTL
=============================================================================
