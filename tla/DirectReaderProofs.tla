------------------------- MODULE DirectReaderProofs -------------------------
(***************************************************************************)
(* Proofs that the transfers of File, read_into and DirectReader move the  *)
(* bytes they report and no others, that a reader leaves no chunk out, and *)
(* that only growth and short preads get it refused for its alignment, for *)
(* every block size, every file, every length the kernel cuts a call to    *)
(* and everything another process does to the file meanwhile.              *)
(***************************************************************************)
EXTENDS DirectReader, TLAPS

(* What the caller's place says of the transfer under way, and the bytes it *)
(* has moved.                                                               *)
Transfer ==
  /\ pc \in {"chunk", "sink"} => ~io.write
  /\ pc = "write" => io.write /\ io.offset + io.length <= MaxSize
  /\ pc = "chunk" => io.offset = position_ /\ io.length = Block /\ position_ < end_
  /\ moved = {<<io.offset + i, i>> : i \in 0 .. total - 1}

IInv == TypeOK /\ Transfer

\* As long as the file has not grown, a reader is on a block boundary or has
\* nothing left to read.
InStep ==
  /\ start_ % Block = 0
  /\ pc \in {"idle", "chunk"} /\ ~grew =>
       position_ % Block = 0 \/ position_ >= end_ \/ position_ >= size
  /\ pc = "chunk" => io.base = 0
  /\ pc = "sink" => io.length % Block = 0

-----------------------------------------------------------------------------
(* Arithmetic.                                                              *)

(* A multiple of b leaves no remainder.                                    *)
LEMMA MultipleFacts ==
  ASSUME NEW b \in Nat \ {0}, NEW q \in Int
  PROVE  (b * q) % b = 0
OBVIOUS

(* Quotient and remainder.                                                 *)
LEMMA QuotientFacts ==
  ASSUME NEW b \in Nat \ {0}, NEW a \in Nat
  PROVE  a % b \in Nat /\ \E q \in Int : a = b * q + (a % b)
<1>1. a \div b \in Int /\ a = b * (a \div b) + (a % b)
  OBVIOUS
<1>2. a % b \in Nat
  OBVIOUS
<1> QED
  BY <1>1, <1>2

(* The block after an aligned one is aligned.                              *)
LEMMA NextBlockAligned ==
  ASSUME NEW b \in Nat \ {0}, NEW a \in Nat, a % b = 0
  PROVE  (a + b) % b = 0
<1>1. PICK q \in Int : a = b * q + (a % b)
  BY QuotientFacts
<1>2. a + b = b * (q + 1) /\ q + 1 \in Int
  BY <1>1
<1>3. (b * (q + 1)) % b = 0
  BY <1>2, MultipleFacts
<1> QED
  BY <1>2, <1>3

(* What read_into asks for is a number of blocks.                          *)
LEMMA RoundedDownAligned ==
  ASSUME NEW b \in Nat \ {0}, NEW a \in Nat
  PROVE  (a - (a % b)) % b = 0
<1>1. PICK q \in Int : a = b * q + (a % b)
  BY QuotientFacts
<1>2. a % b \in Nat
  BY QuotientFacts
<1>3. a - (a % b) = b * q
  BY <1>1, <1>2
<1> QED
  BY <1>3, MultipleFacts

(* A number of blocks more or less keeps a remainder of 0.                 *)
LEMMA BlocksApart ==
  ASSUME NEW b \in Nat \ {0}, NEW a \in Nat, NEW c \in Nat, a % b = 0, c % b = 0
  PROVE  (a + c) % b = 0 /\ (a - c) % b = 0
<1>1. PICK q \in Int : a = b * q + (a % b)
  BY QuotientFacts
<1>2. PICK r \in Int : c = b * r + (c % b)
  BY QuotientFacts
<1>3. a + c = b * (q + r) /\ a - c = b * (q - r) /\ q + r \in Int /\ q - r \in Int
  BY <1>1, <1>2
<1>4. (b * (q + r)) % b = 0 /\ (b * (q - r)) % b = 0
  BY <1>3, MultipleFacts
<1> QED
  BY <1>3, <1>4

(* A round of a transfer adds the next bytes to those it has moved.        *)
LEMMA MovesFacts ==
  ASSUME NEW o \in Nat, NEW t \in Nat, NEW n \in Nat
  PROVE  {<<o + i, i>> : i \in 0 .. t - 1} \cup {<<(o + t) + i, t + i>> : i \in 0 .. n - 1}
           = {<<o + i, i>> : i \in 0 .. (t + n) - 1}
<1> DEFINE before == {<<o + i, i>> : i \in 0 .. t - 1}
           round == {<<(o + t) + i, t + i>> : i \in 0 .. n - 1}
           after == {<<o + i, i>> : i \in 0 .. (t + n) - 1}
<1>1. ASSUME NEW p \in before PROVE p \in after
  <2>1. PICK i \in 0 .. t - 1 : p = <<o + i, i>>
    OBVIOUS
  <2> QED
    BY <2>1
<1>2. ASSUME NEW p \in round PROVE p \in after
  <2>1. PICK i \in 0 .. n - 1 : p = <<(o + t) + i, t + i>>
    OBVIOUS
  <2>2. t + i \in 0 .. (t + n) - 1 /\ (o + t) + i = o + (t + i)
    OBVIOUS
  <2> QED
    BY <2>1, <2>2
<1>3. ASSUME NEW p \in after PROVE p \in before \/ p \in round
  <2>1. PICK i \in 0 .. (t + n) - 1 : p = <<o + i, i>>
    OBVIOUS
  <2>2. CASE i < t
    BY <2>1, <2>2
  <2>3. CASE i >= t
    <3>1. i - t \in 0 .. n - 1 /\ o + i = (o + t) + (i - t) /\ i = t + (i - t)
      BY <2>3
    <3> QED
      BY <2>1, <3>1
  <2> QED
    BY <2>2, <2>3
<1> QED
  BY <1>1, <1>2, <1>3

-----------------------------------------------------------------------------
(* The types, and what has been moved.                                      *)

(* No transfer is under way in the initial state.                          *)
LEMMA InitIInv == Init => IInv
<1> SUFFICES ASSUME Init PROVE IInv
  OBVIOUS
<1>1. TypeOK
  <2>1. NoTransfer \in [write : BOOLEAN, offset : Nat, length : Nat, base : Nat]
    BY DEF NoTransfer
  <2>2. NoTransfer.length = 0
    BY DEF NoTransfer
  <2>3. /\ io = NoTransfer /\ total = 0 /\ moved = {} /\ size \in 0 .. MaxSize
        /\ pc = "new" /\ grew \in BOOLEAN /\ committed = None /\ err = "none"
    BY DEF Init, FileInit
  <2>4. total \in 0 .. io.length /\ moved \subseteq Nat \X Nat
    BY <2>2, <2>3
  <2>5. FileTypeOK
    BY <2>1, <2>3, <2>4 DEF FileTypeOK
  <2>6. chunk \in [offset : Nat, bytes : Int]
    BY DEF Init, NoChunk
  <2> QED
    BY <2>6, <2>5 DEF Init, TypeOK
<1>2. Transfer
  BY DEF Init, FileInit, Transfer, NoTransfer
<1> QED
  BY <1>1, <1>2 DEF IInv

(* What one round does: the types it keeps and the bytes it adds.           *)
LEMMA RoundFacts ==
  ASSUME TypeOK, Transfer, NEW n \in Nat, n <= Left, Moves(n),
         UNCHANGED <<pc, io, position_, end_>>
  PROVE  /\ total' \in 0 .. io'.length
         /\ moved' \subseteq Nat \X Nat
         /\ Transfer'
<1>1. io.offset \in Nat /\ total \in Nat /\ io.length \in Nat /\ total + n <= io.length
  BY DEF TypeOK, FileTypeOK, Left
<1>2. total' = total + n /\ moved' = {<<io.offset + i, i>> : i \in 0 .. (total + n) - 1}
  BY <1>1, MovesFacts DEF Moves, At, Transfer
<1>3. moved' \subseteq Nat \X Nat
  BY <1>1, <1>2
<1> QED
  BY <1>1, <1>2, <1>3 DEF Transfer

(* The end of a call, successful or not.                                   *)
LEMMA EndFacts ==
  ASSUME NEW to, Ends(to), to \in {"new", "idle"}
  PROVE  /\ io' \in [write : BOOLEAN, offset : Nat, length : Nat, base : Nat]
         /\ total' \in 0 .. io'.length /\ moved' \subseteq Nat \X Nat
         /\ pc' = to /\ grew' = grew
         /\ Transfer'
BY DEF Ends, NoTransfer, Transfer

(* The start of one.                                                       *)
LEMMA BeginFacts ==
  ASSUME TypeOK, NEW caller \in {"chunk", "sink", "write"}, NEW w \in BOOLEAN,
         NEW o \in Nat, NEW l \in Nat, NEW b \in Nat, Begins(caller, w, o, l, b)
  PROVE  /\ io' \in [write : BOOLEAN, offset : Nat, length : Nat, base : Nat]
         /\ io'.write = w /\ io'.offset = o /\ io'.length = l
         /\ total' \in 0 .. io'.length /\ moved' \subseteq Nat \X Nat
         /\ pc' = caller /\ grew' \in BOOLEAN
         /\ moved' = {<<io'.offset + i, i>> : i \in 0 .. total' - 1}
<1> DEFINE begun == [write |-> w, offset |-> o, length |-> l, base |-> b]
<1>1. /\ begun \in [write : BOOLEAN, offset : Nat, length : Nat, base : Nat]
      /\ begun.write = w /\ begun.offset = o /\ begun.length = l
  OBVIOUS
<1>2. io' = begun /\ total' = 0 /\ moved' = {} /\ pc' = caller
  BY DEF Begins
<1>3. grew' \in BOOLEAN
  BY DEF Begins, TypeOK, FileTypeOK
<1> HIDE DEF begun
<1>4. moved' = {<<o + i, i>> : i \in 0 .. 0 - 1}
  BY <1>2
<1> QED
  BY <1>1, <1>2, <1>3, <1>4

(* Every round moves the next bytes of its transfer.                       *)
LEMMA NextIInv == IInv /\ [Next]_vars => IInv'
<1> SUFFICES ASSUME TypeOK, Transfer, [Next]_vars PROVE TypeOK' /\ Transfer'
  BY DEF IInv
<1>0. /\ Block \in Nat /\ Block > 0 /\ MaxSize \in Nat /\ MaxOffset \in Nat
      /\ size \in 0 .. MaxSize /\ io.offset \in Nat /\ io.length \in Nat
      /\ total \in Nat /\ total <= io.length
      /\ start_ \in Nat /\ end_ \in Nat /\ position_ \in Int
      /\ start_ <= position_ /\ position_ <= end_
  <2>1. start_ \in Nat /\ end_ \in Nat /\ start_ <= position_ /\ position_ <= end_
    BY DEF TypeOK
  <2> QED
    BY <2>1, BlockAssumption, BoundsAssumption DEF TypeOK, FileTypeOK
<1>1. CASE Pread /\ UNCHANGED <<readerVars, chunk>>
  <2>1. PICK n \in 1 .. Lesser(Left, size - At) : Moves(n)
    BY <1>1 DEF Pread
  <2>n. n \in Nat /\ n <= Left
    BY <1>0, <2>1 DEF Lesser, At, Left
  <2>2. UNCHANGED <<pc, io, position_, end_, size, grew, committed, err, start_, chunk>>
    BY <1>1 DEF Pread, readerVars
  <2>3. total' \in 0 .. io'.length /\ moved' \subseteq Nat \X Nat /\ Transfer'
    BY <2>1, <2>n, <2>2, RoundFacts
  <2> QED
    BY <2>2, <2>3 DEF TypeOK, FileTypeOK
<1>2. CASE Pwrite /\ UNCHANGED <<readerVars, chunk>>
  <2>1. PICK n \in 1 .. Left : Moves(n) /\ size' = Greater(size, At + n)
    BY <1>2 DEF Pwrite
  <2>2. n \in Nat /\ n <= Left
    BY <1>0, <2>1 DEF Left
  <2>3. UNCHANGED <<pc, io, position_, end_, grew, committed, err, start_, chunk>>
    BY <1>2 DEF Pwrite, readerVars
  <2>4. total' \in 0 .. io'.length /\ moved' \subseteq Nat \X Nat /\ Transfer'
    BY <2>1, <2>2, <2>3, RoundFacts
  <2>5. io.offset + io.length <= MaxSize
    BY <1>2 DEF Pwrite, Transfer
  <2>6. size' \in 0 .. MaxSize
    BY <1>0, <2>1, <2>2, <2>5 DEF Greater, At, Left
  <2> QED
    BY <2>3, <2>4, <2>6 DEF TypeOK, FileTypeOK
<1>3. CASE (Refuse \/ IoError) /\ UNCHANGED <<readerVars, chunk>>
  <2>1. PICK why \in {"einval", "io"} : Fails(why)
    BY <1>3 DEF Refuse, IoError
  <2>2. Ends(Caller) /\ Caller \in {"new", "idle"} /\ err' = why /\ UNCHANGED <<size, committed>>
    BY <2>1 DEF Fails, Caller
  <2>3. UNCHANGED <<start_, end_, position_, chunk>>
    BY <1>3 DEF readerVars
  <2> HIDE DEF Caller
  <2> QED
    BY <2>2, <2>3, EndFacts DEF TypeOK, FileTypeOK
<1>4. ASSUME NEW offset \in 0 .. MaxOffset, NEW length \in 0 .. MaxOffset, NEW base \in {0, 1},
             BeginWrite(offset, length, base), UNCHANGED <<readerVars, chunk>>
      PROVE  TypeOK' /\ Transfer'
  <2>1. Begins("write", TRUE, offset, length, base) /\ offset + length <= MaxSize
        /\ err' = "none" /\ UNCHANGED <<size, committed, start_, end_, position_, chunk>>
    BY <1>4 DEF BeginWrite, readerVars
  <2>2. offset \in Nat /\ length \in Nat /\ base \in Nat
    BY <1>0
  <2>3. /\ io' \in [write : BOOLEAN, offset : Nat, length : Nat, base : Nat]
        /\ io'.write /\ io'.offset = offset /\ io'.length = length
        /\ total' \in 0 .. io'.length /\ moved' \subseteq Nat \X Nat
        /\ pc' = "write" /\ grew' \in BOOLEAN
        /\ moved' = {<<io'.offset + i, i>> : i \in 0 .. total' - 1}
    BY <2>1, <2>2, BeginFacts
  <2>4. TypeOK'
    BY <2>1, <2>3 DEF TypeOK, FileTypeOK
  <2>5. Transfer'
    BY <2>1, <2>3 DEF Transfer
  <2> QED
    BY <2>4, <2>5
<1>5. ASSUME NEW offset \in 0 .. MaxOffset, NEW length \in 0 .. MaxOffset, NEW base \in {0, 1},
             BeginReadInto(offset, length, base), UNCHANGED <<readerVars, chunk>>
      PROVE  TypeOK' /\ Transfer'
  <2>1. Begins("sink", FALSE, offset, AlignedPart(length), base) /\ AlignedPart(length) > 0
        /\ err' = "none" /\ committed' = None
        /\ UNCHANGED <<size, start_, end_, position_, chunk>>
    BY <1>5 DEF BeginReadInto, readerVars
  <2>2. offset \in Nat /\ AlignedPart(length) \in Nat /\ base \in Nat
    BY <1>0, <2>1, BlockAssumption DEF AlignedPart
  <2>3. /\ io' \in [write : BOOLEAN, offset : Nat, length : Nat, base : Nat]
        /\ ~io'.write
        /\ total' \in 0 .. io'.length /\ moved' \subseteq Nat \X Nat
        /\ pc' = "sink" /\ grew' \in BOOLEAN
        /\ moved' = {<<io'.offset + i, i>> : i \in 0 .. total' - 1}
    BY <2>1, <2>2, BeginFacts
  <2>4. TypeOK'
    BY <2>1, <2>3 DEF TypeOK, FileTypeOK
  <2>5. Transfer'
    BY <2>3 DEF Transfer
  <2> QED
    BY <2>4, <2>5
<1>6. CASE EndWrite /\ UNCHANGED <<readerVars, chunk>>
  <2>1. Ends("new") /\ UNCHANGED <<size, committed, err, start_, end_, position_, chunk>>
    BY <1>6 DEF EndWrite, readerVars
  <2> QED
    BY <2>1, EndFacts DEF TypeOK, FileTypeOK
<1>7. CASE ReadIntoRejects /\ UNCHANGED <<readerVars, chunk>>
  BY <1>7 DEF ReadIntoRejects, readerVars, ioVars, Transfer, TypeOK, FileTypeOK
<1>8. CASE EndReadInto /\ UNCHANGED <<readerVars, chunk>>
  <2>1. Ends("new") /\ committed' = total /\ err' \in {"none", "commit"}
        /\ UNCHANGED <<size, start_, end_, position_, chunk>>
    BY <1>8 DEF EndReadInto, Got, readerVars
  <2> QED
    BY <1>0, <2>1, EndFacts DEF TypeOK, FileTypeOK
<1>9. ASSUME NEW n \in 0 .. MaxSize, Resize(n), UNCHANGED <<readerVars, chunk>>
      PROVE  TypeOK' /\ Transfer'
  <2>1. size' = n /\ grew' \in BOOLEAN
        /\ UNCHANGED <<pc, io, total, moved, committed, err, start_, end_, position_, chunk>>
    BY <1>9 DEF Resize, readerVars, TypeOK, FileTypeOK
  <2> QED
    BY <2>1 DEF Transfer, TypeOK, FileTypeOK
<1>10. ASSUME NEW offset \in Nat, NEW length \in Nat, OpenWindow(offset, length), pc = "new"
       PROVE  TypeOK' /\ Transfer'
  <2>1. start_' = offset /\ end_' = offset + length /\ position_' = offset
        /\ pc' = "idle" /\ err' = "none" /\ grew' = FALSE
        /\ UNCHANGED <<size, io, total, moved, committed, chunk>>
    BY <1>10 DEF OpenWindow
  <2>2. end_' \in Nat /\ position_' \in start_' .. end_'
    BY <2>1
  <2>3. TypeOK'
    BY <2>1, <2>2 DEF TypeOK, FileTypeOK
  <2>4. Transfer'
    BY <2>1 DEF Transfer
  <2> QED
    BY <2>3, <2>4
<1>11. CASE Open
  BY <1>0, <1>10, <1>11 DEF Open
<1>12. ASSUME NEW offset \in 0 .. MaxOffset, NEW length \in 0 .. MaxOffset, OpenAt(offset, length)
       PROVE  TypeOK' /\ Transfer'
  <2>1. offset <= size /\ OpenWindow(offset, Lesser(length, size - offset)) /\ pc = "new"
    BY <1>12 DEF OpenAt, OffsetAccepted
  <2>2. offset \in Nat /\ Lesser(length, size - offset) \in Nat
    BY <1>0, <2>1 DEF Lesser
  <2> QED
    BY <1>10, <2>1, <2>2
<1>13. CASE (\E offset \in 0 .. MaxOffset : OpenRejects(offset)) \/ ChunkAtEnd
  <2>1. err' \in {"rejected", "none"} /\ chunk' \in [offset : Nat, bytes : Int]
        /\ UNCHANGED <<size, io, total, moved, grew, committed, start_, end_, position_, pc>>
    BY <1>0, <1>13 DEF OpenRejects, ChunkAtEnd, ioVars, readerVars, TypeOK
  <2> QED
    BY <2>1 DEF Transfer, TypeOK, FileTypeOK
<1>14. CASE BeginChunk
  <2>1. Begins("chunk", FALSE, position_, Block, 0)
        /\ UNCHANGED <<size, committed, err, start_, end_, position_, chunk>>
    BY <1>14 DEF BeginChunk, readerVars
  <2>2. position_ \in Nat /\ 0 \in Nat
    BY <1>0
  <2>3. ~(position_ >= end_)
    BY <1>14 DEF BeginChunk, AtEnd
  <2>4. position_ < end_
    BY <1>0, <2>3
  <2>5. /\ io' \in [write : BOOLEAN, offset : Nat, length : Nat, base : Nat]
        /\ ~io'.write /\ io'.offset = position_ /\ io'.length = Block
        /\ total' \in 0 .. io'.length /\ moved' \subseteq Nat \X Nat
        /\ pc' = "chunk" /\ grew' \in BOOLEAN
        /\ moved' = {<<io'.offset + i, i>> : i \in 0 .. total' - 1}
    BY <1>0, <2>1, <2>2, BeginFacts
  <2>6. TypeOK'
    BY <2>1, <2>5 DEF TypeOK, FileTypeOK
  <2>7. Transfer'
    BY <2>1, <2>5, <2>4 DEF Transfer
  <2> QED
    BY <2>6, <2>7
<1>15. CASE EndChunk
  <2> DEFINE bytes == Trimmed(total)
  <2>1. bytes \in Nat /\ position_ + bytes <= end_
    BY <1>0 DEF Trimmed, Lesser
  <2>2. Ends("idle") /\ err' = "none" /\ UNCHANGED <<size, committed, start_, end_>>
        /\ position_' = position_ + bytes /\ chunk' = [offset |-> position_, bytes |-> bytes]
    BY <1>15 DEF EndChunk
  <2> HIDE DEF bytes
  <2>3. position_' \in start_ .. end_ /\ chunk' \in [offset : Nat, bytes : Int]
    BY <1>0, <2>1, <2>2
  <2> QED
    BY <2>2, <2>3, EndFacts DEF TypeOK, FileTypeOK
<1>16. CASE Reset
  <2>1. pc = "idle" /\ position_' = start_ /\ chunk' = NoChunk
        /\ UNCHANGED <<size, pc, io, total, moved, grew, committed, err, start_, end_>>
    BY <1>16 DEF Reset, fileVars, ioVars
  <2>2. position_' \in start_ .. end_ /\ chunk' \in [offset : Nat, bytes : Int]
    BY <1>0, <2>1 DEF NoChunk
  <2> QED
    BY <2>1, <2>2 DEF Transfer, TypeOK, FileTypeOK
<1>17. CASE UNCHANGED vars
  BY <1>17 DEF vars, fileVars, ioVars, readerVars, Transfer, TypeOK, FileTypeOK
<1> QED
  BY <1>1, <1>2, <1>3, <1>4, <1>5, <1>6, <1>7, <1>8, <1>9, <1>11, <1>12, <1>13, <1>14,
     <1>15, <1>16, <1>17
  DEF Next, Reader, FileNext

\* What the proofs below use of the types.
LEMMA TypeFacts ==
  ASSUME TypeOK
  PROVE  /\ Block \in Nat /\ Block > 0 /\ size \in Nat
         /\ io.offset \in Nat /\ io.length \in Nat /\ io.base \in Nat
         /\ total \in Nat /\ total <= io.length
         /\ start_ \in Nat /\ end_ \in Nat /\ position_ \in Nat
BY BlockAssumption, BoundsAssumption DEF TypeOK, FileTypeOK

(* The steps that end a transfer successfully.                             *)
LEMMA Successes ==
  ASSUME [Next]_vars, pc' # pc, pc \in {"chunk", "sink", "write"}, err' # "einval", err' # "io"
  PROVE  \/ EndWrite
         \/ EndReadInto
         \/ EndChunk
<1>1. ~UNCHANGED vars
  BY DEF vars, fileVars
<1>2. ~(Refuse \/ IoError)
  BY DEF Refuse, IoError, Fails
<1>3. ~(Pread \/ Pwrite \/ ReadIntoRejects \/ \E n \in 0 .. MaxSize : Resize(n))
  BY DEF Pread, Pwrite, ReadIntoRejects, Resize
<1>4. ~\E offset, length \in 0 .. MaxOffset, base \in {0, 1} :
         BeginWrite(offset, length, base) \/ BeginReadInto(offset, length, base)
  BY DEF BeginWrite, BeginReadInto
<1>5. ~(Open \/ \E offset, length \in 0 .. MaxOffset : OpenAt(offset, length))
  BY DEF Open, OpenAt
<1>6. ~((\E offset \in 0 .. MaxOffset : OpenRejects(offset)) \/ ChunkAtEnd \/ BeginChunk \/ Reset)
  BY DEF OpenRejects, ChunkAtEnd, BeginChunk, Reset
<1> QED
  BY <1>1, <1>2, <1>3, <1>4, <1>5, <1>6 DEF Next, Reader, FileNext

(* The step that reports a misaligned transfer.                            *)
LEMMA RefusedOnly ==
  ASSUME [Next]_vars, pc' # pc, pc \in {"chunk", "sink"}, err' = "einval"
  PROVE  Refuse
<1>1. ~(EndReadInto \/ EndChunk \/ IoError)
  BY DEF EndReadInto, EndChunk, IoError, Fails
<1>2. ~(EndWrite \/ UNCHANGED vars)
  BY DEF EndWrite, vars, fileVars
<1>3. ~(Pread \/ Pwrite \/ ReadIntoRejects \/ \E n \in 0 .. MaxSize : Resize(n))
  BY DEF Pread, Pwrite, ReadIntoRejects, Resize
<1>4. ~\E offset, length \in 0 .. MaxOffset, base \in {0, 1} :
         BeginWrite(offset, length, base) \/ BeginReadInto(offset, length, base)
  BY DEF BeginWrite, BeginReadInto
<1>5. ~(Open \/ \E offset, length \in 0 .. MaxOffset : OpenAt(offset, length))
  BY DEF Open, OpenAt
<1>6. ~((\E offset \in 0 .. MaxOffset : OpenRejects(offset)) \/ ChunkAtEnd \/ BeginChunk \/ Reset)
  BY DEF OpenRejects, ChunkAtEnd, BeginChunk, Reset
<1> QED
  BY <1>1, <1>2, <1>3, <1>4, <1>5, <1>6 DEF Next, Reader, FileNext

-----------------------------------------------------------------------------
(* The properties.                                                          *)

(* The types of File's, the sink's and the reader's variables, the position *)
(* inside the window.                                                       *)
THEOREM TypeInvariant == Spec => []TypeOK
<1>1. Spec => []IInv
  BY InitIInv, NextIInv, PTL DEF Spec
<1> QED
  BY <1>1, PTL DEF IInv

(* What pread_exact, pwrite_exact and read_into report is what they moved:  *)
(* for every block size, file, offset and length, whatever rounds the loops *)
(* took and whatever happened to the file meanwhile.                        *)
THEOREM ExactTransfers == Spec => TransfersExact
<1> DEFINE Step ==
      pc' # pc /\ pc \in {"chunk", "sink", "write"} /\ err' \in {"none", "commit"} =>
       /\ moved = {<<io.offset + i, i>> : i \in 0 .. total - 1}
       /\ total = io.length \/ (~io.write /\ io.offset + total >= size)
       /\ pc = "sink" => committed' = total
<1>1. TypeOK /\ Transfer /\ [Next]_vars => [Step]_fileVars
  <2> SUFFICES ASSUME TypeOK, Transfer, [Next]_vars, pc' # pc,
                      pc \in {"chunk", "sink", "write"}, err' \in {"none", "commit"}
               PROVE  /\ moved = {<<io.offset + i, i>> : i \in 0 .. total - 1}
                      /\ total = io.length \/ (~io.write /\ io.offset + total >= size)
                      /\ pc = "sink" => committed' = total
    OBVIOUS
  <2>1. EndWrite \/ EndReadInto \/ EndChunk
    BY Successes
  <2>2. Done
    BY <2>1 DEF EndWrite, EndReadInto, EndChunk
  <2>3. CASE Left = 0
    <3>1. total = io.length
      BY <2>3, TypeFacts DEF Left
    <3> QED
      BY <2>1, <3>1 DEF Transfer, EndWrite, EndReadInto, EndChunk, Got
  <2>4. CASE ~io.write /\ At >= size
    BY <2>1, <2>4 DEF Transfer, At, EndWrite, EndReadInto, EndChunk, Got
  <2> QED
    BY <2>2, <2>3, <2>4 DEF Done
<1>2. Spec => []IInv
  BY InitIInv, NextIInv, PTL DEF Spec
<1>3. IInv => TypeOK /\ Transfer
  BY DEF IInv
<1> QED
  BY <1>1, <1>2, <1>3, PTL DEF Spec, TransfersExact

(* next_chunk's end of stream is the window's end or a truncated file's:    *)
(* no chunk is left out.                                                    *)
THEOREM NoChunkLeftOut == Spec => EmptyOnlyAtEnd
<1> DEFINE Step == chunk' # chunk /\ chunk'.bytes = 0 => position_ >= end_ \/ position_ >= size
<1>1. TypeOK /\ Transfer /\ [Next]_vars => [Step]_vars
  <2> SUFFICES ASSUME TypeOK, Transfer, [Next]_vars, chunk' # chunk, chunk'.bytes = 0
               PROVE  position_ >= end_ \/ position_ >= size
    OBVIOUS
  <2>1. Open \/ (\E offset, length \in 0 .. MaxOffset : OpenAt(offset, length)) => chunk' = chunk
    BY DEF Open, OpenAt, OpenWindow
  <2>2. (\E offset \in 0 .. MaxOffset : OpenRejects(offset)) \/ BeginChunk \/ UNCHANGED vars
          => chunk' = chunk
    BY DEF OpenRejects, BeginChunk, vars
  <2>3. CASE ChunkAtEnd
    BY <2>3 DEF ChunkAtEnd, AtEnd
  <2>4. CASE EndChunk
    <3>1. chunk'.bytes = Trimmed(total) /\ Done /\ ~io.write
      BY <2>4 DEF EndChunk, Transfer
    <3>2. io.offset = position_ /\ io.length = Block /\ position_ < end_
      BY <2>4 DEF EndChunk, Transfer
    <3>3. total = 0
      BY <3>1, <3>2, TypeFacts DEF Trimmed, Lesser
    <3> QED
      BY <3>1, <3>2, <3>3, TypeFacts DEF Done, Left, At
  <2>5. CASE Reset
    BY <2>5 DEF Reset, NoChunk
  <2> QED
    BY <2>1, <2>2, <2>3, <2>4, <2>5 DEF Next, Reader
<1>2. Spec => []IInv
  BY InitIInv, NextIInv, PTL DEF Spec
<1>3. IInv => TypeOK /\ Transfer
  BY DEF IInv
<1> QED
  BY <1>1, <1>2, <1>3, PTL DEF Spec, EmptyOnlyAtEnd

-----------------------------------------------------------------------------
(* Alignment.                                                               *)

(* A reader that was not opened has nothing to be in step with.            *)
LEMMA InitInStep == Init => InStep
<1> SUFFICES ASSUME Init PROVE InStep
  OBVIOUS
<1>1. 0 % Block = 0
  BY BlockAssumption
<1> QED
  BY <1>1 DEF Init, FileInit, InStep

(* A reader falls out of step only when the file grows.                    *)
LEMMA NextInStep == TypeOK /\ Transfer /\ InStep /\ [Next]_vars => InStep'
<1> SUFFICES ASSUME TypeOK, Transfer, InStep, [Next]_vars PROVE InStep'
  OBVIOUS
<1>1. CASE Pread /\ UNCHANGED <<readerVars, chunk>>
  <2>1. UNCHANGED <<size, pc, io, grew, start_, end_, position_>>
    BY <1>1 DEF Pread, readerVars
  <2> QED
    BY <2>1 DEF InStep
<1>2. CASE Pwrite /\ UNCHANGED <<readerVars, chunk>>
  BY <1>2 DEF Pwrite, InStep, readerVars
<1>3. CASE (Refuse \/ IoError) /\ UNCHANGED <<readerVars, chunk>>
  <2>1. Ends(Caller) /\ pc \in {"chunk", "sink", "write"} /\ UNCHANGED size
        /\ UNCHANGED <<start_, end_, position_>>
    BY <1>3 DEF Refuse, IoError, Fails, readerVars
  <2>2. pc' = Caller /\ grew' = grew
    BY <2>1 DEF Ends
  <2> QED
    BY <2>1, <2>2 DEF InStep, Caller
<1>4. ASSUME NEW offset \in 0 .. MaxOffset, NEW length \in 0 .. MaxOffset, NEW base \in {0, 1},
             BeginWrite(offset, length, base) \/ BeginReadInto(offset, length, base),
             UNCHANGED <<readerVars, chunk>>
      PROVE  InStep'
  <2>1. CASE BeginWrite(offset, length, base)
    BY <1>4, <2>1 DEF BeginWrite, Begins, InStep, readerVars
  <2>2. CASE BeginReadInto(offset, length, base)
    <3>1. pc' = "sink" /\ total' = 0 /\ io'.length = AlignedPart(length)
          /\ UNCHANGED start_
      BY <1>4, <2>2 DEF BeginReadInto, Begins, readerVars
    <3>2. AlignedPart(length) % Block = 0
      BY BlockAssumption, BoundsAssumption, RoundedDownAligned DEF AlignedPart
    <3> QED
      BY <3>1, <3>2 DEF InStep
  <2> QED
    BY <1>4, <2>1, <2>2
<1>5. CASE (EndWrite \/ EndReadInto) /\ UNCHANGED <<readerVars, chunk>>
  BY <1>5 DEF EndWrite, EndReadInto, Ends, InStep, readerVars
<1>6. CASE ReadIntoRejects /\ UNCHANGED <<readerVars, chunk>>
  <2>1. UNCHANGED <<size, pc, io, total, grew, start_, end_, position_>>
    BY <1>6 DEF ReadIntoRejects, ioVars, readerVars
  <2> QED
    BY <2>1 DEF InStep, Left, At
<1>7. ASSUME NEW n \in 0 .. MaxSize, Resize(n), UNCHANGED <<readerVars, chunk>>
      PROVE  InStep'
  <2>1. size' = n /\ n # size /\ UNCHANGED <<pc, io, total, start_, end_, position_>>
    BY <1>7 DEF Resize, readerVars
  <2>2. pc # "new" /\ ~grew' => ~grew /\ ~(n > size)
    BY <1>7 DEF Resize
  <2>3. pc # "new" /\ ~grew' => size' < size
    BY <2>1, <2>2, TypeFacts, BoundsAssumption
  <2>4. size' \in Nat
    BY <2>1, BoundsAssumption
  <2>5. pc # "new" /\ ~grew' => ~grew /\ (position_ >= size => position_ >= size')
    BY <2>2, <2>3, <2>4, TypeFacts
  <2> QED
    BY <2>1, <2>5 DEF InStep
<1>8. ASSUME NEW offset \in Nat, offset % Block = 0, NEW length, OpenWindow(offset, length)
      PROVE  InStep'
  BY <1>8 DEF OpenWindow, InStep
<1>9. CASE Open
  <2>1. 0 % Block = 0
    BY BlockAssumption
  <2> QED
    BY <1>8, <1>9, <2>1 DEF Open
<1>10. CASE \E offset, length \in 0 .. MaxOffset : OpenAt(offset, length)
  BY <1>8, <1>10, BoundsAssumption DEF OpenAt, OffsetAccepted
<1>11. CASE (\E offset \in 0 .. MaxOffset : OpenRejects(offset)) \/ ChunkAtEnd \/ UNCHANGED vars
  <2>1. UNCHANGED <<size, pc, io, total, grew, start_, end_, position_>>
    BY <1>11 DEF OpenRejects, ChunkAtEnd, vars, fileVars, ioVars, readerVars
  <2> QED
    BY <2>1 DEF InStep, Left, At
<1>12. CASE BeginChunk
  BY <1>12 DEF BeginChunk, Begins, InStep, readerVars
<1>13. CASE EndChunk
  <2> DEFINE bytes == Trimmed(total)
  <2>1. pc = "chunk" /\ Done /\ position_' = position_ + bytes /\ pc' = "idle"
        /\ UNCHANGED <<size, start_, end_, grew>>
    BY <1>13 DEF EndChunk, Ends
  <2>2. io.offset = position_ /\ io.length = Block /\ position_ < end_ /\ ~io.write
    BY <2>1 DEF Transfer
  <2>3. bytes = total \/ position_' = end_
    BY <2>1, TypeFacts DEF Trimmed, Lesser
  <2>4. CASE position_' = end_
    BY <2>1, <2>4, TypeFacts DEF InStep
  <2>5. CASE bytes = total /\ ~(Left = 0)
    <3>1. At >= size
      BY <2>1, <2>5 DEF Done
    <3>2. position_' >= size'
      BY <2>1, <2>2, <2>5, <3>1, TypeFacts DEF At
    <3> QED
      BY <2>1, <3>2 DEF InStep
  <2>6. CASE bytes = total /\ Left = 0
    <3>1. position_' = position_ + Block
      BY <2>1, <2>2, <2>6, TypeFacts DEF Left
    <3>2. CASE position_ % Block = 0
      <4>1. position_' % Block = 0
        BY <3>1, <3>2, NextBlockAligned, BlockAssumption, TypeFacts
      <4> QED
        BY <2>1, <4>1 DEF InStep
    <3>3. CASE position_ >= size
      <4>1. position_' >= size'
        BY <2>1, <3>1, <3>3, TypeFacts
      <4> QED
        BY <2>1, <4>1 DEF InStep
    <3>4. ~(position_ >= end_)
      BY <2>2, TypeFacts
    <3>5. grew \/ position_ % Block = 0 \/ position_ >= size
      BY <2>1, <3>4 DEF InStep
    <3>6. CASE grew
      BY <2>1, <3>6 DEF InStep
    <3> QED
      BY <3>2, <3>3, <3>5, <3>6
  <2> QED
    BY <2>3, <2>4, <2>5, <2>6
<1>14. CASE Reset
  BY <1>14 DEF Reset, InStep, fileVars, ioVars
<1> QED
  BY <1>1, <1>2, <1>3, <1>4, <1>5, <1>6, <1>7, <1>9, <1>10, <1>11, <1>12, <1>13, <1>14
  DEF Next, Reader, FileNext

(* A reader of a file that nobody appends to starts every chunk on a block, *)
(* wherever its window starts and ends and however the file shrinks: what   *)
(* is left to refuse, there and in read_into given an aligned offset and    *)
(* buffer, is the rest of a block that the kernel gave a part of.           *)
THEOREM AlwaysAligned == Spec => NeverMisaligned
<1> DEFINE Step ==
      pc = "chunk" \/ (pc = "sink" /\ io.offset % Block = 0 /\ io.base % Block = 0) =>
        (pc' # pc /\ err' = "einval" => grew \/ total % Block # 0)
<1>1. TypeOK /\ Transfer /\ InStep /\ [Next]_vars => [Step]_vars
  <2> SUFFICES ASSUME TypeOK, Transfer, InStep, [Next]_vars, pc' # pc, err' = "einval", ~grew,
                      total % Block = 0,
                      \/ pc = "chunk"
                      \/ pc = "sink" /\ io.offset % Block = 0 /\ io.base % Block = 0
               PROVE  FALSE
    OBVIOUS
  <2>1. Refuse
    BY RefusedOnly
  <2>2. ~io.write /\ Left > 0 /\ Refused
    BY <2>1 DEF Refuse, Fails, Transfer
  <2>3. At < size /\ (At % Block # 0 \/ (io.base + total) % Block # 0 \/ Left % Block # 0)
    BY <2>2 DEF Refused
  <2>4. io.offset < size
    BY <2>3, TypeFacts DEF At
  <2>5. io.offset % Block # 0 \/ io.base % Block # 0 \/ io.length % Block # 0
    <3>1. SUFFICES ASSUME io.offset % Block = 0, io.base % Block = 0, io.length % Block = 0
                   PROVE  FALSE
      OBVIOUS
    <3>2. (io.offset + total) % Block = 0
      BY <3>1, BlocksApart, BlockAssumption, TypeFacts
    <3>3. (io.base + total) % Block = 0
      BY <3>1, BlocksApart, BlockAssumption, TypeFacts
    <3>4. (io.length - total) % Block = 0
      BY <3>1, BlocksApart, BlockAssumption, TypeFacts
    <3> QED
      BY <2>3, <3>2, <3>3, <3>4 DEF At, Left
  <2>6. 0 % Block = 0 /\ Block % Block = 0
    BY BlockAssumption
  <2>7. CASE pc = "chunk"
    <3>1. io.offset = position_ /\ io.length = Block /\ position_ < end_
      BY <2>7 DEF Transfer
    <3>2. io.base = 0
      BY <2>7 DEF InStep
    <3>3. ~(position_ >= end_) /\ ~(position_ >= size)
      BY <2>4, <3>1, TypeFacts
    <3>4. position_ % Block = 0
      BY <2>7, <3>3 DEF InStep
    <3> QED
      BY <2>5, <2>6, <3>1, <3>2, <3>4
  <2>8. CASE pc = "sink"
    BY <2>5, <2>8 DEF InStep
  <2> QED
    BY <2>7, <2>8
<1>2. Spec => []IInv
  BY InitIInv, NextIInv, PTL DEF Spec
<1>3. IInv => TypeOK /\ Transfer
  BY DEF IInv
<1>4. Spec => []InStep
  BY <1>2, <1>3, InitInStep, NextInStep, PTL DEF Spec
<1> QED
  BY <1>1, <1>2, <1>3, <1>4, PTL DEF Spec, NeverMisaligned
=============================================================================
