---------------------------- MODULE DirectReader ----------------------------
(***************************************************************************)
(* DirectReader of src/reader.cpp over FileIO: a window of a file read in  *)
(* blocks, of which another process may take the end away or add to it.    *)
(* A chunk is where it starts and how long it is.                          *)
(***************************************************************************)
EXTENDS FileIO

VARIABLES
  start_, end_, position_, (* the reader's members                          *)
  chunk                    (* what next_chunk last returned                 *)

readerVars == <<start_, end_, position_>>
vars == <<fileVars, readerVars, chunk>>

NoChunk == [offset |-> 0, bytes |-> -1]

Init ==
  /\ FileInit
  /\ start_ = 0 /\ end_ = 0 /\ position_ = 0 /\ chunk = NoChunk

-----------------------------------------------------------------------------
(* open: the size is a snapshot.                                            *)

OpenWindow(offset, length) ==
  /\ start_' = offset
  /\ end_' = offset + length
  /\ position_' = offset
  /\ pc' = "idle" /\ err' = "none" /\ grew' = FALSE
  /\ UNCHANGED <<size, io, total, moved, committed, chunk>>

Open == pc = "new" /\ OpenWindow(0, size)

\* Mutant: the offset's alignment is left to the kernel.
OffsetAnywhere(offset) == offset <= size
OffsetAccepted(offset) == offset % Block = 0 /\ offset <= size

OpenAt(offset, length) ==
  /\ pc = "new"
  /\ OffsetAccepted(offset)
  /\ OpenWindow(offset, Lesser(length, size - offset))

OpenRejects(offset) ==
  /\ pc = "new"
  /\ ~OffsetAccepted(offset)
  /\ err' = "rejected"
  /\ UNCHANGED <<size, ioVars, committed, readerVars, pc, chunk>>

-----------------------------------------------------------------------------
(* next_chunk                                                               *)

\* Mutant: a last chunk shorter than a block is left out.
AtEndOfBlocks == position_ + Block > end_
AtEnd == position_ >= end_

ChunkAtEnd ==
  /\ pc = "idle"
  /\ AtEnd
  /\ chunk' = [offset |-> position_, bytes |-> 0]
  /\ err' = "none"
  /\ UNCHANGED <<size, ioVars, committed, readerVars, pc>>

BeginChunk ==
  /\ pc = "idle"
  /\ ~AtEnd
  /\ Begins("chunk", FALSE, position_, Block, 0)
  /\ UNCHANGED <<size, committed, err, readerVars, chunk>>

\* Mutant: the bytes past the window are not cut off.
TrimmedNot(bytes) == bytes
Trimmed(bytes) == Lesser(bytes, end_ - position_)

EndChunk ==
  /\ pc = "chunk" /\ Done
  /\ LET bytes == Trimmed(total)
     IN  /\ chunk' = [offset |-> position_, bytes |-> bytes]
         /\ position_' = position_ + bytes
  /\ Ends("idle")
  /\ err' = "none"
  /\ UNCHANGED <<size, committed, start_, end_>>

Reset ==
  /\ pc = "idle"
  /\ position_' = start_
  /\ chunk' = NoChunk
  /\ UNCHANGED <<fileVars, start_, end_>>

-----------------------------------------------------------------------------
Reader ==
  \/ Open
  \/ \E offset, length \in 0 .. MaxOffset : OpenAt(offset, length)
  \/ \E offset \in 0 .. MaxOffset : OpenRejects(offset)
  \/ ChunkAtEnd \/ BeginChunk \/ EndChunk \/ Reset

Next ==
  \/ Reader
  \/ FileNext /\ UNCHANGED <<readerVars, chunk>>

Spec == Init /\ [][Next]_vars

\* The system calls return and the thread that makes them runs.
FairSpec ==
  Spec /\ WF_vars(\/ EndChunk
                  \/ (Pread \/ Pwrite \/ Refuse \/ EndWrite \/ EndReadInto)
                      /\ UNCHANGED <<readerVars, chunk>>)

-----------------------------------------------------------------------------
(* Every variable keeps its type: the position stays inside the window.    *)
TypeOK ==
  /\ FileTypeOK
  /\ start_ \in Nat /\ end_ \in Nat
  /\ position_ \in start_ .. end_
  /\ chunk \in [offset : Nat, bytes : Int]

(* The end of the stream is announced only at the window's end or at the   *)
(* end of a file that was truncated: no chunk is left out.                 *)
EmptyOnlyAtEnd ==
  [][chunk' # chunk /\ chunk'.bytes = 0 => position_ >= end_ \/ position_ >= size]_vars

(* "A file that grows or shrinks while it is read yields the chunks its    *)
(* size allowed, and end of file is an empty chunk rather than an error"   *)
(* (include/dsio/reader.hpp): a read of a chunk, or of a region aligned as  *)
(* asked, is refused for its alignment only where the file has grown since  *)
(* the reader was opened or read_into was called, or where the call itself  *)
(* goes on from the middle of a block that the kernel gave it a part of: no *)
(* earlier chunk, short or trimmed, leaves the next one off its block.      *)
NeverMisaligned ==
  [][pc = "chunk" \/ (pc = "sink" /\ io.offset % Block = 0 /\ io.base % Block = 0) =>
       (pc' # pc /\ err' = "einval" => grew \/ total % Block # 0)]_vars
=============================================================================
