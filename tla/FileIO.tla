------------------------------- MODULE FileIO -------------------------------
(***************************************************************************)
(* pread_exact and pwrite_exact of File (src/file.cpp) on a file open with *)
(* O_DIRECT, and read_into of src/sink.cpp on top, while another process   *)
(* truncates the file or appends to it.  A byte is known by where it is:   *)
(* what a call has moved is a set of pairs of an offset in the file and an *)
(* index in the buffer.  A call that EINTR interrupts is made again.       *)
(***************************************************************************)
EXTENDS Integers

CONSTANTS
  Block,      (* the file's alignment                                       *)
  MaxSize,    (* bound: the file's size                                     *)
  MaxOffset,  (* bound: the offsets and lengths calls are made with         *)
  Grows,      (* another process may append to the file                     *)
  Shrinks     (* another process may truncate it                            *)

ASSUME BlockAssumption == Block \in Nat \ {0}
ASSUME BoundsAssumption == MaxSize \in Nat /\ MaxOffset \in Nat
ASSUME WriterAssumption == Grows \in BOOLEAN /\ Shrinks \in BOOLEAN

VARIABLES
  size,       (* the file's size now                                        *)
  pc,         (* who waits for the transfer under way: "chunk" (next_chunk),*)
              (* "sink" or "write"; "idle" and "new": nobody                *)
  io,         (* its arguments; base is the buffer's address                *)
  total,      (* bytes moved so far                                         *)
  moved,      (* history: which                                             *)
  grew,       (* history: the file has grown since it began, or, for a     *)
              (* reader, since that was opened                             *)
  committed,  (* what the sink was last told, or None                       *)
  err         (* "none", or why the last call failed                        *)

ioVars == <<io, total, moved, grew>>
fileVars == <<size, pc, ioVars, committed, err>>

Lesser(a, b) == IF a < b THEN a ELSE b
Greater(a, b) == IF a < b THEN b ELSE a
None == -1
NoTransfer == [write |-> FALSE, offset |-> 0, length |-> 0, base |-> 0]

FileInit ==
  /\ size \in 0 .. MaxSize
  /\ pc = "new" /\ committed = None /\ err = "none"
  /\ io = NoTransfer /\ total = 0 /\ moved = {} /\ grew = FALSE

Begins(caller, write, offset, length, base) ==
  /\ pc' = caller
  /\ io' = [write |-> write, offset |-> offset, length |-> length, base |-> base]
  /\ total' = 0 /\ moved' = {}
  /\ grew' = IF caller = "chunk" THEN grew ELSE FALSE

Ends(to) ==
  /\ pc' = to
  /\ io' = NoTransfer /\ total' = 0 /\ moved' = {}
  /\ UNCHANGED grew

\* Where a call that failed goes back to.
Caller == IF pc = "chunk" THEN "idle" ELSE "new"

-----------------------------------------------------------------------------
(* The loops of pread_exact and pwrite_exact: the rest, at offset + total.  *)

\* Mutant: every round starts again at the offset.
AtOffset == io.offset
At == io.offset + total
Left == io.length - total

\* The kernel refuses what is not on block boundaries; at end of file a read
\* gets its 0 whatever the alignment.
Refused ==
  /\ io.write \/ At < size
  /\ \/ At % Block # 0
     \/ (io.base + total) % Block # 0
     \/ Left % Block # 0

Moves(n) ==
  /\ total' = total + n
  /\ moved' = moved \cup {<<At + i, total + i>> : i \in 0 .. n - 1}

\* A read before the end of file may be short, as a write may be.
Pread ==
  /\ pc \in {"chunk", "sink"} /\ Left > 0 /\ At < size
  /\ ~Refused
  /\ \E n \in 1 .. Lesser(Left, size - At) : Moves(n)
  /\ UNCHANGED <<size, pc, io, grew, committed, err>>

Pwrite ==
  /\ pc = "write" /\ Left > 0
  /\ ~Refused
  /\ \E n \in 1 .. Left : Moves(n) /\ size' = Greater(size, At + n)
  /\ UNCHANGED <<pc, io, grew, committed, err>>

Fails(why) ==
  /\ pc \in {"chunk", "sink", "write"} /\ Left > 0
  /\ Ends(Caller)
  /\ err' = why
  /\ UNCHANGED <<size, committed>>

Refuse == Refused /\ Fails("einval")

\* Also a pwrite that returns 0.
IoError == ~Refused /\ Fails("io")

\* Mutant: an empty read does not end the loop.
DoneWhenFull == Left = 0
Done == Left = 0 \/ (~io.write /\ At >= size)

BeginWrite(offset, length, base) ==
  /\ pc = "new" /\ offset + length <= MaxSize
  /\ Begins("write", TRUE, offset, length, base)
  /\ err' = "none"
  /\ UNCHANGED <<size, committed>>

EndWrite ==
  /\ pc = "write" /\ Done
  /\ Ends("new")
  /\ UNCHANGED <<size, committed, err>>

-----------------------------------------------------------------------------
(* read_into                                                                *)

\* Mutant: the whole region is asked for.
WholeRegion(length) == length
AlignedPart(length) == length - (length % Block)

BeginReadInto(offset, length, base) ==
  /\ pc = "new"
  /\ AlignedPart(length) > 0
  /\ Begins("sink", FALSE, offset, AlignedPart(length), base)
  /\ committed' = None /\ err' = "none"
  /\ UNCHANGED size

\* Device memory, or a region of less than a block.
ReadIntoRejects ==
  /\ pc = "new"
  /\ committed' = None /\ err' = "rejected"
  /\ UNCHANGED <<size, pc, ioVars>>

\* Mutant: the sink is told what was asked for.
GotAll == io.length
Got == total

\* commit, which fails only in a device sink.
EndReadInto ==
  /\ pc = "sink" /\ Done
  /\ committed' = Got
  /\ err' \in {"none", "commit"}
  /\ Ends("new")
  /\ UNCHANGED size

-----------------------------------------------------------------------------
(* Another process writes the file.                                         *)
Resize(n) ==
  /\ Grows \/ n < size
  /\ Shrinks \/ n > size
  /\ n # size
  /\ size' = n
  /\ grew' = (grew \/ (n > size /\ pc # "new"))
  /\ UNCHANGED <<pc, io, total, moved, committed, err>>

FileNext ==
  \/ Pread \/ Pwrite \/ Refuse \/ IoError
  \/ \E offset, length \in 0 .. MaxOffset, base \in {0, 1} :
       BeginWrite(offset, length, base) \/ BeginReadInto(offset, length, base)
  \/ EndWrite \/ ReadIntoRejects \/ EndReadInto
  \/ \E n \in 0 .. MaxSize : Resize(n)

-----------------------------------------------------------------------------
FileTypeOK ==
  /\ size \in 0 .. MaxSize
  /\ pc \in {"new", "idle", "chunk", "sink", "write"}
  /\ io \in [write : BOOLEAN, offset : Nat, length : Nat, base : Nat]
  /\ total \in 0 .. io.length
  /\ moved \subseteq Nat \X Nat
  /\ grew \in BOOLEAN
  /\ committed \in Nat \cup {None}
  /\ err \in {"none", "rejected", "einval", "io", "commit"}

(* When pread_exact, pwrite_exact or read_into returns ok, the bytes it    *)
(* reports, and no others, have gone between the offset it was given and   *)
(* the start of the buffer, however many rounds that took and whatever     *)
(* happened to the file in between; fewer than asked for only when a read  *)
(* has met the end of the file; and a sink is told of exactly these        *)
(* ("called once the bytes are written", include/dsio/sink.hpp).           *)
TransfersExact ==
  [][pc' # pc /\ pc \in {"chunk", "sink", "write"} /\ err' \in {"none", "commit"} =>
       /\ moved = {<<io.offset + i, i>> : i \in 0 .. total - 1}
       /\ total = io.length \/ (~io.write /\ io.offset + total >= size)
       /\ pc = "sink" => committed' = total]_fileVars

(* Every call returns, as long as the system calls below it do: no read    *)
(* waits at the end of a file for bytes that another process cut off.      *)
CallsReturn == pc \in {"chunk", "sink", "write"} ~> pc \in {"new", "idle"}
=============================================================================
