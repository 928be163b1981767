----------------------------- MODULE ByteStream -----------------------------
(***************************************************************************)
(* What for_each_batch promises of the shard set: "one continuous byte     *)
(* stream" (include/dsio/dataset.hpp).  The bytes of every shard's window  *)
(* that its file holds are delivered once, in order, shard after shard,    *)
(* and the end is announced only when nothing is left.                     *)
(*                                                                         *)
(* An extent [sh, at, n] stands for the n bytes of shard sh's file from    *)
(* offset `at' on.  A stream that fails, or is abandoned, just stops.      *)
(***************************************************************************)
EXTENDS Integers, Sequences

VARIABLES
  shards,   (* the shards in stream order, fixed                            *)
  out,      (* the extents delivered so far, in order                       *)
  ended     (* the end of the stream has been announced                     *)

vars == <<shards, out, ended>>

\* Where the bytes of shard k stop: at its window's end or at end of file.
ReadableEnd(k) ==
  LET window_end == shards[k].offset + shards[k].length
  IN  IF shards[k].size < window_end THEN shards[k].size ELSE window_end

\* The shard the stream is in, and how far it has come in shard k >= Current.
Current == IF out = <<>> THEN 1 ELSE out[Len(out)].sh

Reached(k) ==
  IF out # <<>> /\ k = Current
    THEN out[Len(out)].at + out[Len(out)].n
    ELSE shards[k].offset

Exhausted(k) == shards[k].exists /\ Reached(k) >= ReadableEnd(k)

Init == out = <<>> /\ ended = FALSE

Deliver(e) ==
  /\ ~ended
  /\ e.sh \in Current .. Len(shards)
  /\ \A k \in Current .. e.sh - 1 : Exhausted(k)
  /\ e.n > 0
  /\ e.at = Reached(e.sh)
  /\ e.at + e.n <= ReadableEnd(e.sh)
  /\ out' = Append(out, e)
  /\ UNCHANGED <<shards, ended>>

Finish ==
  /\ ~ended
  /\ \A k \in Current .. Len(shards) : Exhausted(k)
  /\ ended' = TRUE
  /\ UNCHANGED <<shards, out>>

\* Deliver's extent is the last one of out'.
Next ==
  \/ Finish
  \/ /\ Len(out') = Len(out) + 1
     /\ Deliver(out'[Len(out) + 1])

Spec == Init /\ [][Next]_vars
=============================================================================
