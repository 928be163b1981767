--------------------------- MODULE MCForEachBatch ---------------------------
(* ForEachBatch on small instances: every prefetch up to MaxPrefetch with   *)
(* streams longer than all the buffers together, and the rejected options.  *)
EXTENDS ForEachBatch

CONSTANTS MaxPrefetch, MaxTotal

MCOptions == [batch_bytes : 0 .. 1, prefetch : 0 .. MaxPrefetch, read_depth : 0 .. 1]
MCTotals == 0 .. MaxTotal
=============================================================================
