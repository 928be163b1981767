----------------------------- MODULE MCDataset -----------------------------
(* Dataset on small instances: shard sets whose batches span segments and   *)
(* shards, that end early, are missing or have another geometry.            *)
EXTENDS Dataset

CONSTANTS MaxBatch, MaxPrefetch, MaxDepth

Shard(from, length, size, blk) ==
  [offset |-> from, length |-> length, size |-> size, block |-> blk,
   exists |-> TRUE, faulty |-> TRUE]

Window7 == Shard(0, 7, 7, 2)
Tail3 == Shard(2, 3, 7, 2)
Truncated == Shard(0, 8, 3, 2)
Coarse == Shard(0, 4, 5, 4)
Missing == [Shard(0, 4, 0, 2) EXCEPT !.exists = FALSE]

FaultyLists ==
  {<<>>, <<Window7>>, <<Truncated, Truncated, Tail3>>, <<Truncated, Coarse>>,
   <<Tail3, Missing>>}

\* A set for which calls do not fail.
Healthy(list) == [k \in DOMAIN list |-> [list[k] EXCEPT !.faulty = FALSE]]

MCShardLists ==
  FaultyLists \cup {Healthy(<<Truncated, Coarse>>), Healthy(<<Window7>>)}

MCOptions ==
  [batch_bytes : 1 .. MaxBatch, prefetch : 1 .. MaxPrefetch, read_depth : 1 .. MaxDepth]
=============================================================================
