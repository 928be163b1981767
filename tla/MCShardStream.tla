--------------------------- MODULE MCShardStream ---------------------------
(* ShardStream on small instances.  Blocks are 2 bytes (4 for the odd shard *)
(* that makes the buffers be replaced), files up to MaxSize bytes.          *)
EXTENDS ShardStream

CONSTANTS MaxSize, MaxDepth, MaxBatch, SegmentSizes

Shard(from, length, size, blk) ==
  [offset |-> from, length |-> length, size |-> size, block |-> blk,
   exists |-> TRUE, faulty |-> TRUE]

\* Windows inside, up to and past the end of the file, empty ones, and
\* misaligned ones; a file with another block size, and one that is missing.
MCShards ==
  {Shard(from, length, size, 2) :
     from \in {0, 2}, length \in 0 .. MaxSize, size \in {0, 3, MaxSize}}
  \cup {Shard(1, 2, 3, 2), Shard(0, 4, 2, 4),
        [Shard(0, 4, 4, 2) EXCEPT !.exists = FALSE]}

\* Later shards show what the first ones leave behind: a window past the end
\* of its file makes close_shard keep slots.
TruncatedShard == Shard(0, 8, 3, 2)
SecondShards == {Shard(0, 3, MaxSize, 2), TruncatedShard, Shard(0, 4, 8, 4)}

FaultyLists ==
  {<<>>} \cup {<<a>> : a \in MCShards} \cup {<<a, b>> : a \in MCShards, b \in SecondShards}
    \cup {<<TruncatedShard, TruncatedShard, b>> : b \in SecondShards}

\* Lists for which calls do not fail: what is left behind by the shards before,
\* and what no device failure should be needed for.
Healthy(list) == [k \in DOMAIN list |-> [list[k] EXCEPT !.faulty = FALSE]]

MCShardLists ==
  FaultyLists \cup
    {Healthy(<<a, b>>) : a \in {Shard(0, 7, MaxSize, 2), Shard(2, 4, 3, 2)}, b \in SecondShards}
    \cup {Healthy(<<TruncatedShard, TruncatedShard, b>>) : b \in SecondShards}

MCOptions ==
  [batch_bytes : 1 .. MaxBatch, read_depth : 1 .. MaxDepth, segment_bytes : SegmentSizes]
=============================================================================
