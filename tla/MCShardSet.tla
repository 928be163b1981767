----------------------------- MODULE MCShardSet -----------------------------
(* ShardSet on small instances: numbers below 32, shards at the edge of     *)
(* that, misaligned and empty ones, manifests of other tools.               *)
EXTENDS ShardSet

Shard(file, base, offset, length) ==
  [path |-> [file |-> file, base |-> base], offset |-> offset, length |-> length]

MCAdded ==
  {Shard(1, "cwd", 0, 12), Shard(1, "root", 28, 3), Shard(1, "cwd", 28, 4),
   Shard(1, "cwd", 2, 1), Shard(1, "root", 4, 0),
   Shard(2, "cwd", 0, 1), Shard(3, "cwd", 0, 1), Shard(4, "cwd", 0, 1)}

Foreign(file, base, offset, length) ==
  [kind |-> "shard", path |-> [file |-> file, base |-> base],
   offset |-> offset, length |-> length]

MCManifests ==
  {<<>>, <<Malformed>>, <<Header, Foreign(1, "manifest", 4, 30)>>,
   <<Foreign(1, "root", 0, 31), Foreign(1, "cwd", 0, 40)>>,
   <<Foreign(1, "root", 8, 23), Header, Foreign(3, "manifest", 0, 1)>>}

Entry(kind, hidden, size) == [kind |-> kind, hidden |-> hidden, size |-> size]

MCDirectories ==
  {[f \in Files |-> CASE f = 1 -> Entry("file", FALSE, 5)
                      [] f = 2 -> Entry(kind, FALSE, 0)
                      [] f = 3 -> Entry("file", hidden, 7)
                      [] OTHER -> Entry("other", FALSE, 0)] :
     kind \in {"file", "unknown"}, hidden \in BOOLEAN}
=============================================================================
