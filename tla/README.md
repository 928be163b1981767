# A TLA+ model of dsio

dsio is a Linux library that streams machine-learning datasets with `O_DIRECT`
reads. A dataset is a list of shards, each a window of a file; `for_each_batch`
hands a callback one continuous byte stream cut into batches, while a worker
thread reads ahead through an asynchronous backend.

These modules model the two threads of `for_each_batch`, the out-of-order
segment reads of `ShardStream`, the two together, the two backends, the reads and
writes of a file that another process changes, the manifest and its ways to be
left unfinished, and who owns which descriptor and mapping. TLC checks them on
small instances; TLAPS proves every safety property that is checked, and the
refinements up to fairness, for all values of the constants. Paths below are
relative to the repository's root.

## The system

| Component | State | Operations | Talks to |
|---|---|---|---|
| `for_each_batch` (`src/dataset.cpp`) | channels `free` and `ready`, `SharedError`, the caller's `keep_going` | validation, producer task, caller's loop, the two ways out, join | `ShardStream::read`, the callback, `fp::Channel`, `fp::ThreadPool` |
| `ShardStream` (`src/dataset.cpp`) | the open shard and its window, `pending_`, `free_` slots, read buffers, carried bytes | `read`, `open_shard`, `prepare_buffers`, `fill_pipeline`, `await_front`, `flush_carry`, `close_shard`, destructor | one `Backend` per shard, `File` |
| `Backend` (`include/dsio/backend.hpp`) | requests in flight | `submit`, `reap` | the contract the two below implement |
| `UringBackend` (`src/uring.cpp`) | the ring's two queues, `in_flight_` | `submit`, `reap`, teardown | the kernel |
| `ThreadBackend` (`src/thread_backend.cpp`) | `pending_` futures, the pool's tasks | `submit`, `reap`, teardown (joins) | `fp::ThreadPool`, `pread` |
| `DirectReader` (`src/reader.cpp`) | window `start_`, `end_`, `position_` | two `open`s, `next_chunk`, `reset` | `File::pread_exact` |
| `File` (`src/file.cpp`) | a descriptor, an alignment | open, positional reads and writes, sync, close | the kernel |
| `ShardSet` (`src/shard.cpp`) | the list of shards | `add`, `load`, `save`, `discover` | a manifest file, directories |
| `Sink`, `read_into` (`src/sink.cpp`) | a destination | `read_into` | `File` |
| `MmapFile` (`src/mmap.cpp`) | a mapping | open, window, `advise`, close | the kernel |
| alignment helpers (`src/align.cpp`) | none | `align_up`, `align_down`, `is_aligned`, `block_size` | |

What is hard here is concurrency and order. A batch buffer travels producer →
`ready` → callback → `free` → producer, and either side may leave at any moment:
the stream ends, a read fails, the callback says stop or throws. Below that,
segment reads finish in any order into buffers that are reused, across shards
too, while a backend that is torn down may leave reads running. Below that
again, a backend keeps a count of its own beside the kernel's queues. Descriptors
and addresses are reused as soon as they are given back, so an object that keeps
a stale one reaches another object's file. Only the manifest is persisted; a
crash or a full disk may leave a part of it.

What makes each part correct:

* pipeline: a buffer is in one hand at a time; the callback sees the batches in
  order and none is dropped; an error is reported; the call returns;
* stream: the bytes delivered are the bytes of the windows, in order; no read
  can write into a buffer in use; an empty pipeline means an exhausted shard;
* backends: each request is handed back exactly once, `reap` waits for enough
  and for no more, and succeeds with no less;
* file, reader and sink: what a call reports is what it has moved, in however many
  rounds; the chunks are the window's bytes, and the end is announced only there;
* shard set: what `load` accepts can be read and is what was saved, or a prefix;
* handles: each descriptor and mapping has one owner, on every error path too.

## The modules

| Module | Models | Checked through |
|---|---|---|
| `ForEachBatch` | `for_each_batch` with both threads | `MCForEachBatch` |
| `ForEachBatchProofs` | theorems about the pipeline | tlapm |
| `ShardStreamProofs` | theorems about the stream's buffers, requests and backend, and the bytes it delivers | tlapm |
| `DatasetProofs` | theorems about the whole call, over those about its two parts | tlapm |
| `UringBackendProofs`, `OpenBackendProofs` | theorems about the ring, and about the backend a caller is given | tlapm |
| `DirectReaderProofs` | theorems about `FileIO` and the reader | tlapm |
| `HandlesProofs` | theorems about the owners of descriptors and mappings | tlapm |
| `ShardSetProofs` | theorems about manifests and directories | tlapm |
| `ByteStream` | the abstract stream of a shard set | `ShardStream` refines it |
| `ShardStream` | the class, its backend and the device | `MCShardStream` |
| `Dataset` | `for_each_batch` on its stream: both modules, the device, and the stream's end | `MCDataset`; refines `ForEachBatch` |
| `Backend` | the abstract contract of `submit` and `reap`, and what is left of it for a `min` above 1 on io_uring | both backends refine it |
| `BackendOptions` | the queue depth, the pool sizes asked for and the bounds on a caller | extended by the next three |
| `UringBackend`, `ThreadBackend` | the two backends | `OpenBackend`; `UringMinimum.cfg` |
| `OpenBackend` | the backend `open_backend` hands out, one or the other | its own `.cfg` |
| `FileIO` | `pread_exact`, `pwrite_exact` and `read_into`, with another process resizing the file | `DirectReader` |
| `DirectReader` | the reader, over `FileIO` | its own `.cfg` |
| `ShardSet` | the list of shards, the manifest on disk and the directory | `MCShardSet` |
| `Handles` | ownership in `File`, `block_size`, `MmapFile`, the backend factories and `open_shard`/`close_shard` | `MCHandles` |

The definitions keep the names of the code; `PROJECT.json` maps each one to its
lines. An operator introduced by a comment `Mutant:` is a deliberately broken
variant of the definition after it. It is not part of any specification; it
serves to show that the property it belongs to can fail.

**ForEachBatch.** A step is what a thread does between two points where the
other can notice: a channel operation, `SharedError`, a read, a callback. `ppc`
and `cpc` are the places in the two loops. Buffers are heap blocks 0..prefetch
and `content[b]` says which batch's bytes block `b` holds, so sharing a buffer
would be visible as wrong content. The stream is only a number of batches, an
end, and reads that may fail; `ReadMayThrow` adds exceptions that are not
Outcomes (`carry_.resize` allocates). `fp::Channel` and `fp::ThreadPool` belong
to another library and are modelled from how this code uses them: a bounded
blocking queue whose `recv` drains what was sent before a close, then throws,
and whose `send` throws once it is closed; a destructor that joins.

**ShardStream.** Bytes are extents `[sh, at, n]`. `mem[s]` is what the last read
left in slot `s`, so `out` shows what was really copied, not what should have
been. `flight` and `cq` are the backend: a read in flight finishes at any time
and writes its buffer at that moment. `ResetWaits` says which backend it is: the
thread pool's destructor waits for its reads, `io_uring_queue_exit` leaves them
to the kernel as `orphans` that may still write. `gen` numbers the generations
of `buffers_`. `await_front` reaps one completion at a time, and so does `Reap`.
The device obeys `O_DIRECT`:
a misaligned read fails, a read past end of file is short. `ShortReads` lets a
read return less than the file holds; `SubmitPart` is io_uring taking only some of
the entries it is given, the others staying in `ring`, where they count as in
flight and may never finish; a segment smaller than a block has no bytes, and the
request `fill_pipeline` then makes of it is undefined (`Overrun`, where the model
stops). Calls for a shard that is `faulty` (opens,
allocations, `submit`, `reap`, reads) may fail, those for another may not. The constructor gets the shards in stream
order, so the seeded shuffle is any order of the list.

**Dataset.** The two modules above, instantiated over one set of variables: what
is one step in `ForEachBatch`, `stream.read`, is here all the steps of
`ShardStream`, taken by the producer while the caller and the device go on. `cuts`
records where each batch ends in what the stream has copied, so the number in a
batch buffer stands for bytes. The locals of the call go in reverse order: the
pool, which joins the producer, then the stream, then the call has returned
(`DestroyStream`, `Caller`). `ForEachBatch`'s `total` is computed from the
shards, and its reduction of the stream is checked, not assumed: `Dataset`
implements its specification, fairness included, so the assumption there that
a read returns is discharged here by the stream and the device. Its segments are
at least a block and its backend takes every submission whole or not at all;
what happens otherwise is in `ShardStream`.

**Backends.** Requests are numbered as they are submitted. `UringBackend` has
the submission queue, the kernel and the completion queue; `SubmitMayFail` lets
`io_uring_submit` fail or take only part of the entries, `WaitMayFail` lets
`io_uring_wait_cqe` fail. `ThreadBackend` has the pool's task queue and its
workers. Both are mapped to `Backend`, whose state is what is in flight, handed
back and lost, the call under way and whether the last one returned ok: a reap
that succeeds has at least `Owed` completions, and one may fail only while it
still owes some, losing none. `OpenBackend` is the one of the two that
`open_backend` gives its caller. With a `min` above 1 the ring's `reap` does not
keep this contract; `EarlyNext` is what it keeps, with `OwedEarly`, half of what
is in flight, in the place of `Owed`, and with losses where it fails.

**FileIO and DirectReader.** A call is one `pread` or `pwrite` per step, so that
the file can be resized between two of them; either may move fewer bytes than it
could. `io` holds the arguments of the
transfer under way, `moved` the pairs of file offset and buffer index that have
been copied; `pc` says whether `next_chunk`, `read_into` or a direct
`pwrite_exact` waits for it. `O_DIRECT` refuses an offset, an address or a length
off a block boundary, and gives 0 at end of file whatever the alignment. Each
open of the reader takes the size it sees as its window. A single thread calls;
the other process is `Resize`. The loops on `EINTR` repeat a call that had no
effect and are left out.

**ShardSet.** A manifest is a sequence of lines; a path is the file it names and
what it is relative to, which is all that `save` and `load` change about it.
`save` inserts lines into `text`, the stream's buffer, and `Flush` and `Close`
let any prefix of it reach the disk, in the middle of a line too; a write may
fail (`bad`), and `Crash` may come at any point. Lengths are kept modulo
`Modulus`, the 2^64 of `std::uint64_t`, and a line's numbers may be larger, since
`from_chars` has to refuse them. `load` is one step: it reads nothing that
changes meanwhile. `discover` visits the directory in any order while another
process removes files. `Init` also starts with manifests that other tools wrote.

**Handles.** `fds` and `maps` are the kernel's tables; `open` takes the lowest
number that is free, as POSIX says, so a stale number is soon someone else's.
A stream opens a shard (`File::open`, `block_size`'s own descriptor, the ring or
the threads), keeps it and closes it; a user opens, closes, moves and maps files
of its own, and each step is a system call or the exchanges that follow it. The
object a move leaves behind is kept in the state, so a field that is not reset
shows. `AdviseAccepted` and `Advised` are the arithmetic of `advise`, which
changes no state of the object. `munmap` of a length the object remembers wrongly
leaves the mapping there.

## The runs

| Run | Configuration | Shows |
|---|---|---|
| `pipeline` | prefetch up to 3, up to 6 batches, failures, exceptions, rejected options | `NoSharing`, `InOrder`, `RecycleNeverBlocks`, `NothingDropped`, `Terminates`, `TypeOK` |
| `stream_safety` | up to 3 shards, read depth up to 4, batches of 1 to 3 bytes, blocks of 2 and 4, `segment_bytes` of 0 (the default), 3 and 4, failures, partial submissions, orphaned reads | `SlotsExclusive`, `BackendAgrees`, `NeverStarved`, `RequestsAligned`, `NeverFailsAlone`, the refinement `DeliversStream`, `OnlyLastShort`, `TypeOK` |
| `dataset` | 7 shard sets of up to 3 shards, batches of 1 to 3 bytes, prefetch up to 2, read depth up to 3, segments of 2 and 4, failures, stops, waiting teardown | the refinement `ImplementsPipeline`, `CallbackGetsTheSet`, `ReadAheadBounded`, `ErrorsHaveCause`, `BuffersKept` |
| `backends` | either backend, depth 3, 5 requests, `min` and room up to 3, faulty submissions and waits, pools asked for 0, 1, 2 threads | the refinement `ImplementsBackend`, `InFlightExact`, `InSubmissionOrder`, `ReapReturns` |
| `file_io` | blocks of 3 bytes, files up to 8, every window, region and aligned or misaligned buffer, short reads and writes, truncation and growth at any time | `TransfersExact`, `EmptyOnlyAtEnd`, `NeverMisaligned`, `CallsReturn`, `TypeOK` |
| `manifest` | 64-bit arithmetic at 5 bits, lists of up to 2 shards added or loaded, 3 calls, 5 foreign manifests, 4 directories | `LoadedSound`, `RoundTrip`, `UnfinishedIsPrefix`, `DiscoverExact`, `TypeOK` |
| `handles` | a stream and a user, a file and a block device, 5 descriptors, 2 mappings, pages of 2 bytes | `DescriptorsOwned`, `DescriptorsReachTheirFile`, `MappingsOwned`, `AdviceStaysInside`, `TypeOK` |

Five more runs are expected to end in a counterexample; they are listed under
"Disagreements" below.

*Bounds.* The pipeline's buffers cycle, so what matters is streams longer than
all the buffers together: 6 batches against at most 4 buffers means that every
buffer is refilled, and prefetch 1 is where the two channels are full and empty
at once. For the stream, windows of up to 8 bytes over blocks of 2 give up to
four segments, more than the depth can hold for small depths and fewer for large
ones; windows end inside, at and past the end of file, are empty or misaligned;
batches of 1 to 3 bytes are smaller than, equal to and not multiples of a
segment, so bytes are carried over. Two shards whose window runs past the file
followed by a third exercise slots that `close_shard` does not release; a shard
with another block size forces the buffers to be replaced while old reads are
still running. The composed run has fewer shard sets, chosen for what crosses the
border between the two modules: a set of 7 bytes in batches of 1 is more batches
than buffers; batches of 2 and 3 span segments and shards; shards end early with reads in
flight, one has another block size and one is missing, so that the stream fails while
batches are queued. Most sets are `faulty`, so that every call may fail anywhere; a few
are not, which is where an error would have no cause (`NeverFailsAlone`,
`ErrorsHaveCause`). `SegmentSizes` has the default and a segment larger than a
batch, when bytes are carried over several batches; `stream_safety` has one in
between too, of 3 bytes, which is cut to a block of 2 and is less than a block of
4. The teardown of the composed run waits: what a backend leaves to the kernel is
`stream_safety`'s subject. Five requests over a depth of 3 fill each backend and go
round; a `min` of 3 with 3 in flight is where half of them and all of them
are apart.
Blocks of 3 bytes and 8-byte files make the last block partial, and two blocks
are what a transfer needs to go on after a round that stopped at the end of file.
Three calls are a save, a second one over its manifest and a load, with a crash
or a failed write in either; the shards include one that ends at the last
64-bit offset, one that wraps, a misaligned and an empty one. Five descriptors
are one more than a stream and a user can hold in most places together, and few
enough that `open` also finds none free.

*Deadlock* is checked in the stream, dataset, file, manifest and handles runs. In the
pipeline's run it is not, because an exception out of `stream.read` really does leave the
caller waiting (see below); in the backends' runs it is not, because the
number of requests is bounded and a reap may wait for entries left in the ring.

*Fairness.* Weak fairness of each thread of the pipeline: the operating system
schedules both, reads finish, callbacks return. For the composition, of the
producer, the caller and the device, of which the pipeline's follows
(`ImplementsPipeline`). The stream alone has none: its liveness is that of the
composition. For the backends, of the kernel or the workers and of a reap under
way, not of the caller, and no wait is obliged to fail. For the file, of the thread
that is in a call and of the system calls it makes. No strong fairness is used
anywhere, and none of these is more than the code needs to run at all.

## What is proved

**The batch pipeline.** `ForEachBatchProofs` proves for every set of options, every prefetch and every
stream length that `Spec` implies `[]TypeOK`, `[]NoSharing`, `[]InOrder`,
`[]ReadAheadBounded`, `[]RecycleNeverBlocks`, `[]NothingDropped` and the action
property `SpanStable`. The only assumptions are those on the constants: options
are records of natural numbers, stream lengths are natural numbers, `ReadMayThrow`
is a Boolean. The exceptions of `PReadThrows` are included. `SpanStable` and
the pipeline's own `ReadAheadBounded` are proved and not run: the composed run
checks what they are for, the bytes the callback gets and how far the stream runs
ahead of it.

None of the properties is inductive alone. The inductive invariant `IInv` is the
conjunction of

* `TypeOK` and `NoSharing`;
* `Control`: what the two program counters imply, for instance that `free` is
  open until the caller leaves its loop, which `RecycleNeverBlocks` needs;
* `Conserved`: the queued buffers and those in hand number at most prefetch + 1.
  With `NoSharing` it gives the room in `free` when the caller recycles, and
  the bound on the read-ahead;
* `Numbered`: the queued buffers hold the batches that follow the last one the
  callback took, consecutively, and the producer's the one after. It is what
  makes `InOrder` inductive, and its last conjunct, that `produced` counts
  exactly these, ends once the producer has given up a batch on a closed channel;
* `ReadAheadBounded` itself, which survives that last case;
* `Ending`: while the callback has not asked to stop, `ready` is closed only
  after the end was reached or the error was set, with everything produced still
  queued or delivered. This is the argument for `NothingDropped`: `error.take()`
  runs before the join, yet it cannot miss an error the caller should see.

One lemma per conjunct shows that a step preserves it, action by action.
`SpanIsStable` is an action property and follows from `IInv`: the producer only
writes to its own buffer, which is never the callback's.

**The shard stream.** `ShardStreamProofs` proves for every shard list, options,
geometry, read depth and either kind of teardown that `Spec` implies `[]TypeOK`,
`[]NeverStarved` and `[]SlotsExclusive`. The assumptions are those on the
constants in `ShardStream`. Its inductive invariant adds

* `Places`: what is open, pending and in flight at each place in `read`, that
  pending offsets lie in the window (so that trimming never wraps), and that
  reads in flight belong to the current shard and buffers while orphans come
  from earlier shards;
* `Supplied`: `NeverStarved`, and that a slot is free whenever a shard is about
  to be closed or the next one opened. `close_shard` drops entries without
  releasing their slots, so this is what must survive a long list of shards
  whose windows run past their files;
* `Filling`: the last entries of `pending_` are those of the requests about to
  be submitted, and nothing writes to their slots. A failed submit undoes
  exactly these;
* `Completed`: a completion not yet reaped keeps its slot to itself.

`SlotsExclusive` needs the last two, since a slot passes from the requests to
the device, from there to the completions and back to the stream. Four more
theorems rest on this invariant, each with a part of its own:

* `BackendAgrees`: `reap` never returns 0 where the stream waits, and `submit`
  is never full. `Agreed` says that every submitted entry that is not done has
  its read in flight or its completion waiting, and the reverse; that there is
  room is a count of slots: those in flight, those completed and those of the
  new requests are apart, and there are `read_depth` of them (`NeverFull`).
* `RequestsAligned`, from `Geometry`: `block` and `segment` are the open shard's,
  and `next_offset` is on a block boundary as long as something is left to
  request. `SegmentFor` and `RequestLength` yield whole blocks, at least one, or,
  for a segment below a block, buffers of no bytes, which no request fits.
* `NeverFailsAlone`, from `Sound`: `read()` fails only if a file is missing, a
  window begins inside a block, a segment is below a block, or a call fails
  (`Disturbed`), short reads or not.
  No completion has an error of the stream's making because every read in flight is
  aligned (`RequestsAligned`), and what `await_front` and `submit` report of
  themselves is excluded by `BackendAgrees`.
* `BuffersKept`, from `Waiting`: a backend whose `reset` waits leaves no orphans.

**The bytes the stream delivers.** `ShardStreamProofs` also proves `OnlyLastShort`,
and, for devices that return no less than the file holds (`~ShortReads`), that
`ShardStream` implements `ByteStream`: every step copies the next bytes of the
windows, or none. Without that assumption it is false (`stream_short_reads`).
Segment reads finish in any order, so this needs to say what each buffer
holds, and for whom:

* `Ordered`: the pending entries cover the window from `Front` to `next_offset`
  without gaps or overlaps;
* `Asked`: each read in flight, and each request about to be submitted, asks for
  the bytes of its entry;
* `Got`: a read that has finished has left its entry's bytes in its entry's
  slot, as many as the file has there, whether it has been reaped or not. That
  another read does not overwrite them is `SlotsExclusive`;
* `Carried`: bytes are carried over from one batch to the next only, never while
  the pipeline is filled or awaited;
* `Streamed`: what was copied and what is carried together reach up to the front
  entry, and the shards before are exhausted;
* `Ending`: a batch is short, and 0 is returned, only when nothing is left.

A last part, `Room`, bounds what the stream holds: a slot's segment is pending,
or its bytes are carried over after its entry was taken, never both, so both
together take at most `read_depth` segments. That carried bytes are fewer than a
segment rests on the window's trimming and on `RequestsAligned`.

**The whole call.** `DatasetProofs` proves for every set of shards, all valid
options, every segment size no smaller than the blocks and every interleaving of
the two threads with the device that

* the i-th call of the callback gets the i-th `batch_bytes` bytes of the set,
  and an unstopped call that returns ok gave it all (`CallbackGetsTheSet`);
* the call implements `ForEachBatch` (`CallImplementsPipeline`, the safety part of
  `ImplementsPipeline`), so all that is proved of the pipeline holds of it;
* what was read or asked for and not given to the callback is bounded, in bytes of
  the set (`ReadAheadBounded`), and reads do not outlive their buffers (`BuffersKept`);
* an error it returns has a cause outside it (`ErrorsHaveCause`): unless a file is
  missing, a window begins inside a block or a call fails, an unstopped call
  returns ok, having given the callback the whole set, or what the callback threw.

The proof composes the two above instead of repeating them. Every step of the
call is a step of `ShardStream` or leaves the stream alone, so the stream's
invariants hold in the call (`StreamRuns`). What is new is the invariant `DInv`,
which counts bytes:

* `Delivered`: the bytes copied so far are the first ones of the set. `ByteStream`
  says which extent comes next, `SkipFacts` that skipping exhausted shards skips
  no bytes, `DeliverFacts` that an extent then holds the next bytes of the set;
* `Counted`: as long as every read has filled its batch, those bytes are
  `produced` batches and what is filled of the next; after a short one they are
  the whole set. So `produced` is below `CeilDiv` of the set's length exactly
  when bytes are left, which is the guard of `ForEachBatch`'s reads;
* `Cut`: the k-th entry of `cuts` is where k batches of the set end.

With the refinement, `ForEachBatch`'s own invariant holds in the call: the
callback sees batch numbers 1, 2, 3, ... (`InOrder`), and `Cut` says what bytes
they stand for. `Conserved` bounds how many batches are ahead, `Room` what the
stream has beyond them. The segment and shard lists must be what
`ShardStream` assumes; reads that return less than the file holds are excluded,
as for `DeliversStream`. Exceptions out of `stream.read` are left to
`ForEachBatch`, where they are proved about. `ErrorsHaveCause` needs nothing but
`NeverFailsAlone` of the stream and `Sure`, that an error in `SharedError` or in
the result comes from a stream that has failed.

**The backends.** `OpenBackendProofs` proves of what `open_backend` hands out,
either backend, that it implements `Backend` (`ImplementsBackend`), for every
queue depth and every order of completion, and `InSubmissionOrder` and
`InFlightExact`. The facts about the pool are in that module, those about the
ring in `UringBackendProofs`, which it instantiates; its invariant `Opened` says
that the backend that was opened is where they put it. `TypeOK` is proved and
not run: what a run could show by it, that no more is in flight than the depth
allows, is in the contract that `ImplementsBackend` checks.
For the thread pool the requests are numbered as submitted; `Queued` says that
those handed back, those `reap` has taken and those kept are three consecutive
intervals, and `Waited` that the futures `reap` has waited for stay ready. For
io_uring, `Apart` says that a request is in one place at a time (submission
queue, kernel, completion queue, taken, handed back), and `Call` ties `reap`'s
arguments to what it has taken. All of it holds for every `min`. A reap that asks
for at most one completion, as every reap of `ShardStream` does, has the whole
contract, whatever was asked for before; for the others the theorem says how much
is left: the loop ends with the count at `min` or at half of what was in flight,
and a failure loses fewer than that. That the contract itself fails is
`uring_minimum`.

**Files and the reader.** `DirectReaderProofs` proves `TransfersExact`,
`EmptyOnlyAtEnd` and `NeverMisaligned` for every block size, file and window,
every length the kernel cuts a call to and every resizing by another process.
`Transfer` says that `moved` is exactly the first `total` bytes of the call under
way. `InStep` holds until the file grows: a reader is on a block boundary or has
nothing left to read. A round after the first is aligned as the call is if what
was moved is whole blocks (`BlocksApart`); `NeverMisaligned` excepts the rest,
which the kernel really refuses (see below).

**The handles.** `HandlesProofs` proves `DescriptorsOwned`,
`DescriptorsReachTheirFile`, `MappingsOwned` and `AdviceStaysInside` for any
number of streams, users, files and descriptors. The five fields that can hold
a descriptor are seen as one function, `At`, over all threads, and `Owned` says
that it hands out each number in use once. Every system call fills a place,
empties one or moves a number between two, which `TakeFacts`, `GiveFacts` and
`AssignFacts` cover; mappings have the same three. `Control` says which places
are filled where, so that none is overwritten, `Reach` and `Aligned` what a
number leads to, and `Mapped` that an object knows its mapping's length, without
which `munmap` would leave a part.

**The shard set.** `ShardSetProofs` proves `TypeOK`, `LoadedSound`, `RoundTrip`,
`UnfinishedIsPrefix` and `DiscoverExact` for every set of shards, manifest,
directory and modulus. `load` reads a manifest line after line, so what it
accepts is a recursive function of the lines, `Entries`, and what is said of it
is proved by induction over their number: `LeastElement` takes that induction
from the well-foundedness of the naturals, as a statement about a set of
numbers, and `Recursion` yields from it that `Entries` exists
(`EntriesByLine`). Two invariants tie the state to it. `SaveInv`: while a save is
under way, the stream's buffer holds the first of the lines to be written and the
disk a beginning of those, the last one possibly cut; and a beginning is what
the disk keeps, also after a crash (`FlushInv`, `CrashInv`).
`UnfinishedLoadsPrefix` then needs that a cut line is rejected or has lost the
end of its last number (`CutLine`). `DiscoverInv`: every file that was there,
visible and not empty when it was visited is still to be measured or in the list,
and the list is in the order of the names. `DatasetProofs` has the same
induction for the bytes of a list of extents (`BytesByExtent`).

Only model-checked: liveness under fairness (`Terminates`, both `ReapReturns`,
`CallsReturn`, the fairness in `ImplementsPipeline`), which is out of the
prover's reach and stays with TLC.

## Disagreements between the code and what it says

Each of these has a run in which TLC finds the counterexample.

* `pipeline_stop_error`: a callback that returns false can get an error back.
  The producer reads ahead, a read it has started for a later batch fails, and
  `error.take()` finds it. `docs/usage.md` says that stopping returns ok.
* `stream_destructor`: `buffers_` is declared after `backend_` and destroyed
  before it, so a stream dropped with reads in flight (after a failed reap, as in
  the run, or an early stop) frees the memory they write to.
* `stream_short_reads`: a completion with fewer bytes than its request, before
  end of file, leaves a hole in the stream; the tail is neither read again nor
  reported.
* `manifest_save`: `save` tests the stream before it is flushed and closed. A
  write that fails then, which for a small manifest is the only one, leaves a
  manifest that is empty or cut short, and `save` has returned ok.
* `uring_minimum`: for a `min` above 1 `UringBackend::reap` returns early. Its loop
  compares the count of completions with `in_flight_`, which the same completions
  have already lowered, so it waits for about half of them; `backend.hpp` and
  `docs/usage.md` promise `min`. The stream passes 1 and is not affected;
  `bench/read_bench.cpp` passes what is left of the queue depth, in a loop that
  makes up for it.

Noted while modelling, without a run of their own:

* An exception from `stream.read` (`carry_.resize` allocates) ends the producer
  task without closing `ready`: the catch takes a `std::runtime_error` for a
  closed channel, anything else goes to a future nobody reads. The caller waits
  in `ready.recv` for ever, although `README.md` promises every failure as a
  value. `Terminates` names this as the only way not to return; `PReadThrows`
  is the step.
* The memory `for_each_batch` takes is not what `docs/usage.md` (line 338) and
  `dataset.hpp` say, (prefetch + 2) batches and `read_depth` segments.
  `ReadAheadBounded` is about bytes of the set, of which fewer than that are
  outstanding; but the carried ones are copied into `carry_`, a vector beside the
  slot they came from, which grows to nearly a segment and keeps its capacity, and
  `prepare_buffers` allocates the buffers of a new geometry before it frees the
  old ones. With a segment larger than a batch, or shards of two block sizes, the
  memory exceeds the sum.
* A `segment_bytes` below the block size is rounded to 0, and nothing checks it:
  `fp::AlignedBuffer::alloc` is asked for no bytes and, if it gives a buffer,
  `fill_pipeline` takes the first block of an empty span. `Overrun` is that step,
  and `RequestsAligned` shows that nothing else leads to a request larger than
  its buffer.
* A `pread` that stops inside a block, which `file.hpp` and `docs/usage.md` (line
  201) count among the things a caller must expect, is continued by `pread_exact`
  where it stopped, off the block, and `O_DIRECT` refuses that: the chunk fails
  with `EINVAL` although nobody has touched the file.
* `read_into` divides by `file.alignment()`, which is 0 in a default-constructed
  or moved-from `File`, before `pread_exact` can say that the file is closed;
  `file.hpp` promises a value, not a crash. An open file always has an alignment
  (`TypeOK` of `Handles`).
* Two kinds of path do not survive `save` and `load` (`Plain` in `ShardSet`): one
  whose form relative to the manifest starts with `#`, which `load` skips as a
  comment, and one `std::filesystem::relative` fails on while it is itself
  relative, which is written as it is and then resolved against the manifest's
  directory, where it names another file.
* A manifest that was cut off in the middle of the last number loads, with a
  shorter length; `UnfinishedIsPrefix` says that nothing worse can happen.
* `discover` overwrites its error code at every visible entry: a dangling link is
  an error when it comes last and is skipped without a word otherwise. The
  increment in its range-for may throw.
* `fill_pipeline` bounds its loop by `pending_.size() + requests.size()`, and a
  new request is in both. A first fill gets half of `read_depth` and no fill
  ever reaches it when it is above 1, against the comment that it keeps up to
  `read_depth` reads in flight.
* `close_shard` at end of file drops pending entries without releasing their
  slots, and the buffers are kept for the next shard of the same geometry. So a
  stream of shards whose windows run past their files loses depth. It never
  loses all of it (`NeverStarved`), since the entry that reported the end of
  file releases its own slot; and not releasing the others is what keeps
  orphaned reads out of reused buffers (`SlotsExclusive`).
* `prepare_buffers` replaces the buffers when a shard has another geometry. If
  `io_uring_queue_exit` returned with reads of the previous shard still running,
  they would write to freed memory; the model keeps such reads as orphans of an
  older generation and shows that they never meet the new buffers.
* `UringBackend::submit` counts entries before `io_uring_submit`; a negative or
  short result leaves them counted, and a later `reap` waits for reads that the
  kernel does not have. That is why `ReapReturns` asks for an empty submission
  queue. `ShardStream` never reaps after a failed `submit`; after a short one
  (`SubmitPart`) its counts still agree with the backend's (`BackendAgrees`), but
  it may wait for ever, so `Dataset`, whose reads have to return, leaves it out.
* A file that grows after the reader was opened can make a read misaligned, which
  `O_DIRECT` refuses, while `reader.hpp` promises the chunks its size allowed:
  when it grows between two rounds of one `pread_exact`, or when it was shorter
  than the window in one `next_chunk` and is longer again in the next, since the
  short chunk left `position_` inside a block. `NeverMisaligned` excepts the files
  that grew, and the short reads above.

## What is not modelled

* `File::sync` and `File::size`, one system call each; `total_bytes`; `is_aligned`,
  `align_up` and `align_down`, one expression each, which the library does not
  call.
* Full submission queues (`io_uring_get_sqe` returning null), which
  `InFlightExact` shows cannot happen.
* The device sinks of a cuFile build: this build has none, `read_into` only says
  so (`ReadIntoRejects`).
* A mapped file that is truncated under its mapping: the accesses that then fault
  are the caller's.
* `fp::*` beyond what the code relies on; logging, names, error texts; the
  benchmarks.
* What follows a request that does not fit its buffer (`Overrun`), which is
  undefined.
* The memory of the buffers and vectors in bytes; `ReadAheadBounded` counts bytes
  of the set.
* In `Dataset`, segments below a block and submissions taken in part: neither has
  to return.
* 64-bit wrap-around of offsets outside `ShardSet`: the streams get windows that
  `load` has accepted (`LoadedSound`).

## What is left

One specification with a real backend in the place of `flight` and `cq`. What
each side needs of the other is proved: the stream submits no more than
`read_depth` requests, each with a slot of its own, and reaps only what is
outstanding (`BackendAgrees`, `SlotsExclusive`); both backends implement
`Backend`, which hands back every request once and in any order, and any order
is what the stream's device does. That the two fit together is not a theorem:
`Backend` never uses a request's name again, while the stream's tokens are
slots, and it has one life, while the stream opens one for every shard.
