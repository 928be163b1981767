------------------------------ MODULE Handles ------------------------------
(***************************************************************************)
(* Who owns which descriptor and which mapping: File of src/file.cpp,      *)
(* block_size of src/align.cpp, MmapFile of src/mmap.cpp, the backend      *)
(* factories of src/uring.cpp and src/thread_backend.cpp, and the way      *)
(* ShardStream of src/dataset.cpp opens and closes a shard with them.      *)
(* Threads share the kernel's tables: a number or an address given back    *)
(* is handed out again at once, so a stale one reaches something else.     *)
(***************************************************************************)
EXTENDS Integers, FiniteSets

CONSTANTS
  Streams,   (* threads with a ShardStream                                  *)
  Users,     (* threads that use File and MmapFile directly                 *)
  Files,     (* the files there are                                         *)
  Devices,   (* those of them that are block devices                        *)
  BlockOf,   (* the block size of each device, or of the filesystem         *)
  SizeOf,    (* the size fstat reports of each                              *)
  Fds,       (* the descriptors a process may have                          *)
  Addresses, (* where a mapping may lie                                     *)
  Page,      (* page_size()                                                 *)
  MaxWindow  (* bound: the offsets and lengths callers ask for              *)

None == -1
Free == 0
Ring == -2

ASSUME FilesAssumption ==
  /\ Files \subseteq Nat \ {Free} /\ Devices \subseteq Files
  /\ BlockOf \in [Files -> Nat \ {0}] /\ SizeOf \in [Files -> Nat]
ASSUME TablesAssumption ==
  /\ Fds \subseteq Nat /\ Addresses \subseteq Nat /\ IsFiniteSet(Fds)
  /\ Streams \cap Users = {} /\ IsFiniteSet(Streams \cup Users)
ASSUME WindowAssumption == Page \in Nat \ {0} /\ MaxWindow \in Nat

VARIABLES
  fds,       (* the kernel's table: a file, a ring or Free                  *)
  maps,      (* the kernel's mappings                                       *)
  pc,        (* where each thread is in the call it makes                   *)
  fd,        (* the descriptor an open() under way holds                    *)
  path,      (* the file it is opening                                      *)
  probe,     (* block_size's descriptor                                     *)
  local,     (* the File a call has returned, or was moved out              *)
  member,    (* the File the thread keeps                                   *)
  backend,   (* the Backend of a stream, also before it is adopted          *)
  window,    (* the window MmapFile::open was asked for                     *)
  fresh,     (* the MmapFile it is about to return                          *)
  mapping    (* the MmapFile the thread keeps                               *)

fileVars == <<local, member, backend>>
mapVars == <<maps, window, fresh, mapping>>
vars == <<fds, pc, fd, path, probe, fileVars, mapVars>>

Actors == Streams \cup Users

NoFile == [fd |-> None, path |-> None, alignment |-> 0]
NoBackend == [kind |-> "none", fd |-> None, ring |-> None]
NoMapping == [map |-> None, map_length |-> 0, size |-> 0]
NoWindow == [offset |-> 0, length |-> 0]
Unmapped == [file |-> None, offset |-> 0, length |-> 0]

Init ==
  /\ fds = [n \in Fds |-> Free]
  /\ maps = [a \in Addresses |-> Unmapped]
  /\ pc = [t \in Actors |-> "idle"]
  /\ fd = [t \in Actors |-> None] /\ path = [t \in Actors |-> None]
  /\ probe = [t \in Actors |-> None]
  /\ local = [t \in Actors |-> NoFile] /\ member = [t \in Actors |-> NoFile]
  /\ backend = [t \in Actors |-> NoBackend]
  /\ window = [t \in Actors |-> NoWindow]
  /\ fresh = [t \in Actors |-> NoMapping]
  /\ mapping = [t \in Actors |-> NoMapping]

-----------------------------------------------------------------------------
(* The kernel: a new descriptor gets the lowest number.                     *)

Opens(n, what) ==
  /\ fds[n] = Free /\ \A m \in Fds : m < n => fds[m] # Free
  /\ fds' = [fds EXCEPT ![n] = what]

Closes(n) == fds' = IF n = None THEN fds ELSE [fds EXCEPT ![n] = Free]

Goes(t, from, to) == pc[t] = from /\ pc' = [pc EXCEPT ![t] = to]

-----------------------------------------------------------------------------
(* File::open and block_size.  An ::open that fails, for want of a file or  *)
(* of a descriptor, changes nothing before there is a descriptor to close.  *)

OpenFile(t, f) ==
  /\ Goes(t, "idle", "probe")
  /\ \E n \in Fds : Opens(n, f) /\ fd' = [fd EXCEPT ![t] = n]
  /\ path' = [path EXCEPT ![t] = f]
  /\ UNCHANGED <<probe, fileVars, mapVars>>

\* block_size opens the path a second time.
OpenProbe(t) ==
  /\ Goes(t, "probe", "ioctl")
  /\ \E n \in Fds : Opens(n, path[t]) /\ probe' = [probe EXCEPT ![t] = n]
  /\ UNCHANGED <<fd, path, fileVars, mapVars>>

\* BLKSSZGET is refused by what is not a block device.
Logical(f) == IF f \in Devices THEN BlockOf[f] ELSE 0

\* Mutant: the ioctl's answer is taken whatever it was.
FromAnyDevice(f) == TRUE
FromDevice(f) == Logical(f) > 0

CloseProbe(t) ==
  /\ Goes(t, "ioctl", IF FromDevice(path[t]) THEN "block" ELSE "statfs")
  /\ Closes(probe[t])
  /\ probe' = [probe EXCEPT ![t] = None]
  /\ UNCHANGED <<fd, path, fileVars, mapVars>>

\* Mutant: open returns with its descriptor open.
OpenFailsLeaking(t) ==
  /\ pc[t] \in {"probe", "statfs"} /\ pc' = [pc EXCEPT ![t] = "idle"]
  /\ fd' = [fd EXCEPT ![t] = None] /\ path' = [path EXCEPT ![t] = None]
  /\ UNCHANGED <<fds, probe, fileVars, mapVars>>

\* block_size cannot open the path or statfs fails.
OpenFails(t) ==
  /\ pc[t] \in {"probe", "statfs"} /\ pc' = [pc EXCEPT ![t] = "idle"]
  /\ Closes(fd[t])
  /\ fd' = [fd EXCEPT ![t] = None] /\ path' = [path EXCEPT ![t] = None]
  /\ UNCHANGED <<probe, fileVars, mapVars>>

OpenReturns(t) ==
  /\ \/ Goes(t, "statfs", "opened")
     \/ Goes(t, "block", "opened")
  /\ LET f == path[t]
         block == IF FromDevice(f) THEN Logical(f) ELSE BlockOf[f]
     IN  local' = [local EXCEPT ![t] = [fd |-> fd[t], path |-> f, alignment |-> block]]
  /\ fd' = [fd EXCEPT ![t] = None] /\ path' = [path EXCEPT ![t] = None]
  /\ UNCHANGED <<fds, probe, member, backend, mapVars>>

-----------------------------------------------------------------------------
(* File's members.                                                          *)

\* Mutant: close forgets to mark the object closed.
ClosedKept(file) == file
Closed(file) == [file EXCEPT !.fd = None]

Close(t) ==
  /\ t \in Users /\ pc[t] = "idle"
  /\ Closes(member[t].fd)
  /\ member' = [member EXCEPT ![t] = Closed(member[t])]
  /\ UNCHANGED <<pc, fd, path, probe, local, backend, mapVars>>

\* Mutant: the path and the alignment stay with the object moved from, and so
\* does the descriptor.
MovedFromSame(file) == file
MovedFrom(file) == NoFile

\* The move assignment: close(), then the exchanges.
Assign(t, from, to) ==
  /\ Goes(t, from, to)
  /\ Closes(member[t].fd)
  /\ member' = [member EXCEPT ![t] = local[t]]
  /\ local' = [local EXCEPT ![t] = MovedFrom(local[t])]

AssignOpened(t) ==
  /\ t \in Users
  /\ Assign(t, "opened", "idle")
  /\ UNCHANGED <<fd, path, probe, backend, mapVars>>

\* The move constructor, and the new object's end some time later: the user
\* moves its file out and back, or drops it.
MoveOut(t) ==
  /\ t \in Users
  /\ Goes(t, "idle", "moved")
  /\ local' = [local EXCEPT ![t] = member[t]]
  /\ member' = [member EXCEPT ![t] = MovedFrom(member[t])]
  /\ UNCHANGED <<fds, fd, path, probe, backend, mapVars>>

MoveBack(t) ==
  /\ Assign(t, "moved", "idle")
  /\ UNCHANGED <<fd, path, probe, backend, mapVars>>

\* ~File, also of a file that open_shard does not keep.
DropLocal(t, from) ==
  /\ Goes(t, from, "idle")
  /\ Closes(local[t].fd)
  /\ local' = [local EXCEPT ![t] = NoFile]
  /\ UNCHANGED <<fd, path, probe, member, backend, mapVars>>

DropMoved(t) == DropLocal(t, "moved")

-----------------------------------------------------------------------------
(* ShardStream's open_shard, with open_backend, and close_shard.            *)

\* prepare_buffers fails, or neither a ring nor threads can be had.
OpenShardFails(t) == t \in Streams /\ DropLocal(t, "opened")

\* io_uring_queue_init makes a descriptor of its own.
OpenRing(t) ==
  /\ t \in Streams
  /\ Goes(t, "opened", "adopt")
  /\ \E n \in Fds :
       /\ Opens(n, Ring)
       /\ backend' = [backend EXCEPT ![t] =
                        [kind |-> "io_uring", fd |-> local[t].fd, ring |-> n]]
  /\ UNCHANGED <<fd, path, probe, local, member, mapVars>>

\* The ring is refused: initialized_ stays false, and threads take its place.
OpenThreads(t) ==
  /\ t \in Streams
  /\ Goes(t, "opened", "adopt")
  /\ backend' = [backend EXCEPT ![t] =
                   [kind |-> "thread", fd |-> local[t].fd, ring |-> None]]
  /\ UNCHANGED <<fds, fd, path, probe, local, member, mapVars>>

\* The descriptor keeps its number when the File moves into file_.
Adopt(t) ==
  /\ Assign(t, "adopt", "stream")
  /\ UNCHANGED <<fd, path, probe, backend, mapVars>>

\* Mutant: the file is closed while the backend is there.
CloseFileFirst(t) ==
  /\ Goes(t, "stream", "closing")
  /\ Closes(member[t].fd)
  /\ member' = [member EXCEPT ![t] = NoFile]
  /\ UNCHANGED <<fd, path, probe, local, backend, mapVars>>

\* backend_.reset(): a ring that was made is given back.
ResetBackend(t) ==
  /\ Goes(t, "stream", "closing")
  /\ Closes(backend[t].ring)
  /\ backend' = [backend EXCEPT ![t] = NoBackend]
  /\ UNCHANGED <<fd, path, probe, local, member, mapVars>>

\* file_ = File{}.
CloseShard(t) ==
  /\ Assign(t, "closing", "idle")
  /\ UNCHANGED <<fd, path, probe, backend, mapVars>>

-----------------------------------------------------------------------------
(* MmapFile                                                                 *)

\* ::munmap of the length the object recorded; what lies behind it stays.
Unmaps(m) ==
  maps' = IF m.map = None THEN maps
          ELSE IF m.map_length < maps[m.map].length THEN maps
          ELSE [maps EXCEPT ![m.map] = Unmapped]

\* MmapFile::open up to its ::open.
OpenMap(t, f, offset, length) ==
  /\ t \in Users
  /\ offset % Page = 0
  /\ Goes(t, "idle", "map")
  /\ \E n \in Fds : Opens(n, f) /\ fd' = [fd EXCEPT ![t] = n]
  /\ path' = [path EXCEPT ![t] = f]
  /\ window' = [window EXCEPT ![t] = [offset |-> offset, length |-> length]]
  /\ UNCHANGED <<probe, fileVars, maps, fresh, mapping>>

\* The window's length; 0 asks for the rest of the file.
WindowLength(t) ==
  IF window[t].length = 0 THEN SizeOf[path[t]] - window[t].offset ELSE window[t].length

\* Mutant: a window may go past the end of the file.
FitsAnywhere(t) == window[t].offset <= SizeOf[path[t]]
Fits(t) ==
  /\ window[t].offset <= SizeOf[path[t]]
  /\ WindowLength(t) <= SizeOf[path[t]] - window[t].offset

\* ::close on the way out of open.
LeaveOpenMap(t) ==
  /\ Closes(fd[t])
  /\ fd' = [fd EXCEPT ![t] = None] /\ path' = [path EXCEPT ![t] = None]
  /\ window' = [window EXCEPT ![t] = NoWindow]
  /\ UNCHANGED <<probe, fileVars, mapping>>

\* fstat or mmap fails, or the window does not fit.
OpenMapFails(t) ==
  /\ Goes(t, "map", "idle")
  /\ LeaveOpenMap(t)
  /\ UNCHANGED <<maps, fresh>>

OpenMapEmpty(t) ==
  /\ Goes(t, "map", "mapped")
  /\ Fits(t) /\ WindowLength(t) = 0
  /\ LeaveOpenMap(t)
  /\ UNCHANGED <<maps, fresh>>

\* The mapping outlives the descriptor it was made with.
Map(t) ==
  /\ Goes(t, "map", "unneeded")
  /\ Fits(t) /\ WindowLength(t) > 0
  /\ \E a \in Addresses :
       /\ maps[a] = Unmapped
       /\ maps' = [maps EXCEPT ![a] = [file |-> path[t], offset |-> window[t].offset,
                                       length |-> WindowLength(t)]]
       /\ fresh' = [fresh EXCEPT ![t] = [map |-> a, map_length |-> WindowLength(t),
                                         size |-> WindowLength(t)]]
  /\ UNCHANGED <<fds, fd, path, probe, fileVars, window, mapping>>

CloseMapped(t) ==
  /\ Goes(t, "unneeded", "mapped")
  /\ LeaveOpenMap(t)
  /\ UNCHANGED <<maps, fresh>>

\* Mutant: the object moved from keeps its mapping.
MapMovedFromSame(m) == m
MapMovedFrom(m) == NoMapping

\* The move assignment: unmap(), then the exchanges.
AssignMap(t) ==
  /\ Goes(t, "mapped", "idle")
  /\ Unmaps(mapping[t])
  /\ mapping' = [mapping EXCEPT ![t] = fresh[t]]
  /\ fresh' = [fresh EXCEPT ![t] = MapMovedFrom(fresh[t])]
  /\ UNCHANGED <<fds, fd, path, probe, fileVars, window>>

\* ~MmapFile of the thread's mapping, or of one it does not keep.
DropMap(t) ==
  /\ t \in Users /\ pc[t] = "idle"
  /\ Unmaps(mapping[t])
  /\ mapping' = [mapping EXCEPT ![t] = NoMapping]
  /\ UNCHANGED <<fds, pc, fd, path, probe, fileVars, window, fresh>>

DropFresh(t) ==
  /\ Goes(t, "mapped", "idle")
  /\ Unmaps(fresh[t])
  /\ fresh' = [fresh EXCEPT ![t] = NoMapping]
  /\ UNCHANGED <<fds, fd, path, probe, fileVars, window, mapping>>

\* advise calls madvise for an offset it accepts, with a length it clamps.
AdviseAccepted(m, offset) ==
  m.size > 0 /\ offset <= m.size /\ offset % Page = 0

\* Mutant: only a length of 0 is replaced.
AdvisedUnclamped(m, offset, length) == IF length = 0 THEN m.size - offset ELSE length
Advised(m, offset, length) ==
  IF length = 0 \/ length > m.size - offset THEN m.size - offset ELSE length

-----------------------------------------------------------------------------
Next ==
  \E t \in Actors :
    \/ \E f \in Files : OpenFile(t, f)
    \/ OpenProbe(t) \/ CloseProbe(t) \/ OpenFails(t) \/ OpenReturns(t)
    \/ Close(t) \/ AssignOpened(t) \/ MoveOut(t) \/ MoveBack(t) \/ DropMoved(t)
    \/ OpenShardFails(t) \/ OpenRing(t) \/ OpenThreads(t) \/ Adopt(t)
    \/ ResetBackend(t) \/ CloseShard(t)
    \/ \E f \in Files, offset, length \in 0 .. MaxWindow : OpenMap(t, f, offset, length)
    \/ OpenMapFails(t) \/ OpenMapEmpty(t) \/ Map(t) \/ CloseMapped(t)
    \/ AssignMap(t) \/ DropMap(t) \/ DropFresh(t)

Spec == Init /\ [][Next]_vars

-----------------------------------------------------------------------------
FdOrNone == Fds \cup {None}
FileType == [fd : FdOrNone, path : Files \cup {None}, alignment : Nat]
MapType == [map : Addresses \cup {None}, map_length : Nat, size : Nat]

(* Every variable keeps its type, and an open File has an alignment that     *)
(* read_into and open_shard can divide by.                                   *)
TypeOK ==
  /\ fds \in [Fds -> Files \cup {Free, Ring}]
  /\ maps \in [Addresses -> [file : Files \cup {None}, offset : Nat, length : Nat]]
  /\ pc \in [Actors -> {"idle", "probe", "ioctl", "statfs", "block", "opened", "moved",
                        "adopt", "stream", "closing", "map", "unneeded", "mapped"}]
  /\ fd \in [Actors -> FdOrNone] /\ probe \in [Actors -> FdOrNone]
  /\ path \in [Actors -> Files \cup {None}]
  /\ local \in [Actors -> FileType] /\ member \in [Actors -> FileType]
  /\ \A t \in Actors : \A file \in {local[t], member[t]} :
       file.fd # None => file.alignment > 0
  /\ backend \in [Actors -> [kind : {"none", "io_uring", "thread"},
                             fd : FdOrNone, ring : FdOrNone]]
  /\ window \in [Actors -> [offset : Nat, length : Nat]]
  /\ fresh \in [Actors -> MapType] /\ mapping \in [Actors -> MapType]

\* The places that hold the duty to close descriptor n.
Holders(n) ==
  {<<t, "open">> : t \in {u \in Actors : fd[u] = n}} \cup
  {<<t, "probe">> : t \in {u \in Actors : probe[u] = n}} \cup
  {<<t, "local">> : t \in {u \in Actors : local[u].fd = n}} \cup
  {<<t, "member">> : t \in {u \in Actors : member[u].fd = n}} \cup
  {<<t, "ring">> : t \in {u \in Actors : backend[u].ring = n}}

(* Every open descriptor has one place that will close it, and a number      *)
(* given back has none: no error path, fallback or move leaks a descriptor   *)
(* or closes one that another thread has been given since.                   *)
DescriptorsOwned ==
  \A n \in Fds : Cardinality(Holders(n)) = IF fds[n] = Free THEN 0 ELSE 1

(* An open File reaches the file it was opened with, and has that file's     *)
(* alignment, through every move, close and reuse of descriptor numbers; and *)
(* "the descriptor and every request's buffer must outlive the requests"     *)
(* (include/dsio/backend.hpp): as long as a stream has a backend, the number *)
(* it was given is open on the stream's shard.                               *)
DescriptorsReachTheirFile ==
  /\ \A t \in Actors : \A file \in {local[t], member[t]} :
       file.fd # None => fds[file.fd] = file.path /\ file.alignment = BlockOf[file.path]
  /\ \A t \in Streams : backend[t].kind # "none" =>
       backend[t].fd # None /\ backend[t].fd \in {local[t].fd, member[t].fd}

(* Every mapping the kernel has belongs to one MmapFile, which knows its     *)
(* length and so will unmap all of it; it lies inside its file.              *)
MappingsOwned ==
  \A a \in Addresses :
    LET held == {<<t, "fresh">> : t \in {u \in Actors : fresh[u].map = a}} \cup
                {<<t, "mapping">> : t \in {u \in Actors : mapping[u].map = a}}
    IN  /\ Cardinality(held) = IF maps[a] = Unmapped THEN 0 ELSE 1
        /\ maps[a] # Unmapped =>
             /\ maps[a].offset + maps[a].length <= SizeOf[maps[a].file]
             /\ \E t \in Actors : \E m \in {fresh[t], mapping[t]} :
                  m.map = a /\ m.map_length = maps[a].length

(* The range advise hands to madvise lies inside the mapping the object      *)
(* really has, for every offset and length it is called with: DontNeed never *)
(* reaches the pages of another mapping.                                     *)
AdviceStaysInside ==
  \A t \in Actors, offset, length \in 0 .. MaxWindow :
    AdviseAccepted(mapping[t], offset) =>
      /\ mapping[t].map # None
      /\ offset + Advised(mapping[t], offset, length) <= maps[mapping[t].map].length
=============================================================================
