--------------------------- MODULE HandlesProofs ---------------------------
(***************************************************************************)
(* Proofs that descriptors and mappings have one owner each, on every path *)
(* through File, block_size, MmapFile and the backend factories, for any   *)
(* number of streams and users and whatever numbers and addresses the      *)
(* kernel has to hand out again.                                           *)
(*                                                                         *)
(* The places that hold descriptors are seen as one function, At; a step   *)
(* fills a place from the kernel, empties one into it, or moves what one   *)
(* place holds to another.                                                 *)
(***************************************************************************)
EXTENDS Handles, FiniteSetTheorems, TLAPS

\* Each number in use is in one place, and no other number is in any.
Owned(at, used) ==
  /\ \A p, q \in DOMAIN at : at[p] = at[q] /\ at[p] # None => p = q
  /\ \A n : n \in used <=> n # None /\ \E p \in DOMAIN at : at[p] = n

FdPlaces == Actors \X {"open", "probe", "local", "member", "ring"}
MapPlaces == Actors \X {"fresh", "mapping"}

At == [p \in FdPlaces |->
         CASE p[2] = "open" -> fd[p[1]]
           [] p[2] = "probe" -> probe[p[1]]
           [] p[2] = "local" -> local[p[1]].fd
           [] p[2] = "member" -> member[p[1]].fd
           [] OTHER -> backend[p[1]].ring]

MapAt == [p \in MapPlaces |-> IF p[2] = "fresh" THEN fresh[p[1]].map ELSE mapping[p[1]].map]

UsedFds == {n \in Fds : fds[n] # Free}
UsedMaps == {a \in Addresses : maps[a] # Unmapped}

\* What a thread holds at each place in its calls.
Opening == {"probe", "ioctl", "statfs", "block", "map", "unneeded"}

Placed(t) ==
  /\ fd[t] # None <=> pc[t] \in Opening
  /\ path[t] \in Files <=> pc[t] \in Opening
  /\ probe[t] # None <=> pc[t] = "ioctl"
  /\ local[t].fd # None => pc[t] \in {"opened", "moved", "adopt"}
  /\ pc[t] \in {"opened", "adopt"} => local[t].fd # None
  /\ pc[t] \in {"adopt", "stream", "closing"} => t \in Streams
  /\ pc[t] \in {"moved", "map", "unneeded", "mapped"} => t \in Users
  /\ backend[t] # NoBackend <=> pc[t] \in {"adopt", "stream"}
  /\ pc[t] = "adopt" => backend[t].fd = local[t].fd
  /\ pc[t] = "stream" => backend[t].fd = member[t].fd /\ member[t].fd # None
  /\ fresh[t].map # None => pc[t] \in {"unneeded", "mapped"}

Control == \A t \in Actors : Placed(t)

\* A place reaches the file its thread opened.
Reach ==
  \A t \in Actors :
    /\ fd[t] # None => fds[fd[t]] = path[t]
    /\ local[t].fd # None => fds[local[t].fd] = local[t].path
    /\ member[t].fd # None => fds[member[t].fd] = member[t].path

\* An open File has its file's alignment.
Aligned ==
  \A t \in Actors : \A file \in {local[t], member[t]} :
    file.fd # None => file.alignment = BlockOf[file.path]

\* A MmapFile knows what the kernel has mapped for it.
Mapped ==
  /\ \A t \in Actors : \A m \in {fresh[t], mapping[t]} :
       /\ m.map # None => m.map_length = maps[m.map].length /\ m.size = m.map_length
       /\ m.map = None => m.size = 0
  /\ \A a \in Addresses : maps[a] # Unmapped =>
       /\ maps[a].file \in Files
       /\ maps[a].offset + maps[a].length <= SizeOf[maps[a].file]

IInv ==
  /\ TypeOK /\ Control /\ Owned(At, UsedFds) /\ Owned(MapAt, UsedMaps)
  /\ Reach /\ Aligned /\ Mapped

-----------------------------------------------------------------------------
(* How ownership changes hands.                                             *)

(* A place that was empty takes a number that was free.                    *)
LEMMA TakeFacts ==
  ASSUME NEW at, NEW after, NEW used, Owned(at, used), DOMAIN after = DOMAIN at,
         NEW p \in DOMAIN at, at[p] = None, NEW n, n \notin used, n # None,
         after[p] = n, \A r \in DOMAIN at : r # p => after[r] = at[r]
  PROVE  Owned(after, used \cup {n})
BY DEF Owned

(* A place gives its number back, if it has one.                           *)
LEMMA GiveFacts ==
  ASSUME NEW at, NEW after, NEW used, Owned(at, used), DOMAIN after = DOMAIN at,
         NEW p \in DOMAIN at,
         after[p] = None, \A r \in DOMAIN at : r # p => after[r] = at[r]
  PROVE  Owned(after, used \ {at[p]})
BY DEF Owned

(* A place gives back its number and takes that of another.                *)
LEMMA AssignFacts ==
  ASSUME NEW at, NEW after, NEW used, Owned(at, used), DOMAIN after = DOMAIN at,
         NEW p \in DOMAIN at, NEW q \in DOMAIN at, p # q,
         after[q] = at[p], after[p] = None,
         \A r \in DOMAIN at : r # p /\ r # q => after[r] = at[r]
  PROVE  Owned(after, used \ {at[q]})
BY DEF Owned

(* One owner or none, counted.                                             *)
LEMMA OneOwner ==
  ASSUME NEW at, NEW used, Owned(at, used), NEW n, n # None
  PROVE  Cardinality({p \in DOMAIN at : at[p] = n}) = IF n \in used THEN 1 ELSE 0
<1>1. CASE n \in used
  <2>1. PICK p \in DOMAIN at : at[p] = n
    BY <1>1 DEF Owned
  <2>2. {q \in DOMAIN at : at[q] = n} = {p}
    BY <2>1 DEF Owned
  <2> QED
    BY <1>1, <2>2, FS_Singleton
<1>2. CASE n \notin used
  <2>1. {q \in DOMAIN at : at[q] = n} = {}
    BY <1>2 DEF Owned
  <2> QED
    BY <1>2, <2>1, FS_EmptySet
<1> QED
  BY <1>1, <1>2

-----------------------------------------------------------------------------
(* Types and places.                                                        *)

(* The constants, and what no value is.                                    *)
LEMMA Constants ==
  /\ None \notin Files /\ None \notin Fds /\ None \notin Addresses /\ Free \notin Files /\ Ring \notin Files
  /\ None # Free /\ Ring # Free
  /\ \A f \in Files : f \in Nat /\ BlockOf[f] \in Nat \ {0} /\ SizeOf[f] \in Nat
BY FilesAssumption, TablesAssumption DEF None, Free, Ring

(* The initial values have their types.                                    *)
LEMMA InitTypeOK == Init => TypeOK
BY Constants, FilesAssumption
   DEF Init, TypeOK, FdOrNone, FileType, MapType, NoFile, NoBackend, NoMapping, NoWindow, Unmapped

(* Every step keeps the types.                                             *)
LEMMA NextTypeOK == TypeOK /\ Control /\ [Next]_vars => TypeOK'
<1> SUFFICES ASSUME TypeOK, Control, [Next]_vars PROVE TypeOK'
  OBVIOUS
<1> USE Constants
<1>1. CASE UNCHANGED vars
  BY <1>1 DEF vars, fileVars, mapVars, TypeOK
<1>2. ASSUME NEW t \in Actors, NEW f \in Files, OpenFile(t, f) PROVE TypeOK'
  BY <1>2 DEF OpenFile, Goes, Opens, fileVars, mapVars, TypeOK, FdOrNone
<1>3. ASSUME NEW t \in Actors, OpenProbe(t) \/ CloseProbe(t) \/ OpenFails(t) PROVE TypeOK'
  <2>1. CASE OpenProbe(t)
    <3>1. path[t] \in Files
      BY <2>1 DEF OpenProbe, Goes, Control, Placed, Opening
    <3> QED
      BY <2>1, <3>1 DEF OpenProbe, Goes, Opens, fileVars, mapVars, TypeOK, FdOrNone
  <2>2. CASE CloseProbe(t)
    BY <2>2 DEF CloseProbe, Goes, Closes, fileVars, mapVars, TypeOK, FdOrNone
  <2>3. CASE OpenFails(t)
    BY <2>3 DEF OpenFails, Goes, Closes, fileVars, mapVars, TypeOK, FdOrNone
  <2> QED
    BY <1>3, <2>1, <2>2, <2>3
<1>4. ASSUME NEW t \in Actors, OpenReturns(t) PROVE TypeOK'
  <2>1. path[t] \in Files
    BY <1>4 DEF OpenReturns, Goes, Control, Placed, Opening
  <2> DEFINE block == IF FromDevice(path[t]) THEN Logical(path[t]) ELSE BlockOf[path[t]]
  <2>2. block \in Nat \ {0}
    BY <2>1 DEF FromDevice, Logical
  <2>3. /\ local' = [local EXCEPT ![t] = [fd |-> fd[t], path |-> path[t], alignment |-> block]]
        /\ pc' = [pc EXCEPT ![t] = "opened"]
    BY <1>4 DEF OpenReturns, Goes
  <2> HIDE DEF block
  <2>4. [fd |-> fd[t], path |-> path[t], alignment |-> block] \in FileType
    BY <2>1, <2>2 DEF TypeOK, FileType
  <2>5. /\ fd' = [fd EXCEPT ![t] = None] /\ path' = [path EXCEPT ![t] = None]
        /\ UNCHANGED <<fds, probe, member, backend, maps, window, fresh, mapping>>
    BY <1>4 DEF OpenReturns, mapVars
  <2>6. local' \in [Actors -> FileType]
    BY <2>3, <2>4 DEF TypeOK
  <2>7. \A u \in Actors : \A file \in {local'[u], member'[u]} : file.fd # None => file.alignment > 0
    <3>1. /\ \A u \in Actors : u # t => local'[u] = local[u]
          /\ local'[t].alignment = block
      BY <2>3 DEF TypeOK
    <3> QED
      <4>1. \A u \in Actors : local'[u].fd # None => local'[u].alignment > 0
        BY <2>2, <3>1 DEF TypeOK
      <4>2. \A u \in Actors : member'[u].fd # None => member'[u].alignment > 0
        BY <2>5 DEF TypeOK
      <4> QED
        BY <4>1, <4>2
  <2> QED
    BY <2>3, <2>5, <2>6, <2>7 DEF TypeOK, FdOrNone
<1>5. ASSUME NEW t \in Actors, Close(t) PROVE TypeOK'
  <2>1. Closed(member[t]) \in FileType /\ Closed(member[t]).fd = None
    <3>1. member[t] \in FileType
      BY DEF TypeOK
    <3> QED
      BY <3>1 DEF FileType, Closed, FdOrNone
  <2> QED
    BY <1>5, <2>1 DEF Close, Closes, mapVars, TypeOK, FdOrNone
<1>6. NoFile \in FileType /\ NoFile.fd = None
  BY DEF NoFile, FileType, FdOrNone
<1>7. ASSUME NEW t \in Actors, NEW from, NEW to \in {"idle", "stream"}, Assign(t, from, to),
             UNCHANGED <<fd, path, probe, backend, mapVars>>
      PROVE  TypeOK'
  BY <1>6, <1>7 DEF Assign, Goes, Closes, MovedFrom, mapVars, TypeOK, FdOrNone
<1>8. ASSUME NEW t \in Actors, AssignOpened(t) \/ MoveBack(t) \/ Adopt(t) \/ CloseShard(t)
      PROVE  TypeOK'
  BY <1>7, <1>8 DEF AssignOpened, MoveBack, Adopt, CloseShard
<1>9. ASSUME NEW t \in Actors, MoveOut(t) PROVE TypeOK'
  BY <1>6, <1>9 DEF MoveOut, Goes, MovedFrom, mapVars, TypeOK
<1>10. ASSUME NEW t \in Actors, DropMoved(t) \/ OpenShardFails(t) PROVE TypeOK'
  <2>1. PICK from : DropLocal(t, from)
    BY <1>10 DEF DropMoved, OpenShardFails
  <2> QED
    BY <1>6, <2>1 DEF DropLocal, Goes, Closes, mapVars, TypeOK, FdOrNone
<1>11. ASSUME NEW t \in Actors, OpenRing(t) \/ OpenThreads(t) \/ ResetBackend(t) PROVE TypeOK'
  <2>1. local[t].fd \in FdOrNone /\ None \in FdOrNone /\ \A n \in Fds : n \in FdOrNone
    BY DEF TypeOK, FileType, FdOrNone
  <2>2. CASE OpenRing(t)
    BY <2>1, <2>2 DEF OpenRing, Goes, Opens, mapVars, TypeOK
  <2>3. CASE OpenThreads(t)
    BY <2>1, <2>3 DEF OpenThreads, Goes, mapVars, TypeOK
  <2>4. CASE ResetBackend(t)
    BY <2>1, <2>4 DEF ResetBackend, Goes, Closes, NoBackend, mapVars, TypeOK
  <2> QED
    BY <1>11, <2>2, <2>3, <2>4
<1>12. NoMapping \in MapType /\ Unmapped \in [file : Files \cup {None}, offset : Nat, length : Nat]
       /\ NoWindow \in [offset : Nat, length : Nat]
  BY DEF NoMapping, MapType, Unmapped, NoWindow
<1>13. ASSUME NEW t \in Actors, NEW f \in Files, NEW offset \in Nat, NEW length \in Nat,
              OpenMap(t, f, offset, length)
       PROVE  TypeOK'
  BY <1>13 DEF OpenMap, Goes, Opens, fileVars, TypeOK, FdOrNone
<1>14. ASSUME NEW t \in Actors, OpenMapFails(t) \/ OpenMapEmpty(t) \/ CloseMapped(t) PROVE TypeOK'
  <2>1. LeaveOpenMap(t) /\ UNCHANGED <<maps, fresh>>
    BY <1>14 DEF OpenMapFails, OpenMapEmpty, CloseMapped
  <2>2. PICK to \in {"idle", "mapped"} : pc' = [pc EXCEPT ![t] = to]
    BY <1>14 DEF OpenMapFails, OpenMapEmpty, CloseMapped, Goes
  <2> QED
    BY <1>12, <2>1, <2>2 DEF LeaveOpenMap, Closes, fileVars, TypeOK, FdOrNone
<1>15. ASSUME NEW t \in Actors, Map(t) PROVE TypeOK'
  <2>1. path[t] \in Files
    BY <1>15 DEF Map, Goes, Control, Placed, Opening
  <2> DEFINE n == WindowLength(t)
  <2>2. n \in Nat
    <3>1. window[t].offset \in Nat /\ window[t].length \in Nat
      BY DEF TypeOK
    <3> QED
      BY <1>15, <2>1, <3>1 DEF Map, Fits, WindowLength
  <2>3. PICK a \in Addresses :
          /\ maps' = [maps EXCEPT ![a] = [file |-> path[t], offset |-> window[t].offset, length |-> n]]
          /\ fresh' = [fresh EXCEPT ![t] = [map |-> a, map_length |-> n, size |-> n]]
    BY <1>15 DEF Map
  <2> HIDE DEF n
  <2>4. [file |-> path[t], offset |-> window[t].offset, length |-> n]
          \in [file : Files \cup {None}, offset : Nat, length : Nat]
    BY <2>1, <2>2 DEF TypeOK
  <2>5. [map |-> a, map_length |-> n, size |-> n] \in MapType
    BY <2>2 DEF MapType
  <2> QED
    BY <1>15, <2>3, <2>4, <2>5 DEF Map, Goes, fileVars, TypeOK
<1>16. ASSUME NEW t \in Actors, AssignMap(t) \/ DropMap(t) \/ DropFresh(t) PROVE TypeOK'
  <2>1. maps' \in [Addresses -> [file : Files \cup {None}, offset : Nat, length : Nat]]
    BY <1>12, <1>16 DEF AssignMap, DropMap, DropFresh, Unmaps, TypeOK
  <2>2. fresh' \in [Actors -> MapType] /\ mapping' \in [Actors -> MapType]
    <3>1. fresh \in [Actors -> MapType] /\ mapping \in [Actors -> MapType] /\ fresh[t] \in MapType
      BY DEF TypeOK
    <3>2. CASE AssignMap(t)
      BY <1>12, <3>1, <3>2 DEF AssignMap, MapMovedFrom
    <3>3. CASE DropMap(t) \/ DropFresh(t)
      BY <1>12, <3>1, <3>3 DEF DropMap, DropFresh
    <3> QED
      BY <1>16, <3>2, <3>3
  <2> QED
    BY <1>16, <2>1, <2>2 DEF AssignMap, DropMap, DropFresh, Goes, fileVars, TypeOK
<1> QED
  BY <1>1, <1>2, <1>3, <1>4, <1>5, <1>8, <1>9, <1>10, <1>11, <1>13, <1>14, <1>15, <1>16,
     WindowAssumption DEF Next

(* Nothing is held before a call.                                          *)
LEMMA InitControl == Init => Control
BY Constants DEF Init, Control, Placed, Opening, NoFile, NoBackend, NoMapping

(* Every step leaves its thread at a place that says what it holds.        *)
LEMMA NextControl == TypeOK /\ Control /\ [Next]_vars => Control'
<1> SUFFICES ASSUME TypeOK, Control, [Next]_vars, NEW u \in Actors PROVE Placed(u)'
  BY DEF Control
<1>0. Placed(u)
  BY DEF Control
<1> USE Constants
<1>1. CASE UNCHANGED vars
  BY <1>0, <1>1 DEF vars, fileVars, mapVars, Placed
<1>2. ASSUME NEW t \in Actors, NEW f \in Files, OpenFile(t, f) PROVE Placed(u)'
  BY <1>0, <1>2 DEF OpenFile, Goes, Opens, fileVars, mapVars, TypeOK, Placed, Opening
<1>3. ASSUME NEW t \in Actors, OpenProbe(t) \/ CloseProbe(t) PROVE Placed(u)'
  BY <1>0, <1>3 DEF OpenProbe, CloseProbe, Goes, Opens, fileVars, mapVars, TypeOK, Placed, Opening
<1>4. ASSUME NEW t \in Actors, OpenFails(t) \/ OpenReturns(t) PROVE Placed(u)'
  <2>1. CASE OpenFails(t)
    BY <1>0, <2>1 DEF OpenFails, Goes, fileVars, mapVars, TypeOK, Placed, Opening
  <2>2. CASE OpenReturns(t)
    <3>1. /\ pc[t] \in {"statfs", "block"} /\ pc' = [pc EXCEPT ![t] = "opened"]
          /\ fd' = [fd EXCEPT ![t] = None] /\ path' = [path EXCEPT ![t] = None]
          /\ UNCHANGED <<probe, member, backend, fresh>>
          /\ \A v \in Actors : v # t => local'[v] = local[v]
          /\ local'[t].fd = fd[t]
      BY <2>2 DEF OpenReturns, Goes, mapVars, TypeOK
    <3> QED
      BY <1>0, <3>1 DEF TypeOK, Placed, Opening
  <2> QED
    BY <1>4, <2>1, <2>2
<1>5. ASSUME NEW t \in Actors, Close(t) PROVE Placed(u)'
  BY <1>0, <1>5, TablesAssumption DEF Close, mapVars, TypeOK, Placed, Opening
<1>6. ASSUME NEW t \in Actors, AssignOpened(t) \/ MoveBack(t) \/ Adopt(t) \/ CloseShard(t)
      PROVE  Placed(u)'
  BY <1>0, <1>6, TablesAssumption DEF AssignOpened, MoveBack, Adopt, CloseShard, Assign, Goes,
     MovedFrom, NoFile, mapVars, TypeOK, Placed, Opening
<1>7. ASSUME NEW t \in Actors, MoveOut(t) PROVE Placed(u)'
  BY <1>0, <1>7 DEF MoveOut, Goes, mapVars, TypeOK, Placed, Opening
<1>8. ASSUME NEW t \in Actors, DropMoved(t) \/ OpenShardFails(t) PROVE Placed(u)'
  BY <1>0, <1>8 DEF DropMoved, OpenShardFails, DropLocal, Goes, NoFile, mapVars, TypeOK, Placed, Opening
<1>9. ASSUME NEW t \in Actors, OpenRing(t) \/ OpenThreads(t) \/ ResetBackend(t) PROVE Placed(u)'
  BY <1>0, <1>9 DEF OpenRing, OpenThreads, ResetBackend, Goes, NoBackend, mapVars, TypeOK, Placed, Opening
<1>10. ASSUME NEW t \in Actors, NEW f \in Files, NEW offset \in Nat, NEW length \in Nat,
              OpenMap(t, f, offset, length)
       PROVE  Placed(u)'
  BY <1>0, <1>10 DEF OpenMap, Goes, Opens, fileVars, TypeOK, Placed, Opening
<1>11. ASSUME NEW t \in Actors, OpenMapFails(t) \/ OpenMapEmpty(t) \/ CloseMapped(t) PROVE Placed(u)'
  BY <1>0, <1>11 DEF OpenMapFails, OpenMapEmpty, CloseMapped, LeaveOpenMap, Goes, fileVars, TypeOK,
     Placed, Opening
<1>12. ASSUME NEW t \in Actors, Map(t) PROVE Placed(u)'
  BY <1>0, <1>12 DEF Map, Goes, fileVars, TypeOK, Placed, Opening
<1>13. ASSUME NEW t \in Actors, AssignMap(t) \/ DropMap(t) \/ DropFresh(t) PROVE Placed(u)'
  BY <1>0, <1>13 DEF AssignMap, DropMap, DropFresh, MapMovedFrom, NoMapping, Goes, fileVars, TypeOK,
     Placed, Opening
<1> QED
  BY <1>1, <1>2, <1>3, <1>4, <1>5, <1>6, <1>7, <1>8, <1>9, <1>10, <1>11, <1>12, <1>13,
     WindowAssumption DEF Next

-----------------------------------------------------------------------------
(* Descriptors have one owner.                                              *)

(* The places, one by one.                                                 *)
LEMMA AtFacts ==
  /\ DOMAIN At = FdPlaces
  /\ \A t \in Actors :
       /\ At[<<t, "open">>] = fd[t] /\ At[<<t, "probe">>] = probe[t]
       /\ At[<<t, "local">>] = local[t].fd /\ At[<<t, "member">>] = member[t].fd
       /\ At[<<t, "ring">>] = backend[t].ring
BY DEF At, FdPlaces

\* A step that changes a thread's places K, and no others.
Changes(t, K) ==
  \A u \in Actors :
    /\ u # t \/ "open" \notin K => fd'[u] = fd[u]
    /\ u # t \/ "probe" \notin K => probe'[u] = probe[u]
    /\ u # t \/ "local" \notin K => local'[u].fd = local[u].fd
    /\ u # t \/ "member" \notin K => member'[u].fd = member[u].fd
    /\ u # t \/ "ring" \notin K => backend'[u].ring = backend[u].ring

Elsewhere(t, K) == \A r \in FdPlaces : (\A k \in K : r # <<t, k>>) => At'[r] = At[r]

(* What the places hold tells the function apart.                          *)
LEMMA ElsewhereFacts ==
  ASSUME NEW t \in Actors, NEW K, Changes(t, K)
  PROVE  Elsewhere(t, K)
<1> SUFFICES ASSUME NEW r \in FdPlaces, \A k \in K : r # <<t, k>> PROVE At'[r] = At[r]
  BY DEF Elsewhere
<1>1. PICK u \in Actors, k \in {"open", "probe", "local", "member", "ring"} : r = <<u, k>>
  BY DEF FdPlaces
<1>2. u # t \/ k \notin K
  BY <1>1
<1>3. /\ At'[<<u, "open">>] = fd'[u] /\ At'[<<u, "probe">>] = probe'[u]
      /\ At'[<<u, "local">>] = local'[u].fd /\ At'[<<u, "member">>] = member'[u].fd
      /\ At'[<<u, "ring">>] = backend'[u].ring
  BY DEF At, FdPlaces
<1> QED
  <2>1. /\ At[<<u, "open">>] = fd[u] /\ At[<<u, "probe">>] = probe[u]
        /\ At[<<u, "local">>] = local[u].fd /\ At[<<u, "member">>] = member[u].fd
        /\ At[<<u, "ring">>] = backend[u].ring
    BY AtFacts
  <2>2. /\ k = "open" => fd'[u] = fd[u]
        /\ k = "probe" => probe'[u] = probe[u]
        /\ k = "local" => local'[u].fd = local[u].fd
        /\ k = "member" => member'[u].fd = member[u].fd
        /\ k = "ring" => backend'[u].ring = backend[u].ring
    BY <1>2 DEF Changes
  <2> QED
    BY <1>1, <1>3, <2>1, <2>2

(* The same set of descriptors in use, one more, or one less.              *)
LEMMA UsedFacts ==
  ASSUME TypeOK
  PROVE  /\ fds' = fds => UsedFds' = UsedFds
         /\ \A n \in Fds, what \in Files \cup {Ring} : Opens(n, what) =>
              /\ n \notin UsedFds /\ n # None
              /\ UsedFds' = UsedFds \cup {n}
         /\ \A n \in FdOrNone : Closes(n) => UsedFds' = UsedFds \ {n}
BY Constants DEF TypeOK, Opens, Closes, UsedFds, FdOrNone

(* Every step leaves each open descriptor with one place.                  *)
LEMMA NextOwned == TypeOK /\ Control /\ Owned(At, UsedFds) /\ [Next]_vars => Owned(At, UsedFds)'
<1> SUFFICES ASSUME TypeOK, Control, Owned(At, UsedFds), [Next]_vars PROVE Owned(At', UsedFds')
  BY DEF Owned
<1>0. /\ DOMAIN At' = DOMAIN At /\ DOMAIN At = FdPlaces
      /\ \A t \in Actors :
           /\ At'[<<t, "open">>] = fd'[t] /\ At'[<<t, "probe">>] = probe'[t]
           /\ At'[<<t, "local">>] = local'[t].fd /\ At'[<<t, "member">>] = member'[t].fd
           /\ At'[<<t, "ring">>] = backend'[t].ring
      /\ \A t \in Actors : \A k \in {"open", "probe", "local", "member", "ring"} : <<t, k>> \in FdPlaces
  BY DEF At, FdPlaces
\* A step that takes a number from the kernel into place k of t, one that
\* gives it back, and one that moves it from k to j.
<1>1. ASSUME NEW t \in Actors, NEW k \in {"open", "probe", "local", "member", "ring"},
             NEW n \in Fds, NEW what \in Files \cup {Ring}, Opens(n, what),
             At[<<t, k>>] = None, At'[<<t, k>>] = n,
             Elsewhere(t, {k})
      PROVE  Owned(At', UsedFds')
  <2> DEFINE p == <<t, k>>
             after == At'
  <2>1. /\ p \in DOMAIN At /\ DOMAIN after = DOMAIN At /\ At[p] = None /\ after[p] = n
        /\ \A r \in DOMAIN At : r # p => after[r] = At[r]
    BY <1>0, <1>1 DEF Elsewhere
  <2>2. n \notin UsedFds /\ n # None /\ UsedFds' = UsedFds \cup {n}
    BY <1>1, UsedFacts
  <2> HIDE DEF p, after
  <2>3. Owned(after, UsedFds \cup {n})
    BY <2>1, <2>2, TakeFacts
  <2> QED
    BY <2>2, <2>3 DEF after
<1>2. ASSUME NEW t \in Actors, NEW k \in {"open", "probe", "local", "member", "ring"},
             Closes(At[<<t, k>>]), At[<<t, k>>] \in FdOrNone, At'[<<t, k>>] = None,
             Elsewhere(t, {k})
      PROVE  Owned(At', UsedFds')
  <2> DEFINE p == <<t, k>>
             after == At'
  <2>1. /\ p \in DOMAIN At /\ DOMAIN after = DOMAIN At /\ after[p] = None
        /\ \A r \in DOMAIN At : r # p => after[r] = At[r]
    BY <1>0, <1>2 DEF Elsewhere
  <2>2. UsedFds' = UsedFds \ {At[p]}
    BY <1>2, UsedFacts
  <2> HIDE DEF p, after
  <2>3. Owned(after, UsedFds \ {At[p]})
    BY <2>1, GiveFacts
  <2> QED
    BY <2>2, <2>3 DEF after
<1>3. ASSUME NEW t \in Actors, NEW k \in {"open", "probe", "local", "member", "ring"},
             NEW j \in {"open", "probe", "local", "member", "ring"}, k # j,
             UsedFds' = UsedFds \ {At[<<t, j>>]},
             At'[<<t, j>>] = At[<<t, k>>], At'[<<t, k>>] = None,
             Elsewhere(t, {k, j})
      PROVE  Owned(At', UsedFds')
  <2> DEFINE p == <<t, k>>
             q == <<t, j>>
             after == At'
  <2>1. /\ p \in DOMAIN At /\ q \in DOMAIN At /\ p # q /\ DOMAIN after = DOMAIN At
        /\ after[q] = At[p] /\ after[p] = None
        /\ \A r \in DOMAIN At : r # p /\ r # q => after[r] = At[r]
    BY <1>0, <1>3 DEF Elsewhere
  <2>2. UsedFds' = UsedFds \ {At[q]}
    BY <1>3
  <2> HIDE DEF p, q, after
  <2>3. Owned(after, UsedFds \ {At[q]})
    BY <2>1, AssignFacts
  <2> QED
    BY <2>2, <2>3 DEF after
<1>4. ASSUME NEW t, Elsewhere(t, {}), UsedFds' = UsedFds PROVE Owned(At', UsedFds')
  BY <1>0, <1>4 DEF Owned, Elsewhere
<1>5. UsedFds \ {None} = UsedFds
  BY Constants DEF UsedFds
<1>6. CASE UNCHANGED <<fds, fd, probe, fileVars>>
  <2>1. Elsewhere(None, {}) /\ UsedFds' = UsedFds
    BY <1>6 DEF At, UsedFds, fileVars, Elsewhere
  <2> QED
    BY <1>4, <2>1
<1>7. ASSUME NEW t \in Actors, NEW f \in Files, OpenFile(t, f) PROVE Owned(At', UsedFds')
  <2>1. PICK n \in Fds : Opens(n, f) /\ fd' = [fd EXCEPT ![t] = n]
    BY <1>7 DEF OpenFile
  <2>2. fd[t] = None /\ UNCHANGED <<probe, fileVars>>
    BY <1>7 DEF OpenFile, Goes, Control, Placed, Opening
  <2>3. Elsewhere(t, {"open"})
    <3>1. Changes(t, {"open"})
      BY <2>1, <2>2 DEF fileVars, TypeOK, Changes
    <3> QED
      BY <3>1, ElsewhereFacts
  <2> QED
    BY <1>0, <1>1, <2>1, <2>2, <2>3, AtFacts DEF TypeOK
<1>8. ASSUME NEW t \in Actors, OpenProbe(t) PROVE Owned(At', UsedFds')
  <2>1. PICK n \in Fds : Opens(n, path[t]) /\ probe' = [probe EXCEPT ![t] = n]
    BY <1>8 DEF OpenProbe
  <2>2. probe[t] = None /\ path[t] \in Files /\ UNCHANGED <<fd, fileVars>>
    BY <1>8 DEF OpenProbe, Goes, Control, Placed, Opening
  <2>3. Elsewhere(t, {"probe"})
    <3>1. Changes(t, {"probe"})
      BY <2>1, <2>2 DEF fileVars, TypeOK, Changes
    <3> QED
      BY <3>1, ElsewhereFacts
  <2> QED
    BY <1>0, <1>1, <2>1, <2>2, <2>3, AtFacts DEF TypeOK
<1>9. ASSUME NEW t \in Actors, CloseProbe(t) PROVE Owned(At', UsedFds')
  <2>1. /\ Closes(probe[t]) /\ probe' = [probe EXCEPT ![t] = None] /\ UNCHANGED <<fd, fileVars>>
        /\ probe[t] \in FdOrNone
    BY <1>9 DEF CloseProbe, TypeOK
  <2>2. Elsewhere(t, {"probe"})
    <3>1. Changes(t, {"probe"})
      BY <2>1 DEF fileVars, TypeOK, Changes
    <3> QED
      BY <3>1, ElsewhereFacts
  <2> QED
    BY <1>0, <1>2, <2>1, <2>2, AtFacts DEF TypeOK
<1>10. ASSUME NEW t \in Actors, OpenFails(t) \/ OpenMapFails(t) \/ OpenMapEmpty(t) \/ CloseMapped(t)
       PROVE  Owned(At', UsedFds')
  <2>1. /\ Closes(fd[t]) /\ fd' = [fd EXCEPT ![t] = None] /\ UNCHANGED <<probe, fileVars>>
        /\ fd[t] \in FdOrNone
    BY <1>10 DEF OpenFails, OpenMapFails, OpenMapEmpty, CloseMapped, LeaveOpenMap, TypeOK
  <2>2. Elsewhere(t, {"open"})
    <3>1. Changes(t, {"open"})
      BY <2>1 DEF fileVars, TypeOK, Changes
    <3> QED
      BY <3>1, ElsewhereFacts
  <2> QED
    BY <1>0, <1>2, <2>1, <2>2, AtFacts DEF TypeOK
<1>11. ASSUME NEW t \in Actors, OpenReturns(t) PROVE Owned(At', UsedFds')
  <2>1. /\ fd' = [fd EXCEPT ![t] = None] /\ UNCHANGED <<fds, probe, member, backend>>
        /\ \A u \in Actors : u # t => local'[u] = local[u]
        /\ local'[t].fd = fd[t] /\ local[t].fd = None
    BY <1>11 DEF OpenReturns, Goes, TypeOK, Control, Placed
  <2>2. Elsewhere(t, {"open", "local"})
    <3>1. Changes(t, {"open", "local"})
      BY <2>1 DEF TypeOK, Changes
    <3> QED
      BY <3>1, ElsewhereFacts
  <2>3. UsedFds' = UsedFds
    BY <2>1 DEF UsedFds
  <2> QED
    BY <1>0, <1>3, <1>5, <2>1, <2>2, <2>3, AtFacts DEF TypeOK
<1>12. ASSUME NEW t \in Actors, Close(t) PROVE Owned(At', UsedFds')
  <2>1. /\ Closes(member[t].fd) /\ UNCHANGED <<fd, probe, local, backend>>
        /\ \A u \in Actors : u # t => member'[u] = member[u]
        /\ member'[t].fd = None /\ member[t].fd \in FdOrNone
    BY <1>12 DEF Close, Closed, TypeOK, FileType
  <2>2. Elsewhere(t, {"member"})
    <3>1. Changes(t, {"member"})
      BY <2>1 DEF Changes
    <3> QED
      BY <3>1, ElsewhereFacts
  <2> QED
    BY <1>0, <1>2, <2>1, <2>2, AtFacts
<1>13. ASSUME NEW t \in Actors, AssignOpened(t) \/ MoveBack(t) \/ Adopt(t) \/ CloseShard(t)
       PROVE  Owned(At', UsedFds')
  <2>1. PICK from, to : Assign(t, from, to)
    BY <1>13 DEF AssignOpened, MoveBack, Adopt, CloseShard
  <2>2. /\ Closes(member[t].fd) /\ UNCHANGED <<fd, probe, backend>>
        /\ \A u \in Actors : u # t => member'[u] = member[u] /\ local'[u] = local[u]
        /\ member'[t].fd = local[t].fd /\ local'[t].fd = None /\ member[t].fd \in FdOrNone
    BY <1>13, <2>1 DEF AssignOpened, MoveBack, Adopt, CloseShard, Assign, MovedFrom, NoFile, TypeOK,
       FileType
  <2>3. Elsewhere(t, {"local", "member"})
    <3>1. Changes(t, {"local", "member"})
      BY <2>2 DEF Changes
    <3> QED
      BY <3>1, ElsewhereFacts
  <2>4. UsedFds' = UsedFds \ {At[<<t, "member">>]}
    BY <2>2, UsedFacts, AtFacts
  <2> QED
    BY <1>0, <1>3, <2>2, <2>3, <2>4, AtFacts
<1>14. ASSUME NEW t \in Actors, MoveOut(t) PROVE Owned(At', UsedFds')
  <2>1. /\ UNCHANGED <<fds, fd, probe, backend>>
        /\ \A u \in Actors : u # t => member'[u] = member[u] /\ local'[u] = local[u]
        /\ local'[t].fd = member[t].fd /\ member'[t].fd = None /\ local[t].fd = None
    BY <1>14 DEF MoveOut, Goes, MovedFrom, NoFile, TypeOK, Control, Placed
  <2>2. Elsewhere(t, {"member", "local"})
    <3>1. Changes(t, {"member", "local"})
      BY <2>1 DEF Changes
    <3> QED
      BY <3>1, ElsewhereFacts
  <2>3. UsedFds' = UsedFds
    BY <2>1 DEF UsedFds
  <2> QED
    BY <1>0, <1>3, <1>5, <2>1, <2>2, <2>3, AtFacts
<1>15. ASSUME NEW t \in Actors, DropMoved(t) \/ OpenShardFails(t) PROVE Owned(At', UsedFds')
  <2>1. /\ Closes(local[t].fd) /\ UNCHANGED <<fd, probe, member, backend>>
        /\ \A u \in Actors : u # t => local'[u] = local[u]
        /\ local'[t].fd = None /\ local[t].fd \in FdOrNone
    BY <1>15 DEF DropMoved, OpenShardFails, DropLocal, NoFile, TypeOK, FileType
  <2>2. Elsewhere(t, {"local"})
    <3>1. Changes(t, {"local"})
      BY <2>1 DEF Changes
    <3> QED
      BY <3>1, ElsewhereFacts
  <2> QED
    BY <1>0, <1>2, <2>1, <2>2, AtFacts
<1>16. ASSUME NEW t \in Actors, OpenRing(t) PROVE Owned(At', UsedFds')
  <2>1. PICK n \in Fds :
          /\ Opens(n, Ring)
          /\ backend' = [backend EXCEPT ![t] = [kind |-> "io_uring", fd |-> local[t].fd, ring |-> n]]
    BY <1>16 DEF OpenRing
  <2>2. backend[t].ring = None /\ UNCHANGED <<fd, probe, local, member>>
    BY <1>16 DEF OpenRing, Goes, Control, Placed, NoBackend
  <2>3. Elsewhere(t, {"ring"})
    <3>1. Changes(t, {"ring"})
      BY <2>1, <2>2 DEF TypeOK, Changes
    <3> QED
      BY <3>1, ElsewhereFacts
  <2> QED
    BY <1>0, <1>1, <2>1, <2>2, <2>3, AtFacts DEF TypeOK
<1>17. ASSUME NEW t \in Actors, OpenThreads(t) PROVE Owned(At', UsedFds')
  <2>1. /\ backend[t].ring = None /\ UNCHANGED <<fds, fd, probe, local, member>>
        /\ \A u \in Actors : backend'[u].ring = backend[u].ring
    <3>1. backend[t].ring = None /\ UNCHANGED <<fds, fd, probe, local, member>>
      BY <1>17 DEF OpenThreads, Goes, Control, Placed, NoBackend
    <3>2. \E n : backend' = [backend EXCEPT ![t] = [kind |-> "thread", fd |-> n, ring |-> None]]
      BY <1>17 DEF OpenThreads
    <3> QED
      BY <3>1, <3>2 DEF TypeOK
  <2>2. UsedFds' = UsedFds
    BY <2>1 DEF UsedFds
  <2>3. Elsewhere(t, {})
    <3>1. Changes(t, {})
      BY <2>1 DEF Changes
    <3> QED
      BY <3>1, ElsewhereFacts
  <2> QED
    BY <1>4, <2>2, <2>3
<1>18. ASSUME NEW t \in Actors, ResetBackend(t) PROVE Owned(At', UsedFds')
  <2>1. /\ Closes(backend[t].ring) /\ UNCHANGED <<fd, probe, local, member>>
        /\ \A u \in Actors : u # t => backend'[u] = backend[u]
        /\ backend'[t].ring = None /\ backend[t].ring \in FdOrNone
    BY <1>18 DEF ResetBackend, NoBackend, TypeOK
  <2>2. Elsewhere(t, {"ring"})
    <3>1. Changes(t, {"ring"})
      BY <2>1 DEF Changes
    <3> QED
      BY <3>1, ElsewhereFacts
  <2> QED
    BY <1>0, <1>2, <2>1, <2>2, AtFacts
<1>19. ASSUME NEW t \in Actors, NEW f \in Files, NEW offset, NEW length, OpenMap(t, f, offset, length)
       PROVE  Owned(At', UsedFds')
  <2>1. PICK n \in Fds : Opens(n, f) /\ fd' = [fd EXCEPT ![t] = n]
    BY <1>19 DEF OpenMap
  <2>2. fd[t] = None /\ UNCHANGED <<probe, fileVars>>
    BY <1>19 DEF OpenMap, Goes, Control, Placed, Opening
  <2>3. Elsewhere(t, {"open"})
    <3>1. Changes(t, {"open"})
      BY <2>1, <2>2 DEF fileVars, TypeOK, Changes
    <3> QED
      BY <3>1, ElsewhereFacts
  <2> QED
    BY <1>0, <1>1, <2>1, <2>2, <2>3, AtFacts DEF TypeOK
<1>20. ASSUME NEW t \in Actors, Map(t) \/ AssignMap(t) \/ DropMap(t) \/ DropFresh(t)
       PROVE  Owned(At', UsedFds')
  BY <1>6, <1>20 DEF Map, AssignMap, DropMap, DropFresh
<1>21. CASE UNCHANGED vars
  BY <1>6, <1>21 DEF vars
<1> QED
  BY <1>7, <1>8, <1>9, <1>10, <1>11, <1>12, <1>13, <1>14, <1>15, <1>16, <1>17, <1>18, <1>19, <1>20,
     <1>21 DEF Next

-----------------------------------------------------------------------------
(* Descriptors reach their file.                                            *)

(* No two places hold the same number.                                     *)
LEMMA ApartFacts ==
  ASSUME Owned(At, UsedFds), NEW u \in Actors, NEW t \in Actors
  PROVE  /\ fd[u] # None =>
              /\ fd[u] \notin {probe[t], local[t].fd, member[t].fd, backend[t].ring}
              /\ u # t => fd[u] # fd[t]
         /\ local[u].fd # None =>
              /\ local[u].fd \notin {fd[t], probe[t], member[t].fd, backend[t].ring}
              /\ u # t => local[u].fd # local[t].fd
         /\ member[u].fd # None =>
              /\ member[u].fd \notin {fd[t], probe[t], local[t].fd, backend[t].ring}
              /\ u # t => member[u].fd # member[t].fd
<1>1. /\ \A p, q \in FdPlaces : At[p] = At[q] /\ At[p] # None => p = q
      /\ \A k, j \in {"open", "probe", "local", "member", "ring"} :
           <<u, k>> \in FdPlaces /\ <<t, j>> \in FdPlaces
  BY AtFacts DEF Owned, FdPlaces
<1>2. \A k, j \in {"open", "probe", "local", "member", "ring"} :
        At[<<u, k>>] # None /\ At[<<u, k>>] = At[<<t, j>>] => u = t /\ k = j
  BY <1>1
<1> QED
  BY <1>2, AtFacts

(* What is held is in use.                                                 *)
LEMMA HeldFacts ==
  ASSUME Owned(At, UsedFds), NEW u \in Actors
  PROVE  /\ fd[u] # None => fd[u] \in UsedFds
         /\ local[u].fd # None => local[u].fd \in UsedFds
         /\ member[u].fd # None => member[u].fd \in UsedFds
<1>1. \A k \in {"open", "local", "member"} : At[<<u, k>>] # None => At[<<u, k>>] \in UsedFds
  BY AtFacts DEF Owned, FdPlaces
<1> QED
  BY <1>1, AtFacts

(* Nothing is open in the initial state.                                   *)
LEMMA InitReach == Init => Reach /\ Aligned
BY DEF Init, Reach, Aligned, NoFile

(* Every step leaves the open numbers with their files.                    *)
LEMMA NextReach ==
  TypeOK /\ Control /\ Owned(At, UsedFds) /\ Reach /\ [Next]_vars => Reach'
<1> SUFFICES ASSUME TypeOK, Control, Owned(At, UsedFds), Reach, [Next]_vars, NEW u \in Actors
             PROVE  /\ fd'[u] # None => fds'[fd'[u]] = path'[u]
                    /\ local'[u].fd # None => fds'[local'[u].fd] = local'[u].path
                    /\ member'[u].fd # None => fds'[member'[u].fd] = member'[u].path
  BY DEF Reach
<1> DEFINE Goal == /\ fd'[u] # None => fds'[fd'[u]] = path'[u]
                   /\ local'[u].fd # None => fds'[local'[u].fd] = local'[u].path
                   /\ member'[u].fd # None => fds'[member'[u].fd] = member'[u].path
<1>0. /\ fd[u] # None => fd[u] \in UsedFds /\ fds[fd[u]] = path[u]
      /\ local[u].fd # None => local[u].fd \in UsedFds /\ fds[local[u].fd] = local[u].path
      /\ member[u].fd # None => member[u].fd \in UsedFds /\ fds[member[u].fd] = member[u].path
  BY HeldFacts DEF Reach
<1>1. \A n \in Fds : \A what : Opens(n, what) =>
        fds'[n] = what /\ \A m \in UsedFds : m # n /\ fds'[m] = fds[m]
  BY Constants DEF Opens, UsedFds, TypeOK
<1>2. \A n \in FdOrNone : Closes(n) => \A m \in UsedFds : m # n => fds'[m] = fds[m]
  BY DEF Closes, UsedFds, TypeOK
<1>3. ASSUME UNCHANGED <<fds, fd, path, local, member>> PROVE Goal
  BY <1>0, <1>3
<1>4. ASSUME NEW t \in Actors, NEW f \in Files,
             OpenFile(t, f) \/ \E offset, length \in Nat : OpenMap(t, f, offset, length)
      PROVE  Goal
  <2>1. PICK n \in Fds : Opens(n, f) /\ fd' = [fd EXCEPT ![t] = n]
    BY <1>4 DEF OpenFile, OpenMap
  <2>2. path' = [path EXCEPT ![t] = f] /\ local' = local /\ member' = member
    BY <1>4 DEF OpenFile, OpenMap, fileVars
  <2> QED
    BY <1>0, <1>1, <2>1, <2>2 DEF TypeOK
<1>5. ASSUME NEW t \in Actors, OpenProbe(t) \/ OpenRing(t) PROVE Goal
  <2>1. PICK n \in Fds : \E what : Opens(n, what)
    BY <1>5 DEF OpenProbe, OpenRing
  <2>2. UNCHANGED <<fd, path, local, member>>
    BY <1>5 DEF OpenProbe, OpenRing, fileVars
  <2> QED
    BY <1>0, <1>1, <2>1, <2>2
<1>6. ASSUME NEW t \in Actors, CloseProbe(t) \/ ResetBackend(t) PROVE Goal
  <2>1. PICK n \in {probe[t], backend[t].ring} : Closes(n)
    BY <1>6 DEF CloseProbe, ResetBackend
  <2>2. n \in FdOrNone /\ UNCHANGED <<fd, path, local, member>>
    BY <1>6 DEF CloseProbe, ResetBackend, fileVars, TypeOK
  <2> QED
    BY <1>0, <1>2, <2>1, <2>2, ApartFacts
<1>7. ASSUME NEW t \in Actors, OpenFails(t) \/ OpenMapFails(t) \/ OpenMapEmpty(t) \/ CloseMapped(t)
      PROVE  Goal
  <2>1. /\ Closes(fd[t]) /\ fd[t] \in FdOrNone /\ fd' = [fd EXCEPT ![t] = None]
        /\ path' = [path EXCEPT ![t] = None] /\ local' = local /\ member' = member
    BY <1>7 DEF OpenFails, OpenMapFails, OpenMapEmpty, CloseMapped, LeaveOpenMap, fileVars, TypeOK
  <2> QED
    BY <1>0, <1>2, <2>1, ApartFacts DEF TypeOK
<1>8. ASSUME NEW t \in Actors, OpenReturns(t) PROVE Goal
  <2>1. /\ fd' = [fd EXCEPT ![t] = None] /\ path' = [path EXCEPT ![t] = None]
        /\ fds' = fds /\ member' = member
        /\ \A v \in Actors : v # t => local'[v] = local[v]
        /\ local'[t].fd = fd[t] /\ local'[t].path = path[t]
    BY <1>8 DEF OpenReturns, TypeOK
  <2> QED
    BY <1>0, <2>1 DEF TypeOK
<1>9. ASSUME NEW t \in Actors, Close(t) PROVE Goal
  <2>1. /\ Closes(member[t].fd) /\ member[t].fd \in FdOrNone /\ UNCHANGED <<fd, path, local>>
        /\ \A v \in Actors : v # t => member'[v] = member[v]
        /\ member'[t].fd = None
    BY <1>9 DEF Close, Closed, TypeOK, FileType
  <2> QED
    BY <1>0, <1>2, <2>1, ApartFacts
<1>10. ASSUME NEW t \in Actors, AssignOpened(t) \/ MoveBack(t) \/ Adopt(t) \/ CloseShard(t)
       PROVE  Goal
  <2>1. PICK from, to : Assign(t, from, to)
    BY <1>10 DEF AssignOpened, MoveBack, Adopt, CloseShard
  <2>2. /\ Closes(member[t].fd) /\ member[t].fd \in FdOrNone /\ UNCHANGED <<fd, path>>
        /\ \A v \in Actors : v # t => member'[v] = member[v] /\ local'[v] = local[v]
        /\ member'[t] = local[t] /\ local'[t].fd = None
    BY <1>10, <2>1 DEF AssignOpened, MoveBack, Adopt, CloseShard, Assign, MovedFrom, NoFile, TypeOK,
       FileType
  <2> QED
    BY <1>0, <1>2, <2>2, ApartFacts
<1>11. ASSUME NEW t \in Actors, MoveOut(t) PROVE Goal
  <2>1. /\ UNCHANGED <<fds, fd, path>>
        /\ \A v \in Actors : v # t => member'[v] = member[v] /\ local'[v] = local[v]
        /\ local'[t] = member[t] /\ member'[t].fd = None
    BY <1>11 DEF MoveOut, MovedFrom, NoFile, TypeOK
  <2> QED
    BY <1>0, <2>1
<1>12. ASSUME NEW t \in Actors, DropMoved(t) \/ OpenShardFails(t) PROVE Goal
  <2>1. /\ Closes(local[t].fd) /\ local[t].fd \in FdOrNone /\ UNCHANGED <<fd, path, member>>
        /\ \A v \in Actors : v # t => local'[v] = local[v]
        /\ local'[t].fd = None
    BY <1>12 DEF DropMoved, OpenShardFails, DropLocal, NoFile, TypeOK, FileType
  <2> QED
    BY <1>0, <1>2, <2>1, ApartFacts
<1>13. ASSUME NEW t \in Actors,
              OpenThreads(t) \/ Map(t) \/ AssignMap(t) \/ DropMap(t) \/ DropFresh(t)
       PROVE  Goal
  BY <1>3, <1>13 DEF OpenThreads, Map, AssignMap, DropMap, DropFresh, fileVars
<1>14. CASE UNCHANGED vars
  BY <1>3, <1>14 DEF vars, fileVars
<1> QED
  BY <1>4, <1>5, <1>6, <1>7, <1>8, <1>9, <1>10, <1>11, <1>12, <1>13, <1>14, WindowAssumption DEF Next

(* Every step leaves an open File with its file's alignment.               *)
LEMMA NextAligned == TypeOK /\ Control /\ Aligned /\ [Next]_vars => Aligned'
<1> SUFFICES ASSUME TypeOK, Control, Aligned, [Next]_vars PROVE Aligned'
  OBVIOUS
<1>1. ASSUME NEW t \in Actors, OpenReturns(t) PROVE Aligned'
  <2>1. /\ member' = member
        /\ \A v \in Actors : v # t => local'[v] = local[v]
        /\ local'[t].path = path[t] /\ local'[t].alignment = BlockOf[path[t]]
    BY <1>1, Constants DEF OpenReturns, FromDevice, Logical, TypeOK
  <2> QED
    BY <2>1 DEF Aligned
<1>2. ASSUME NEW t \in Actors, Close(t) PROVE Aligned'
  BY <1>2 DEF Close, Closed, Aligned, TypeOK, FileType
<1>3. ASSUME NEW t \in Actors, AssignOpened(t) \/ MoveBack(t) \/ Adopt(t) \/ CloseShard(t) \/ MoveOut(t)
             \/ DropMoved(t) \/ OpenShardFails(t)
      PROVE  Aligned'
  <2>1. /\ \A v \in Actors : v # t => local'[v] = local[v] /\ member'[v] = member[v]
        /\ local'[t] \in {local[t], member[t], NoFile} /\ member'[t] \in {local[t], member[t], NoFile}
    <3>1. CASE AssignOpened(t) \/ MoveBack(t) \/ Adopt(t) \/ CloseShard(t)
      BY <3>1 DEF AssignOpened, MoveBack, Adopt, CloseShard, Assign, MovedFrom, TypeOK
    <3>2. CASE MoveOut(t)
      BY <3>2 DEF MoveOut, MovedFrom, TypeOK
    <3>3. CASE DropMoved(t) \/ OpenShardFails(t)
      BY <3>3 DEF DropMoved, OpenShardFails, DropLocal, TypeOK
    <3> QED
      BY <1>3, <3>1, <3>2, <3>3
  <2>2. NoFile.fd = None
    BY DEF NoFile
  <2> QED
    BY <2>1, <2>2 DEF Aligned
<1>4. CASE UNCHANGED <<local, member>>
  BY <1>4 DEF Aligned
<1> QED
  BY <1>1, <1>2, <1>3, <1>4 DEF Next, OpenFile, OpenProbe, CloseProbe, OpenFails, OpenRing,
     OpenThreads, ResetBackend, OpenMap, OpenMapFails, OpenMapEmpty, CloseMapped, LeaveOpenMap, Map,
     AssignMap, DropMap, DropFresh, vars, fileVars

-----------------------------------------------------------------------------
(* Mappings have one owner.                                                 *)

(* Nothing is mapped in the initial state.                                 *)
LEMMA InitMapped == Init => Owned(MapAt, UsedMaps) /\ Mapped
<1> SUFFICES ASSUME Init PROVE Owned(MapAt, UsedMaps) /\ Mapped
  OBVIOUS
<1>1. UsedMaps = {} /\ \A p \in DOMAIN MapAt : MapAt[p] = None
  BY DEF Init, MapAt, MapPlaces, UsedMaps, NoMapping
<1>2. Owned(MapAt, UsedMaps)
  BY <1>1 DEF Owned
<1>3. Mapped
  BY DEF Init, Mapped, NoMapping
<1> QED
  BY <1>2, <1>3

(* The two places, and whether they share an address.                      *)
LEMMA MapAtFacts ==
  /\ DOMAIN MapAt = MapPlaces
  /\ \A t \in Actors :
       /\ <<t, "fresh">> \in MapPlaces /\ <<t, "mapping">> \in MapPlaces
       /\ MapAt[<<t, "fresh">>] = fresh[t].map /\ MapAt[<<t, "mapping">>] = mapping[t].map
  /\ \A r \in MapPlaces : \E u \in Actors : r = <<u, "fresh">> \/ r = <<u, "mapping">>
BY DEF MapAt, MapPlaces

(* No two objects hold the same mapping, and what is held is mapped.       *)
LEMMA MapApartFacts ==
  ASSUME Owned(MapAt, UsedMaps), NEW u \in Actors, NEW t \in Actors
  PROVE  /\ fresh[u].map # None => fresh[u].map # mapping[t].map /\ fresh[u].map \in UsedMaps
         /\ mapping[u].map # None => mapping[u].map # fresh[t].map /\ mapping[u].map \in UsedMaps
         /\ fresh[u].map # None /\ u # t => fresh[u].map # fresh[t].map
         /\ mapping[u].map # None /\ u # t => mapping[u].map # mapping[t].map
<1>1. /\ \A p, q \in MapPlaces : MapAt[p] = MapAt[q] /\ MapAt[p] # None => p = q
      /\ \A p \in MapPlaces : MapAt[p] # None => MapAt[p] \in UsedMaps
  BY MapAtFacts DEF Owned
<1>2. \A k, j \in {"fresh", "mapping"} :
        MapAt[<<u, k>>] # None /\ MapAt[<<u, k>>] = MapAt[<<t, j>>] => u = t /\ k = j
  BY <1>1 DEF MapPlaces
<1> QED
  BY <1>1, <1>2, MapAtFacts

(* What an object unmaps is all of its mapping.                            *)
LEMMA UnmapFacts ==
  ASSUME TypeOK, Mapped, NEW t \in Actors, NEW m \in {fresh[t], mapping[t]}, Unmaps(m)
  PROVE  /\ \A a \in Addresses : maps'[a] = IF a = m.map THEN Unmapped ELSE maps[a]
         /\ UsedMaps' = UsedMaps \ {m.map}
<1>1. m.map # None => m.map \in Addresses /\ m.map_length = maps[m.map].length
  BY DEF TypeOK, MapType, Mapped
<1>2. m.map # None => maps[m.map].length \in Nat
  BY <1>1 DEF TypeOK
<1>3. m.map # None => ~(m.map_length < maps[m.map].length)
  BY <1>1, <1>2
<1>4. \A a \in Addresses : maps'[a] = IF a = m.map THEN Unmapped ELSE maps[a]
  BY <1>1, <1>3, Constants DEF Unmaps, TypeOK
<1> QED
  BY <1>4 DEF UsedMaps

(* Every step leaves each mapping with one object, which knows its length. *)
LEMMA NextMapped ==
  TypeOK /\ Control /\ Owned(MapAt, UsedMaps) /\ Mapped /\ [Next]_vars
    => Owned(MapAt, UsedMaps)' /\ Mapped'
<1> SUFFICES ASSUME TypeOK, Control, Owned(MapAt, UsedMaps), Mapped, [Next]_vars
             PROVE  Owned(MapAt', UsedMaps') /\ Mapped'
  BY DEF Owned
<1> DEFINE after == MapAt'
<1>0. /\ DOMAIN after = DOMAIN MapAt /\ DOMAIN MapAt = MapPlaces
      /\ \A t \in Actors : /\ after[<<t, "fresh">>] = fresh'[t].map
                           /\ after[<<t, "mapping">>] = mapping'[t].map
  BY DEF MapAt, MapPlaces
<1>1. CASE UNCHANGED <<maps, fresh, mapping>>
  BY <1>1 DEF MapAt, UsedMaps, Mapped, Owned
<1>2. ASSUME NEW t \in Actors, Map(t) PROVE Owned(MapAt', UsedMaps') /\ Mapped'
  <2> DEFINE n == WindowLength(t)
  <2>1. PICK a \in Addresses :
          /\ maps[a] = Unmapped
          /\ maps' = [maps EXCEPT ![a] = [file |-> path[t], offset |-> window[t].offset, length |-> n]]
          /\ fresh' = [fresh EXCEPT ![t] = [map |-> a, map_length |-> n, size |-> n]]
    BY <1>2 DEF Map
  <2>2. /\ mapping' = mapping /\ fresh[t].map = None /\ path[t] \in Files
        /\ window[t].offset <= SizeOf[path[t]] /\ n <= SizeOf[path[t]] - window[t].offset
    BY <1>2 DEF Map, Goes, Fits, Control, Placed, Opening
  <2>3. n \in Nat /\ window[t].offset \in Nat /\ SizeOf[path[t]] \in Nat
    <3>1. window[t].offset \in Nat /\ window[t].length \in Nat /\ SizeOf[path[t]] \in Nat
      BY <2>2, Constants DEF TypeOK
    <3> QED
      BY <2>2, <3>1 DEF WindowLength
  <2> HIDE DEF n
  <2>4. a \notin UsedMaps /\ a # None /\ UsedMaps' = UsedMaps \cup {a}
    <3>1. maps'[a].file = path[t] /\ Unmapped.file = None
      BY <2>1 DEF TypeOK, Unmapped
    <3>2. maps'[a] # Unmapped
      BY <2>2, <3>1, Constants
    <3> QED
      BY <2>1, <3>2, Constants DEF UsedMaps, TypeOK
  <2>5. /\ <<t, "fresh">> \in DOMAIN MapAt /\ MapAt[<<t, "fresh">>] = None
        /\ after[<<t, "fresh">>] = a
        /\ \A r \in DOMAIN MapAt : r # <<t, "fresh">> => after[r] = MapAt[r]
    <3>1. fresh'[t].map = a /\ \A u \in Actors : u # t => fresh'[u] = fresh[u]
      BY <2>1 DEF TypeOK
    <3>2. ASSUME NEW r \in DOMAIN MapAt, r # <<t, "fresh">> PROVE after[r] = MapAt[r]
      <4>1. PICK u \in Actors : r = <<u, "fresh">> \/ r = <<u, "mapping">>
        BY <3>2, MapAtFacts
      <4>2. r = <<u, "fresh">> => u # t
        BY <3>2
      <4>3. /\ fresh'[u].map = after[<<u, "fresh">>] /\ mapping'[u].map = after[<<u, "mapping">>]
            /\ fresh[u].map = MapAt[<<u, "fresh">>] /\ mapping[u].map = MapAt[<<u, "mapping">>]
        BY <1>0, MapAtFacts
      <4>4. mapping'[u] = mapping[u] /\ (u # t => fresh'[u] = fresh[u])
        BY <2>2, <3>1
      <4> HIDE DEF after
      <4> QED
        BY <4>1, <4>2, <4>3, <4>4
    <3> HIDE DEF after
    <3> QED
      BY <1>0, <2>2, <3>1, <3>2, MapAtFacts
  <2> DEFINE p == <<t, "fresh">>
  <2>6. /\ p \in DOMAIN MapAt /\ MapAt[p] = None /\ after[p] = a
        /\ \A r \in DOMAIN MapAt : r # p => after[r] = MapAt[r]
    BY <2>5
  <2> HIDE DEF p
  <2>7. Owned(after, UsedMaps \cup {a})
    <3> HIDE DEF after
    <3> QED
      BY <1>0, <2>4, <2>6, TakeFacts
  <2>8. Mapped'
    <3>1. ASSUME NEW u \in Actors, NEW m \in {fresh'[u], mapping'[u]}
          PROVE  /\ m.map # None => m.map_length = maps'[m.map].length /\ m.size = m.map_length
                 /\ m.map = None => m.size = 0
      <4>1. CASE m = fresh'[u] /\ u = t
        BY <2>1, <2>4, <4>1 DEF TypeOK
      <4>2. CASE m \in {fresh[u], mapping[u]}
        <5>1. m.map # None => m.map \in UsedMaps
          BY <4>2, MapApartFacts
        <5>2. m.map # None => maps'[m.map] = maps[m.map]
          BY <2>1, <2>4, <5>1 DEF TypeOK, UsedMaps
        <5> QED
          BY <4>2, <5>2 DEF Mapped
      <4> QED
        BY <2>1, <2>2, <4>1, <4>2 DEF TypeOK
    <3>2. ASSUME NEW b \in Addresses, maps'[b] # Unmapped
          PROVE  maps'[b].file \in Files /\ maps'[b].offset + maps'[b].length <= SizeOf[maps'[b].file]
      <4>1. CASE b = a
        <5>1. /\ maps'[b].file = path[t] /\ maps'[b].offset = window[t].offset
              /\ maps'[b].length = n
          BY <2>1, <4>1 DEF TypeOK
        <5>2. window[t].offset + n <= SizeOf[path[t]]
          BY <2>2, <2>3
        <5> QED
          BY <2>2, <5>1, <5>2
      <4>2. CASE b # a
        BY <2>1, <3>2, <4>2 DEF Mapped, TypeOK
      <4> QED
        BY <4>1, <4>2
    <3> QED
      BY <3>1, <3>2 DEF Mapped
  <2> QED
    BY <2>4, <2>7, <2>8
\* The address of one place goes back; the other place is left alone, or what
\* it holds moves.
<1>3. ASSUME NEW t \in Actors, NEW m \in {fresh[t], mapping[t]}, Unmaps(m),
             \A u \in Actors : u # t => fresh'[u] = fresh[u] /\ mapping'[u] = mapping[u],
             \/ m = fresh[t] /\ mapping'[t] = mapping[t] /\ fresh'[t] = NoMapping
             \/ m = mapping[t] /\ fresh'[t] = fresh[t] /\ mapping'[t] = NoMapping
             \/ m = mapping[t] /\ mapping'[t] = fresh[t] /\ fresh'[t] = NoMapping
      PROVE  Owned(MapAt', UsedMaps') /\ Mapped'
  <2>1. /\ \A a \in Addresses : maps'[a] = IF a = m.map THEN Unmapped ELSE maps[a]
        /\ UsedMaps' = UsedMaps \ {m.map}
    BY <1>3, UnmapFacts
  <2>2. NoMapping.map = None /\ NoMapping.size = 0
    BY DEF NoMapping
  <2> DEFINE p == <<t, "fresh">>
             q == <<t, "mapping">>
  <2>3. /\ p \in DOMAIN MapAt /\ q \in DOMAIN MapAt /\ p # q
        /\ MapAt[p] = fresh[t].map /\ MapAt[q] = mapping[t].map
        /\ after[p] = fresh'[t].map /\ after[q] = mapping'[t].map
        /\ \A r \in DOMAIN MapAt : r # p /\ r # q => after[r] = MapAt[r]
    <3>1. ASSUME NEW r \in DOMAIN MapAt, r # p, r # q PROVE after[r] = MapAt[r]
      <4>1. PICK u \in Actors : r = <<u, "fresh">> \/ r = <<u, "mapping">>
        BY <3>1, MapAtFacts
      <4>2. u # t
        BY <3>1, <4>1
      <4>3. /\ fresh'[u].map = after[<<u, "fresh">>] /\ mapping'[u].map = after[<<u, "mapping">>]
            /\ fresh[u].map = MapAt[<<u, "fresh">>] /\ mapping[u].map = MapAt[<<u, "mapping">>]
        BY <1>0, MapAtFacts
      <4>4. mapping'[u] = mapping[u] /\ fresh'[u] = fresh[u]
        BY <1>3, <4>2
      <4> HIDE DEF after
      <4> QED
        BY <4>1, <4>3, <4>4
    <3>2. p # q
      OBVIOUS
    <3> HIDE DEF after
    <3> QED
      BY <1>0, <3>1, <3>2, MapAtFacts
  <2> HIDE DEF p, q
  <2>4. Owned(after, UsedMaps \ {m.map})
    <3> HIDE DEF after
    <3>1. CASE m = fresh[t] /\ mapping'[t] = mapping[t] /\ fresh'[t] = NoMapping
      <4>1. after[p] = None /\ \A r \in DOMAIN MapAt : r # p => after[r] = MapAt[r]
        BY <2>2, <2>3, <3>1
      <4> QED
        BY <1>0, <2>3, <3>1, <4>1, GiveFacts
    <3>2. CASE m = mapping[t] /\ fresh'[t] = fresh[t] /\ mapping'[t] = NoMapping
      <4>1. after[q] = None /\ \A r \in DOMAIN MapAt : r # q => after[r] = MapAt[r]
        BY <2>2, <2>3, <3>2
      <4> QED
        BY <1>0, <2>3, <3>2, <4>1, GiveFacts
    <3>3. CASE m = mapping[t] /\ mapping'[t] = fresh[t] /\ fresh'[t] = NoMapping
      BY <1>0, <2>2, <2>3, <3>3, AssignFacts
    <3> QED
      BY <1>3, <3>1, <3>2, <3>3
  <2>5. Mapped'
    <3>1. ASSUME NEW u \in Actors, NEW k \in {fresh'[u], mapping'[u]}
          PROVE  /\ k.map # None => k.map_length = maps'[k.map].length /\ k.size = k.map_length
                 /\ k.map = None => k.size = 0
      <4>1. CASE k = NoMapping
        BY <2>2, <4>1
      <4>2. CASE k \in {fresh[u], mapping[u]} /\ (k.map # None => k.map # m.map)
        <5>1. k.map # None => k.map \in Addresses
          BY <4>2 DEF TypeOK, MapType
        <5> QED
          BY <2>1, <4>2, <5>1 DEF Mapped
      <4>3. u # t => k \in {fresh[u], mapping[u]} /\ (k.map # None => k.map # m.map)
        BY <1>3, <3>1, MapApartFacts
      <4>4. u = t => k = NoMapping \/ (k \in {fresh[u], mapping[u]} /\ (k.map # None => k.map # m.map))
        BY <1>3, <3>1, MapApartFacts
      <4> QED
        BY <4>1, <4>2, <4>3, <4>4
    <3>2. ASSUME NEW b \in Addresses, maps'[b] # Unmapped
          PROVE  maps'[b].file \in Files /\ maps'[b].offset + maps'[b].length <= SizeOf[maps'[b].file]
      BY <2>1, <3>2 DEF Mapped
    <3> QED
      BY <3>1, <3>2 DEF Mapped
  <2> QED
    BY <2>1, <2>4, <2>5
<1>4. ASSUME NEW t \in Actors, AssignMap(t) PROVE Owned(MapAt', UsedMaps') /\ Mapped'
  <2>1. /\ Unmaps(mapping[t]) /\ mapping'[t] = fresh[t] /\ fresh'[t] = NoMapping
        /\ \A u \in Actors : u # t => fresh'[u] = fresh[u] /\ mapping'[u] = mapping[u]
    BY <1>4 DEF AssignMap, MapMovedFrom, TypeOK
  <2> QED
    BY <1>3, <2>1
<1>5. ASSUME NEW t \in Actors, DropMap(t) PROVE Owned(MapAt', UsedMaps') /\ Mapped'
  <2>1. /\ Unmaps(mapping[t]) /\ mapping'[t] = NoMapping /\ fresh'[t] = fresh[t]
        /\ \A u \in Actors : u # t => fresh'[u] = fresh[u] /\ mapping'[u] = mapping[u]
    BY <1>5 DEF DropMap, TypeOK
  <2> QED
    BY <1>3, <2>1
<1>6. ASSUME NEW t \in Actors, DropFresh(t) PROVE Owned(MapAt', UsedMaps') /\ Mapped'
  <2>1. /\ Unmaps(fresh[t]) /\ fresh'[t] = NoMapping /\ mapping'[t] = mapping[t]
        /\ \A u \in Actors : u # t => fresh'[u] = fresh[u] /\ mapping'[u] = mapping[u]
    BY <1>6 DEF DropFresh, TypeOK
  <2> QED
    BY <1>3, <2>1
<1> QED
  BY <1>1, <1>2, <1>4, <1>5, <1>6 DEF Next, OpenFile, OpenProbe, CloseProbe, OpenFails, OpenReturns,
     Close, AssignOpened, MoveOut, MoveBack, DropMoved, DropLocal, OpenShardFails, OpenRing,
     OpenThreads, Adopt, ResetBackend, CloseShard, OpenMap, OpenMapFails, OpenMapEmpty, CloseMapped,
     LeaveOpenMap, vars, mapVars

-----------------------------------------------------------------------------
(* The invariant, and what follows from it.                                 *)

(* No descriptor is open and no place holds one.                           *)
LEMMA InitOwned == Init => Owned(At, UsedFds)
<1> SUFFICES ASSUME Init PROVE Owned(At, UsedFds)
  OBVIOUS
<1>1. UsedFds = {}
  BY DEF Init, UsedFds
<1>2. \A p \in DOMAIN At : At[p] = None
  BY DEF Init, At, FdPlaces, NoFile, NoBackend
<1> QED
  BY <1>1, <1>2 DEF Owned

(* The inductive invariant holds in every reachable state of Handles.      *)
LEMMA Invariance == Spec => []IInv
<1>1. Init => IInv
  BY InitTypeOK, InitControl, InitOwned, InitMapped, InitReach DEF IInv
<1>2. IInv /\ [Next]_vars => IInv'
  BY NextTypeOK, NextControl, NextOwned, NextMapped, NextReach, NextAligned DEF IInv
<1> QED
  BY <1>1, <1>2, PTL DEF Spec

(* Every reachable state of Handles is well typed, and an open File has an *)
(* alignment that read_into can divide by.                                 *)
THEOREM TypeInvariant == Spec => []TypeOK
<1>1. IInv => TypeOK
  BY DEF IInv
<1> QED
  BY <1>1, Invariance, PTL

(* On every path, fallbacks and failures included, each open descriptor    *)
(* has one place that will close it, and a closed one none: for any number *)
(* of threads and descriptors.                                             *)
THEOREM EachDescriptorOwned == Spec => []DescriptorsOwned
<1>1. IInv => DescriptorsOwned
  <2> SUFFICES ASSUME IInv, NEW n \in Fds
               PROVE  Cardinality(Holders(n)) = IF fds[n] = Free THEN 0 ELSE 1
    BY DEF DescriptorsOwned
  <2>1. Owned(At, UsedFds) /\ n # None /\ (n \in UsedFds <=> fds[n] # Free)
    BY Constants DEF IInv, UsedFds
  <2>2. Holders(n) = {p \in DOMAIN At : At[p] = n}
    <3>1. ASSUME NEW p \in Holders(n) PROVE p \in DOMAIN At /\ At[p] = n
      <4> DEFINE from(t) == \/ p = <<t, "open">> /\ fd[t] = n
                            \/ p = <<t, "probe">> /\ probe[t] = n
                            \/ p = <<t, "local">> /\ local[t].fd = n
                            \/ p = <<t, "member">> /\ member[t].fd = n
                            \/ p = <<t, "ring">> /\ backend[t].ring = n
      <4>1. PICK t \in Actors : from(t)
        <5>1. CASE p \in {<<t, "open">> : t \in {u \in Actors : fd[u] = n}}
          BY <5>1
        <5>2. CASE p \in {<<t, "probe">> : t \in {u \in Actors : probe[u] = n}}
          BY <5>2
        <5>3. CASE p \in {<<t, "local">> : t \in {u \in Actors : local[u].fd = n}}
          BY <5>3
        <5>4. CASE p \in {<<t, "member">> : t \in {u \in Actors : member[u].fd = n}}
          BY <5>4
        <5>5. CASE p \in {<<t, "ring">> : t \in {u \in Actors : backend[u].ring = n}}
          BY <5>5
        <5> HIDE DEF from
        <5> QED
          BY <3>1, <5>1, <5>2, <5>3, <5>4, <5>5 DEF Holders
      <4>2. p \in FdPlaces
        BY <4>1 DEF FdPlaces
      <4>3. /\ At[<<t, "open">>] = fd[t] /\ At[<<t, "probe">>] = probe[t]
            /\ At[<<t, "local">>] = local[t].fd /\ At[<<t, "member">>] = member[t].fd
            /\ At[<<t, "ring">>] = backend[t].ring
        BY AtFacts
      <4>4. At[p] = n
        BY <4>1, <4>3
      <4> QED
        BY <4>2, <4>4, AtFacts
    <3>2. ASSUME NEW p \in DOMAIN At, At[p] = n PROVE p \in Holders(n)
      <4>1. PICK t \in Actors, k \in {"open", "probe", "local", "member", "ring"} : p = <<t, k>>
        BY AtFacts DEF FdPlaces
      <4> QED
        BY <3>2, <4>1, AtFacts DEF Holders
    <3> QED
      BY <3>1, <3>2
  <2> QED
    BY <2>1, <2>2, OneOwner
<1> QED
  BY <1>1, Invariance, PTL

(* A File reaches the file it was opened with, and a backend the shard of  *)
(* its stream, however often descriptor numbers are reused.                *)
THEOREM EachDescriptorReachesItsFile == Spec => []DescriptorsReachTheirFile
<1>1. IInv => DescriptorsReachTheirFile
  <2> SUFFICES ASSUME IInv PROVE DescriptorsReachTheirFile
    OBVIOUS
  <2>1. \A t \in Streams : backend[t].kind # "none" =>
          backend[t].fd # None /\ backend[t].fd \in {local[t].fd, member[t].fd}
    BY DEF IInv, Control, Placed, Actors, NoBackend
  <2> QED
    BY <2>1 DEF IInv, Reach, Aligned, DescriptorsReachTheirFile
<1> QED
  BY <1>1, Invariance, PTL

(* Each mapping belongs to one MmapFile, which will unmap all of it, and   *)
(* lies inside its file.                                                   *)
THEOREM EachMappingOwned == Spec => []MappingsOwned
<1>1. IInv => MappingsOwned
  <2> SUFFICES ASSUME IInv PROVE MappingsOwned
    OBVIOUS
  <2>0. Owned(MapAt, UsedMaps) /\ Mapped /\ TypeOK
    BY DEF IInv
  <2>1. ASSUME NEW a \in Addresses
        PROVE  /\ Cardinality({<<t, "fresh">> : t \in {u \in Actors : fresh[u].map = a}} \cup
                              {<<t, "mapping">> : t \in {u \in Actors : mapping[u].map = a}})
                    = IF maps[a] = Unmapped THEN 0 ELSE 1
               /\ maps[a] # Unmapped =>
                    /\ maps[a].offset + maps[a].length <= SizeOf[maps[a].file]
                    /\ \E t \in Actors : \E m \in {fresh[t], mapping[t]} :
                         m.map = a /\ m.map_length = maps[a].length
    <3> DEFINE held == {<<t, "fresh">> : t \in {u \in Actors : fresh[u].map = a}} \cup
                       {<<t, "mapping">> : t \in {u \in Actors : mapping[u].map = a}}
    <3>1. a # None /\ (a \in UsedMaps <=> maps[a] # Unmapped)
      BY Constants DEF UsedMaps
    <3>2. held = {p \in DOMAIN MapAt : MapAt[p] = a}
      <4>1. ASSUME NEW p \in held PROVE p \in DOMAIN MapAt /\ MapAt[p] = a
        BY <4>1, MapAtFacts
      <4>2. ASSUME NEW p \in DOMAIN MapAt, MapAt[p] = a PROVE p \in held
        BY <4>2, MapAtFacts
      <4> QED
        BY <4>1, <4>2
    <3> HIDE DEF held
    <3>3. Cardinality(held) = IF maps[a] = Unmapped THEN 0 ELSE 1
      BY <2>0, <3>1, <3>2, OneOwner
    <3>4. ASSUME maps[a] # Unmapped
          PROVE  \E t \in Actors : \E m \in {fresh[t], mapping[t]} :
                   m.map = a /\ m.map_length = maps[a].length
      <4>1. PICK p \in MapPlaces : MapAt[p] = a
        BY <2>0, <3>1, <3>4, MapAtFacts DEF Owned
      <4>2. PICK t \in Actors : p = <<t, "fresh">> \/ p = <<t, "mapping">>
        BY MapAtFacts
      <4>3. PICK m \in {fresh[t], mapping[t]} : m.map = a
        BY <4>1, <4>2, MapAtFacts
      <4> QED
        BY <2>0, <3>1, <4>3 DEF Mapped
    <3> QED
      BY <2>0, <3>3, <3>4 DEF Mapped, held
  <2> QED
    BY <2>1 DEF MappingsOwned
<1> QED
  BY <1>1, Invariance, PTL

(* advise never reaches past the mapping of its object, for any offset and *)
(* length.                                                                 *)
THEOREM AdviceInside == Spec => []AdviceStaysInside
<1>1. IInv => AdviceStaysInside
  <2> SUFFICES ASSUME IInv, NEW t \in Actors, NEW offset \in 0 .. MaxWindow,
                      NEW length \in 0 .. MaxWindow, AdviseAccepted(mapping[t], offset)
               PROVE  /\ mapping[t].map # None
                      /\ offset + Advised(mapping[t], offset, length) <= maps[mapping[t].map].length
    BY DEF AdviceStaysInside
  <2>1. mapping[t].size \in Nat /\ mapping[t].size > 0 /\ offset <= mapping[t].size
    BY DEF AdviseAccepted, IInv, TypeOK, MapType
  <2>2. mapping[t].map # None /\ maps[mapping[t].map].length = mapping[t].size
    BY <2>1 DEF IInv, Mapped
  <2>3. offset \in Nat /\ length \in Nat
    BY WindowAssumption
  <2>4. offset + Advised(mapping[t], offset, length) <= mapping[t].size
    BY <2>1, <2>3 DEF Advised
  <2> QED
    BY <2>2, <2>4
<1> QED
  BY <1>1, Invariance, PTL

=============================================================================
