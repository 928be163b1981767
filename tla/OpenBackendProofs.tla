-------------------------- MODULE OpenBackendProofs --------------------------
(***************************************************************************)
(* Proofs about the backend open_backend hands out, for every queue depth, *)
(* number of workers, `min', room, and order in which reads finish.  The   *)
(* first part is about the thread pool: requests are numbered as they are  *)
(* submitted, so the futures kept, the completions taken and the requests  *)
(* handed back are three consecutive intervals.  The ring's part is        *)
(* UringBackendProofs.  The last part puts the two together.               *)
(***************************************************************************)
EXTENDS OpenBackend, SequenceTheorems, FiniteSetTheorems, TLAPS

\* Requests handed back to the caller.
Handed == issued - Len(pending_) - Len(got)

Queued ==
  /\ Handed \in Nat
  /\ reaped = 1 .. Handed
  /\ \A i \in 1 .. Len(got) : got[i] = Handed + i
  /\ \A i \in 1 .. Len(pending_) : pending_[i] = Handed + Len(got) + i
  /\ pc # "drain" => got = <<>>
  /\ pc = "idle" => min = 0 /\ room = 0
  /\ Len(got) <= room

\* What reap owes: `min', clamped to the room and to what was in flight when
\* it was called.
Owed == Pool!Smaller(Pool!Smaller(min, room), Len(pending_) + Len(got))

\* The futures reap has waited for are ready until it takes them.
Waited ==
  pc = "drain" => \A i \in 1 .. Owed - Len(got) : pending_[i] \in ready

PoolInv == Pool!TypeOK /\ Queued /\ Waited

-----------------------------------------------------------------------------
(* A queue of consecutive numbers holds an interval.                       *)
LEMMA ConsecutiveElements ==
  ASSUME NEW S, NEW s \in Seq(S), NEW base \in Int,
         \A i \in 1 .. Len(s) : s[i] = base + i
  PROVE  Pool!Elements(s) = base + 1 .. base + Len(s)
<1>1. DOMAIN s = 1 .. Len(s) /\ Len(s) \in Nat
  OBVIOUS
<1>2. ASSUME NEW e \in Pool!Elements(s) PROVE e \in base + 1 .. base + Len(s)
  BY <1>1 DEF Pool!Elements
<1>3. ASSUME NEW e \in base + 1 .. base + Len(s) PROVE e \in Pool!Elements(s)
  <2>1. e - base \in 1 .. Len(s) /\ e = base + (e - base)
    BY <1>1
  <2> QED
    BY <1>1, <2>1 DEF Pool!Elements
<1> QED
  BY <1>2, <1>3

(* The numbers after a, counted.                                           *)
LEMMA IntervalFacts ==
  ASSUME NEW a \in Int, NEW n \in Nat
  PROVE  IsFiniteSet(a + 1 .. a + n) /\ Cardinality(a + 1 .. a + n) = n
<1> DEFINE lo == a + 1
           hi == a + n
<1>1. lo \in Int /\ hi \in Int /\ (lo > hi <=> n = 0) /\ hi - lo + 1 = n
  OBVIOUS
<1> HIDE DEF lo, hi
<1>2. IsFiniteSet(lo .. hi) /\ Cardinality(lo .. hi) = IF lo > hi THEN 0 ELSE hi - lo + 1
  BY <1>1, FS_Interval
<1>3. IsFiniteSet(lo .. hi) /\ Cardinality(lo .. hi) = n
  BY <1>1, <1>2
<1> QED
  BY <1>3 DEF lo, hi

(* Two intervals that follow each other make up one.                       *)
LEMMA IntervalsMeet ==
  ASSUME NEW a \in Int, NEW b \in Int, NEW c \in Int, a <= b + 1, b <= c
  PROVE  /\ (a .. b) \cup (b + 1 .. c) = a .. c
         /\ (a .. c) \ (a .. b) = b + 1 .. c
         /\ (a .. b) \cap (b + 1 .. c) = {}
<1>1. \A x \in Int : /\ x \in a .. b \/ x \in b + 1 .. c <=> x \in a .. c
                    /\ ~(x \in a .. b /\ x \in b + 1 .. c)
  OBVIOUS
<1>2. a .. b \subseteq Int /\ b + 1 .. c \subseteq Int /\ a .. c \subseteq Int
  OBVIOUS
<1> QED
  BY <1>1, <1>2, Zenon

\* What the proofs below use of the types.
LEMMA TypeFacts ==
  ASSUME Pool!TypeOK
  PROVE  /\ queue \in Seq(1 .. MaxRequests) /\ pending_ \in Seq(1 .. MaxRequests)
         /\ got \in Seq(1 .. MaxRequests)
         /\ Len(pending_) \in Nat /\ Len(got) \in Nat /\ Len(queue) \in Nat
         /\ DOMAIN pending_ = 1 .. Len(pending_) /\ DOMAIN got = 1 .. Len(got)
         /\ issued \in Nat /\ issued <= MaxRequests /\ MaxRequests \in Nat
         /\ min \in Nat /\ room \in Nat /\ Depth \in Nat
BY DepthAssumption, BoundsAssumption DEF Pool!TypeOK

(* The numbers among them.                                                 *)
LEMMA NumberFacts ==
  ASSUME Pool!TypeOK
  PROVE  /\ Len(pending_) \in Nat /\ Len(got) \in Nat /\ Len(queue) \in Nat
         /\ issued \in Nat /\ issued <= MaxRequests /\ MaxRequests \in Nat
         /\ min \in Nat /\ room \in Nat /\ Depth \in Nat
BY TypeFacts, Zenon

-----------------------------------------------------------------------------
(* Nothing is submitted in the initial state.                              *)
LEMMA PoolInitInv == Pool!Init => PoolInv
<1> SUFFICES ASSUME Pool!Init PROVE PoolInv
  OBVIOUS
<1>1. Len(queue) = 0 /\ Len(pending_) = 0 /\ Len(got) = 0 /\ issued = 0
  BY DEF Pool!Init
<1>2. Pool!TypeOK
  BY <1>1, BoundsAssumption, DepthAssumption DEF Pool!Init, Pool!TypeOK
<1>3. Handed = 0
  BY <1>1 DEF Handed
<1>4. Queued
  BY <1>1, <1>3 DEF Pool!Init, Queued
<1> QED
  BY <1>2, <1>4 DEF Pool!Init, PoolInv, Waited

(* submit appends the same numbers to the pool's tasks and to pending_.     *)
LEMMA SubmitPoolInv ==
  ASSUME PoolInv, NEW n \in 1 .. MaxRequests, Pool!Submit(n)
  PROVE  PoolInv'
<1> DEFINE new == [i \in 1 .. n |-> issued + i]
<1>0. Pool!TypeOK /\ Queued /\ pc = "idle" /\ got = <<>> /\ Len(got) = 0
  BY DEF PoolInv, Queued, Pool!Submit
<1>1. n \in Nat /\ issued + n <= MaxRequests /\ issued + n \in Nat
  <2>1. n \in 1 .. MaxRequests - issued /\ issued \in Nat /\ MaxRequests \in Nat
    BY <1>0, NumberFacts DEF Pool!Submit
  <2> QED
    BY <2>1
<1>2. \A i \in 1 .. n : issued + i \in 1 .. MaxRequests
  <2>1. issued \in Nat /\ MaxRequests \in Nat
    BY <1>0, NumberFacts
  <2> QED
    BY <1>1, <2>1
<1>3. new \in Seq(1 .. MaxRequests) /\ Len(new) = n /\ \A i \in 1 .. n : new[i] = issued + i
  BY <1>1, <1>2
<1>4. queue' = queue \o new /\ pending_' = pending_ \o new /\ issued' = issued + n
      /\ Len(pending_) + n <= Depth
      /\ UNCHANGED <<threads, running, ready, pc, min, room, got, reaped>>
  BY DEF Pool!Submit, Pool!Fits
<1> HIDE DEF new
<1>5. /\ queue' \in Seq(1 .. MaxRequests) /\ pending_' \in Seq(1 .. MaxRequests)
      /\ Len(pending_') = Len(pending_) + n
      /\ \A i \in 1 .. Len(pending_) + n :
           pending_'[i] = IF i <= Len(pending_) THEN pending_[i] ELSE new[i - Len(pending_)]
  <2>1. queue \in Seq(1 .. MaxRequests) /\ pending_ \in Seq(1 .. MaxRequests)
    BY <1>0, TypeFacts
  <2>2. queue \o new \in Seq(1 .. MaxRequests)
    BY <1>3, <2>1, ConcatProperties
  <2> QED
    BY <1>3, <1>4, <2>1, <2>2, ConcatProperties
<1>6. Pool!TypeOK'
  <2>1. UNCHANGED <<threads, running, ready, pc, min, room, got, reaped>>
    BY <1>4
  <2>2. issued' \in 0 .. MaxRequests
    BY <1>0, <1>1, <1>4, TypeFacts
  <2>3. Len(pending_') <= Depth
    BY <1>4, <1>5
  <2> QED
    BY <1>0, <1>5, <2>1, <2>2, <2>3 DEF Pool!TypeOK
<1>7. Handed' = Handed /\ Handed + Len(pending_) = issued
  <2>1. /\ issued \in Nat /\ n \in Nat /\ Len(pending_) \in Nat /\ Len(got) = 0
        /\ Len(got') = 0
    BY <1>0, <1>1, <1>4, TypeFacts
  <2>2. issued' = issued + n /\ Len(pending_') = Len(pending_) + n
    BY <1>4, <1>5
  <2> QED
    BY <2>1, <2>2 DEF Handed
<1>8. ASSUME NEW i \in 1 .. Len(pending_)' PROVE pending_'[i] = Handed + i
  <2>1. i \in 1 .. Len(pending_) + n
    BY <1>5
  <2>2. CASE i <= Len(pending_)
    <3>1. i \in 1 .. Len(pending_)
      BY <2>1, <2>2, <1>0, TypeFacts
    <3>2. pending_[i] = Handed + Len(got) + i
      BY <1>0, <3>1 DEF Queued
    <3> QED
      BY <1>0, <1>5, <2>1, <2>2, <3>2 DEF Queued
  <2>3. CASE i > Len(pending_)
    <3>1. i - Len(pending_) \in 1 .. n
      BY <1>0, <1>1, <2>1, <2>3, TypeFacts
    <3>2. pending_'[i] = issued + (i - Len(pending_))
      BY <1>0, <1>3, <1>5, <2>1, <2>3, <3>1, TypeFacts
    <3> QED
      BY <1>0, <1>7, <2>1, <3>2, TypeFacts DEF Queued
  <2> QED
    BY <1>0, <2>1, <2>2, <2>3, TypeFacts
<1>9. Queued'
  <2>1. UNCHANGED <<pc, min, room, got, reaped>>
    BY <1>4
  <2>2. \A i \in 1 .. Len(pending_') : pending_'[i] = Handed + Len(got) + i
    <3>1. Handed \in Nat /\ Handed + Len(got) = Handed
      BY <1>0 DEF Queued
    <3> QED
      BY <1>8, <3>1
  <2> QED
    BY <1>0, <1>7, <2>1, <2>2 DEF Queued
<1> QED
  BY <1>0, <1>4, <1>6, <1>9 DEF PoolInv, Waited

(* One completion is taken from the front.                                 *)
LEMMA DrainPoolInv ==
  ASSUME PoolInv, Pool!DrainOne
  PROVE  PoolInv'
<1>0. Pool!TypeOK /\ Queued /\ Waited /\ pc = "drain"
  BY DEF PoolInv, Pool!DrainOne
<1>1. Len(got) < room /\ pending_ # <<>>
  BY DEF Pool!DrainOne, Pool!MoreReady
<1>2. /\ got' = Append(got, pending_[1]) /\ pending_' = Tail(pending_)
      /\ UNCHANGED <<threads, queue, running, ready, pc, min, room, issued, reaped>>
  BY DEF Pool!DrainOne
<1>3. /\ pending_[1] \in 1 .. MaxRequests /\ pending_' \in Seq(1 .. MaxRequests)
      /\ Len(pending_) \in Nat \ {0} /\ Len(pending_') = Len(pending_) - 1
      /\ \A i \in 1 .. Len(pending_) - 1 : pending_'[i] = pending_[i + 1]
  BY <1>0, <1>1, <1>2, HeadTailProperties, EmptySeq, LenProperties, TypeFacts
<1>4. /\ got' \in Seq(1 .. MaxRequests) /\ Len(got') = Len(got) + 1
      /\ \A i \in 1 .. Len(got) : got'[i] = got[i]
      /\ got'[Len(got) + 1] = pending_[1]
  BY <1>0, <1>2, <1>3, AppendProperties, LenProperties, TypeFacts
<1>5. Pool!TypeOK'
  <2>1. UNCHANGED <<threads, queue, running, ready, pc, min, room, issued, reaped>>
    BY <1>2
  <2>2. Len(pending_') <= Depth
    <3>1. Len(pending_) <= Depth /\ Depth \in Nat
      BY <1>0, NumberFacts DEF Pool!TypeOK
    <3> QED
      BY <1>3, <3>1
  <2> QED
    BY <1>0, <1>3, <1>4, <2>1, <2>2 DEF Pool!TypeOK
<1>6. Handed' = Handed /\ Handed \in Nat
  <2>1. issued' = issued
    BY <1>2
  <2>2. Handed \in Nat
    BY <1>0 DEF Queued
  <2> QED
    <3>1. issued \in Nat /\ Len(got) \in Nat
      BY <1>0, NumberFacts
    <3> QED
      BY <1>3, <1>4, <2>1, <2>2, <3>1 DEF Handed
<1>7. \A i \in 1 .. Len(got') : got'[i] = Handed + i
  <2>1. pending_[1] = Handed + Len(got) + 1
    BY <1>0, <1>3 DEF Queued
  <2> SUFFICES ASSUME NEW i \in 1 .. Len(got') PROVE got'[i] = Handed + i
    OBVIOUS
  <2>2. i \in 1 .. Len(got) \/ i = Len(got) + 1
    BY <1>0, <1>4, TypeFacts
  <2>3. CASE i \in 1 .. Len(got)
    BY <1>0, <1>4, <2>3 DEF Queued
  <2>4. CASE i = Len(got) + 1
    BY <1>0, <1>4, <1>6, <2>1, <2>4, TypeFacts
  <2> QED
    BY <2>2, <2>3, <2>4
<1>8. \A i \in 1 .. Len(pending_') : pending_'[i] = Handed + Len(got') + i
  <2> SUFFICES ASSUME NEW i \in 1 .. Len(pending_') PROVE pending_'[i] = Handed + Len(got') + i
    OBVIOUS
  <2>1. i \in 1 .. Len(pending_) - 1 /\ i + 1 \in 1 .. Len(pending_)
    BY <1>3
  <2>2. pending_[i + 1] = Handed + Len(got) + (i + 1)
    BY <1>0, <2>1 DEF Queued
  <2> QED
    <3>1. Len(got) \in Nat
      BY <1>0, NumberFacts
    <3> QED
      BY <1>3, <1>4, <1>6, <2>1, <2>2, <3>1
<1>9. Queued'
  <2>1. UNCHANGED <<pc, min, room, reaped>>
    BY <1>2
  <2>2. Len(got') <= room
    BY <1>0, <1>1, <1>4, TypeFacts
  <2>3. pc # "idle" /\ pc = "drain" /\ reaped = 1 .. Handed
    BY <1>0 DEF Queued
  <2> QED
    BY <1>6, <1>7, <1>8, <2>1, <2>2, <2>3 DEF Queued
<1>10. Waited'
  <2>1. Owed' = Owed
    BY <1>0, <1>2, <1>3, <1>4, TypeFacts DEF Owed, Pool!Smaller
  <2>2. Owed \in Nat /\ Owed - Len(got) <= Len(pending_)
    BY <1>0, TypeFacts DEF Owed, Pool!Smaller
  <2>3. ASSUME NEW i \in 1 .. Owed' - Len(got') PROVE pending_'[i] \in ready'
    <3>1. i + 1 \in 1 .. Owed - Len(got) /\ i \in 1 .. Len(pending_) - 1
      BY <1>0, <1>3, <1>4, <2>1, <2>2, <2>3, TypeFacts
    <3>2. pending_[i + 1] \in ready
      BY <1>0, <3>1 DEF Waited
    <3> QED
      BY <1>2, <1>3, <3>1, <3>2
  <2> QED
    BY <2>3 DEF Waited
<1> QED
  BY <1>5, <1>9, <1>10 DEF PoolInv

(* The call hands back what it has taken.                                  *)
LEMMA EndReapPoolInv ==
  ASSUME PoolInv, Pool!EndReap
  PROVE  PoolInv'
<1>0. Pool!TypeOK /\ Queued
  BY DEF PoolInv
<1>1. /\ reaped' = reaped \cup Pool!Elements(got) /\ ready' = ready \ Pool!Elements(got)
      /\ got' = <<>> /\ pc' = "idle" /\ min' = 0 /\ room' = 0
      /\ UNCHANGED <<threads, queue, running, pending_, issued>>
  BY DEF Pool!EndReap
<1>2. Pool!Elements(got) = Handed + 1 .. Handed + Len(got)
  <2>1. got \in Seq(1 .. MaxRequests) /\ Handed \in Int /\ \A i \in 1 .. Len(got) : got[i] = Handed + i
    BY <1>0, TypeFacts DEF Queued
  <2> HIDE DEF Handed
  <2> QED
    BY <2>1, ConsecutiveElements, Zenon
<1>3. Handed' = Handed + Len(got) /\ Len(got') = 0
  BY <1>0, <1>1, TypeFacts DEF Handed
<1>4. reaped' = 1 .. Handed'
  <2>1. Handed \in Nat /\ Len(got) \in Nat /\ reaped = 1 .. Handed
    BY <1>0, TypeFacts DEF Queued
  <2>2. PICK h \in Nat, m \in Nat : h = Handed /\ m = Len(got)
    BY <2>1
  <2>3. (1 .. h) \cup (h + 1 .. h + m) = 1 .. h + m
    <3>1. 1 <= h + 1 /\ h <= h + m /\ h + m \in Int
      OBVIOUS
    <3> QED
      BY <3>1, IntervalsMeet
  <2> QED
    BY <1>1, <1>2, <1>3, <2>1, <2>2, <2>3
<1>5. Handed' <= MaxRequests
  <2>1. /\ issued \in Nat /\ issued <= MaxRequests /\ MaxRequests \in Nat
        /\ Len(pending_) \in Nat /\ Len(got) \in Nat
    BY <1>0, NumberFacts
  <2> QED
    BY <1>3, <2>1 DEF Handed
<1>6. reaped' \subseteq 1 .. MaxRequests
  BY <1>0, <1>3, <1>4, <1>5, TypeFacts DEF Queued
<1>7. Pool!TypeOK'
  <2>1. UNCHANGED <<threads, queue, running, pending_, issued>>
    BY <1>1
  <2>2. ready' \subseteq 1 .. MaxRequests /\ got' \in Seq(1 .. MaxRequests)
    <3>1. ready \subseteq 1 .. MaxRequests /\ ready' \subseteq ready
      BY <1>0, <1>1 DEF Pool!TypeOK
    <3>2. <<>> \in Seq(1 .. MaxRequests)
      OBVIOUS
    <3> QED
      BY <1>1, <3>1, <3>2
  <2>3. min' \in 0 .. MaxMin /\ room' \in 0 .. MaxRoom
    BY <1>1, BoundsAssumption
  <2>4. pc' \in {"idle", "wait", "drain"}
    BY <1>1
  <2> QED
    BY <1>0, <1>6, <2>1, <2>2, <2>3, <2>4 DEF Pool!TypeOK
<1>8. Queued'
  BY <1>0, <1>1, <1>3, <1>4, TypeFacts DEF Queued
<1> QED
  BY <1>1, <1>7, <1>8 DEF PoolInv, Waited

(* Every step moves the boundaries between the three intervals.            *)
LEMMA PoolNextInv == PoolInv /\ [Pool!Next]_(Pool!vars) => PoolInv'
<1> SUFFICES ASSUME PoolInv, [Pool!Next]_(Pool!vars) PROVE PoolInv'
  OBVIOUS
<1>0. Pool!TypeOK /\ Queued /\ Waited
  BY DEF PoolInv
<1>1. ASSUME NEW m \in 0 .. MaxMin, NEW size \in 0 .. MaxRoom, Pool!BeginReap(m, size)
      PROVE  PoolInv'
  <2>1. pc = "idle" /\ pc' = "wait" /\ min' = m /\ room' = size /\ got' = <<>> /\ got = <<>>
        /\ UNCHANGED <<threads, queue, running, ready, pending_, issued, reaped>>
    BY <1>0, <1>1 DEF Pool!BeginReap, Queued
  <2>2. Pool!TypeOK'
    BY <1>0, <2>1 DEF Pool!TypeOK
  <2>3. Handed' = Handed /\ Len(got') = 0 /\ Len(got) = 0
    BY <2>1 DEF Handed
  <2>4. 0 <= room'
    BY <2>1, BoundsAssumption
  <2>5. Queued'
    BY <1>0, <2>1, <2>3, <2>4 DEF Queued
  <2> QED
    BY <2>1, <2>2, <2>5 DEF PoolInv, Waited
<1>2. CASE Pool!WaitOldest
  <2>1. pc' = "drain" /\ pc = "wait" /\ got = <<>> /\ Len(got) = 0
        /\ UNCHANGED <<threads, queue, running, ready, pending_, min, room, got, issued, reaped>>
    BY <1>0, <1>2 DEF Pool!WaitOldest, Queued
  <2>2. Pool!TypeOK'
    BY <1>0, <2>1 DEF Pool!TypeOK
  <2>3. Queued'
    BY <1>0, <2>1 DEF Queued, Handed
  <2>4. Owed' - Len(got') = Pool!Clamped
    BY <1>0, <2>1, TypeFacts DEF Owed, Pool!Clamped, Pool!Smaller
  <2>5. \A i \in 1 .. Pool!Clamped : pending_[i] \in ready
    BY <1>2 DEF Pool!WaitOldest, Pool!OldestReady
  <2>6. Waited'
    BY <2>1, <2>4, <2>5 DEF Waited
  <2> QED
    BY <2>2, <2>3, <2>6 DEF PoolInv
<1>3. CASE Pool!WorkerStarts
  <2>1. UNCHANGED <<threads, ready, pending_, pc, min, room, got, issued, reaped>>
        /\ queue # <<>> /\ running' = running \cup {Head(queue)} /\ queue' = Tail(queue)
    BY <1>3 DEF Pool!WorkerStarts
  <2>2. Head(queue) \in 1 .. MaxRequests /\ queue' \in Seq(1 .. MaxRequests)
    BY <1>0, <2>1, TypeFacts, HeadTailProperties, EmptySeq, LenProperties
  <2>3. Pool!TypeOK'
    BY <1>0, <2>1, <2>2 DEF Pool!TypeOK
  <2> QED
    BY <1>0, <2>1, <2>3 DEF PoolInv, Queued, Handed, Waited, Owed
<1>4. ASSUME NEW r \in running, Pool!WorkerFinishes(r) PROVE PoolInv'
  <2>1. UNCHANGED <<threads, queue, pending_, pc, min, room, got, issued, reaped>>
        /\ running' = running \ {r} /\ ready' = ready \cup {r}
    BY <1>4 DEF Pool!WorkerFinishes
  <2>2. Pool!TypeOK'
    BY <1>0, <2>1 DEF Pool!TypeOK
  <2>3. Queued'
    BY <1>0, <2>1 DEF Queued, Handed
  <2>4. Waited'
    BY <1>0, <2>1 DEF Waited, Owed
  <2> QED
    BY <2>2, <2>3, <2>4 DEF PoolInv
<1>5. CASE UNCHANGED Pool!vars
  BY <1>0, <1>5 DEF Pool!vars, PoolInv, Pool!TypeOK, Queued, Handed, Waited, Owed
<1> QED
  BY <1>1, <1>2, <1>3, <1>4, <1>5, SubmitPoolInv, DrainPoolInv, EndReapPoolInv
  DEF Pool!Next, Pool!Caller, Pool!Reaping, Pool!Workers

-----------------------------------------------------------------------------
(* The contract.                                                            *)

\* What the contract calls in flight.
Pending == Pool!Elements(pending_) \cup Pool!Elements(got)

(* What the contract calls pending is the last two of the intervals.       *)
LEMMA PendingFacts ==
  ASSUME Pool!TypeOK, Queued
  PROVE  /\ Pool!Elements(got) = Handed + 1 .. Handed + Len(got)
         /\ Pending = Handed + 1 .. issued
         /\ IsFiniteSet(Pending)
         /\ Cardinality(Pending) = Len(pending_) + Len(got)
         /\ Cardinality(Pool!Elements(got)) = Len(got)
<1>1. /\ Handed \in Nat /\ Len(got) \in Nat /\ Len(pending_) \in Nat
      /\ Handed + Len(got) + Len(pending_) = issued
  <2>1. issued \in Nat /\ Len(got) \in Nat /\ Len(pending_) \in Nat
    BY NumberFacts
  <2> QED
    BY <2>1 DEF Queued, Handed
<1> HIDE DEF Handed
<1>2. Pool!Elements(got) = Handed + 1 .. Handed + Len(got)
  <2>1. got \in Seq(1 .. MaxRequests) /\ Handed \in Int /\ \A i \in 1 .. Len(got) : got[i] = Handed + i
    BY <1>1, TypeFacts DEF Queued
  <2> QED
    BY <2>1, ConsecutiveElements, Zenon
<1>3. Pool!Elements(pending_) = (Handed + Len(got)) + 1 .. (Handed + Len(got)) + Len(pending_)
  <2>1. Handed + Len(got) \in Int
    BY <1>1
  <2>2. \A i \in 1 .. Len(pending_) : pending_[i] = (Handed + Len(got)) + i
    BY DEF Queued
  <2> QED
    BY <2>1, <2>2, TypeFacts, ConsecutiveElements
<1>4. Pending = Handed + 1 .. issued
  BY <1>1, <1>2, <1>3 DEF Pending
<1>5. IsFiniteSet(Pending) /\ Cardinality(Pending) = Len(pending_) + Len(got)
  <2>1. Pending = Handed + 1 .. Handed + (Len(pending_) + Len(got))
    BY <1>1, <1>4
  <2>2. Handed \in Int /\ Len(pending_) + Len(got) \in Nat
    BY <1>1
  <2> QED
    BY <2>1, <2>2, IntervalFacts
<1>6. Cardinality(Pool!Elements(got)) = Len(got)
  <2>1. Handed \in Int
    BY <1>1
  <2> QED
    BY <1>1, <1>2, <2>1, IntervalFacts
<1> QED
  BY <1>2, <1>4, <1>5, <1>6

(* What is taken from the front stays in flight until the call returns.     *)
LEMMA DrainKeeps ==
  ASSUME Pool!TypeOK, Queued, Pool!DrainOne
  PROVE  Handed' = Handed /\ issued' = issued
<1>1. pending_ # <<>> /\ got' = Append(got, pending_[1]) /\ pending_' = Tail(pending_)
      /\ issued' = issued
  BY DEF Pool!DrainOne, Pool!MoreReady
<1>2. Len(pending_') = Len(pending_) - 1 /\ pending_[1] \in 1 .. MaxRequests
  BY <1>1, HeadTailProperties, EmptySeq, LenProperties, TypeFacts
<1>3. Len(got') = Len(got) + 1
  BY <1>1, <1>2, AppendProperties, LenProperties, TypeFacts
<1>4. issued' = issued
  BY <1>1
<1>5. Len(pending_) \in Nat /\ Len(got) \in Nat /\ issued \in Nat
  BY TypeFacts
<1> QED
  BY <1>2, <1>3, <1>4, <1>5 DEF Handed

(* The contract counts with the same Cardinality.                          *)
LEMMA SameCardinality ==
  ASSUME NEW S
  PROVE  Pool!Contract!Cardinality(S) = Cardinality(S)
BY DEF Cardinality, Pool!Contract!Cardinality, IsFiniteSet, Pool!Contract!IsFiniteSet

(* The initial states are the contract's.                                  *)
LEMMA PoolInitContract == Pool!Init => Pool!Contract!Init
<1> SUFFICES ASSUME Pool!Init PROVE Pool!Contract!Init
  OBVIOUS
<1>1. Pool!Elements(<<>>) = {}
  BY DEF Pool!Elements
<1> QED
  BY <1>1 DEF Pool!Init, Pool!Contract!Init, Pool!Contract!NoCall

(* Every step is a step of the contract, or changes nothing it sees.       *)
LEMMA PoolNextContract ==
  PoolInv /\ PoolInv' /\ [Pool!Next]_(Pool!vars) => [Pool!Contract!Next]_(Pool!Contract!vars)
<1> SUFFICES ASSUME PoolInv, PoolInv', [Pool!Next]_(Pool!vars),
                    ~UNCHANGED Pool!Contract!vars
             PROVE  Pool!Contract!Next
  OBVIOUS
<1>0. Pool!TypeOK /\ Queued /\ Waited /\ Pool!TypeOK' /\ Queued'
  BY DEF PoolInv
<1>1. /\ Handed \in Nat /\ Pending = Handed + 1 .. issued
      /\ Cardinality(Pending) = Len(pending_) + Len(got)
      /\ Pool!Elements(got) = Handed + 1 .. Handed + Len(got)
      /\ Cardinality(Pool!Elements(got)) = Len(got)
      /\ reaped = 1 .. Handed
  BY <1>0, PendingFacts DEF Queued
<1>2. /\ Handed' \in Nat /\ Pending' = Handed' + 1 .. issued'
      /\ Cardinality(Pending') = Len(pending_') + Len(got')
      /\ reaped' = 1 .. Handed'
  <2>1. (Pool!TypeOK /\ Queued => /\ Handed \in Nat /\ Pending = Handed + 1 .. issued
                             /\ Cardinality(Pending) = Len(pending_) + Len(got)
                             /\ reaped = 1 .. Handed)'
    BY PendingFacts, PTL DEF Queued
  <2> QED
    BY <1>0, <2>1
<1>3. /\ Len(pending_) \in Nat /\ Len(got) \in Nat /\ issued \in Nat /\ Depth \in Nat
      /\ min \in Nat /\ room \in Nat
      /\ Handed + Len(got) + Len(pending_) = issued
  BY <1>0, TypeFacts DEF Handed
<1>4. ASSUME NEW n \in 1 .. MaxRequests, Pool!Submit(n) PROVE Pool!Contract!Next
  <2>1. /\ pc = "idle" /\ Len(pending_) + n <= Depth /\ issued' = issued + n
        /\ UNCHANGED <<pc, min, room, got, reaped>>
    BY <1>4 DEF Pool!Submit, Pool!Fits
  <2>2. got = <<>> /\ Len(got) = 0 /\ Len(got') = 0
    BY <1>0, <2>1 DEF Queued
  <2>3. pending_' = pending_ \o [i \in 1 .. n |-> issued + i]
    BY <1>4 DEF Pool!Submit
  <2>4. Len(pending_') = Len(pending_) + n
    <3>1. pending_ \in Seq(Nat)
      BY <1>0, TypeFacts
    <3>2. n \in Nat /\ \A i \in 1 .. n : issued + i \in Nat
      BY <1>3
    <3>3. [i \in 1 .. n |-> issued + i] \in Seq(Nat) /\ Len([i \in 1 .. n |-> issued + i]) = n
      BY <3>2
    <3> QED
      BY <2>3, <3>1, <3>3, ConcatProperties
  <2>5. Handed' = Handed
    BY <1>1, <1>3, <2>1, <2>2, <2>4 DEF Handed
  <2>6. /\ Pending' \ Pending = issued + 1 .. issued'
        /\ Pending' = Pending \cup (Pending' \ Pending)
    <3>1. PICK h \in Nat, m \in Nat, l \in Nat : h = Handed /\ m = issued /\ l = issued'
      BY <1>1, <1>3, <2>1
    <3>2. h + 1 <= m + 1 /\ m <= l
      BY <1>3, <2>1, <3>1
    <3>3. /\ (h + 1 .. m) \cup (m + 1 .. l) = h + 1 .. l
          /\ (h + 1 .. l) \ (h + 1 .. m) = m + 1 .. l
      BY <3>2, IntervalsMeet
    <3>4. Pending = h + 1 .. m /\ Pending' = h + 1 .. l
      BY <1>1, <1>2, <2>5, <3>1
    <3> QED
      BY <3>1, <3>3, <3>4
  <2>7. Pool!Contract!Cardinality(Pending \cup (Pending' \ Pending)) <= Depth
    <3>1. n \in Nat
      OBVIOUS
    <3>2. Cardinality(Pending') <= Depth
      BY <1>2, <1>3, <2>1, <2>2, <2>4, <3>1
    <3>3. Pending \cup (Pending' \ Pending) = Pending'
      BY <2>6
    <3> QED
      BY <3>2, <3>3, SameCardinality
  <2>8. (Pending' \ Pending) \cap (Pending \cup reaped) = {}
    BY <1>1, <1>3, <2>6
  <2>9. /\ ~[min |-> min, room |-> room, active |-> pc # "idle"].active
        /\ UNCHANGED [min |-> min, room |-> room, active |-> pc # "idle"]
    BY <2>1
  <2>10. Pool!Contract!Submit(Pending' \ Pending)
    BY <2>1, <2>6, <2>7, <2>8, <2>9, Zenon DEF Pool!Contract!Submit, Pending
  <2> QED
    BY <2>10 DEF Pool!Contract!Next, Pool!Contract!Between, Pending
<1>5. CASE \E m \in 0 .. MaxMin, size \in 0 .. MaxRoom : Pool!BeginReap(m, size)
  <2>1. pc = "idle" /\ pc' = "wait" /\ got' = <<>> /\ got = <<>>
        /\ UNCHANGED <<pending_, reaped>>
    BY <1>0, <1>5 DEF Pool!BeginReap, Queued
  <2> QED
    BY <2>1 DEF Pool!Contract!Next, Pool!Contract!Between, Pool!Contract!BeginReap
<1>6. CASE Pool!DrainOne
  <2>1. Handed' = Handed /\ issued' = issued
    BY <1>0, <1>6, DrainKeeps
  <2>2. Pending' = Pending /\ UNCHANGED <<reaped, pc, min, room>>
    BY <1>1, <1>2, <1>6, <2>1 DEF Pool!DrainOne
  <2> QED
    BY <2>2 DEF Pool!Contract!vars, Pending
<1>7. CASE Pool!EndReap
  <2>1. /\ pc = "drain" /\ ~Pool!MoreReady /\ got' = <<>> /\ pc' = "idle" /\ min' = 0 /\ room' = 0
        /\ reaped' = reaped \cup Pool!Elements(got) /\ UNCHANGED <<pending_, issued>>
    BY <1>7 DEF Pool!EndReap
  <2>2. Handed' = Handed + Len(got)
    BY <1>1, <1>3, <2>1 DEF Handed
  <2>3. reaped' \ reaped = Pool!Elements(got)
    BY <1>1, <2>1
  <2>4. Pending' = Pending \ Pool!Elements(got) /\ Pool!Elements(got) \subseteq Pending
    <3>1. PICK h \in Nat, g \in Nat, m \in Nat : h = Handed /\ g = Len(got) /\ m = issued
      BY <1>1, <1>3, Zenon
    <3>2. PICK k \in Nat : k = h + g
      BY <3>1
    <3>3. /\ Pending = h + 1 .. m /\ Pending' = k + 1 .. m
          /\ Pool!Elements(got) = h + 1 .. k
      BY <1>1, <1>2, <2>1, <2>2, <3>1, <3>2
    <3> QED
      <4>1. k <= m
        BY <1>3, <3>1, <3>2
      <4>2. h + 1 .. k \subseteq h + 1 .. m /\ k + 1 .. m = (h + 1 .. m) \ (h + 1 .. k)
        BY <3>2, <4>1
      <4> QED
        BY <3>3, <4>2, Zenon
  <2>5. Len(got) <= room
    BY <1>0 DEF Queued
  <2>6. Len(got) >= Owed
    <3>1. Len(got) >= room \/ pending_ = <<>> \/ ~(pending_[1] \in ready)
      BY <1>3, <2>1 DEF Pool!MoreReady
    <3>2. CASE Len(got) >= room
      BY <1>3, <3>2 DEF Owed, Pool!Smaller
    <3>3. CASE pending_ = <<>>
      BY <1>3, <3>3 DEF Owed, Pool!Smaller
    <3>4. CASE ~(pending_[1] \in ready)
      <4>1. ~(1 \in 1 .. Owed - Len(got))
        BY <1>0, <2>1, <3>4 DEF Waited
      <4>2. Owed \in Nat
        BY <1>3 DEF Owed, Pool!Smaller
      <4> QED
        BY <1>3, <4>1, <4>2
    <3> QED
      BY <3>1, <3>2, <3>3, <3>4
  <2>7. Owed = Pool!Contract!Owed
    <3>1. Pool!Contract!Wanted = Pool!Smaller(min, room)
      BY DEF Pool!Contract!Wanted, Pool!Contract!Lowest, Pool!Smaller
    <3>2. Pool!Contract!Cardinality(Pending) = Len(pending_) + Len(got)
      BY <1>1, SameCardinality
    <3>3. Pool!Contract!Owed = Pool!Smaller(Pool!Contract!Wanted, Pool!Contract!Cardinality(Pending))
      BY DEF Pool!Contract!Owed, Pool!Contract!Lowest, Pool!Smaller, Pending
    <3> QED
      BY <3>1, <3>2, <3>3 DEF Owed
  <2>8. /\ [min |-> min, room |-> room, active |-> pc # "idle"].active
        /\ Pool!Contract!Cardinality(Pool!Elements(got)) <= [min |-> min, room |-> room, active |-> pc # "idle"].room
        /\ Pool!Contract!Cardinality(Pool!Elements(got)) >= Pool!Contract!Owed
        /\ [min |-> min, room |-> room, active |-> pc # "idle"]'
             = [min |-> 0, room |-> 0, active |-> FALSE]
    BY <1>1, <2>1, <2>5, <2>6, <2>7, SameCardinality
  <2>9. Pool!Contract!EndReap(Pool!Elements(got), Pool!Contract!Owed)
    BY <2>1, <2>4, <2>8, Zenon DEF Pool!Contract!EndReap, Pool!Contract!NoCall, Pending
  <2> QED
    BY <2>3, <2>9 DEF Pool!Contract!Next
<1>8. CASE Pool!WaitOldest \/ Pool!Workers \/ UNCHANGED Pool!vars
  <2>1. UNCHANGED <<pending_, got, reaped, min, room>> /\ (pc # "idle")' = (pc # "idle")
    BY <1>8 DEF Pool!WaitOldest, Pool!Workers, Pool!WorkerStarts, Pool!WorkerFinishes, Pool!vars
  <2> QED
    BY <2>1 DEF Pool!Contract!vars
<1> QED
  BY <1>4, <1>5, <1>6, <1>7, <1>8 DEF Pool!Next, Pool!Caller, Pool!Reaping

-----------------------------------------------------------------------------
(* The backend that was opened.                                             *)

U == INSTANCE UringBackendProofs

(* The ring's constants are the pool's.                                    *)
LEMMA RingAssumptions ==
  U!DepthAssumption /\ U!ThreadsAssumption /\ U!BoundsAssumption
BY DepthAssumption, ThreadsAssumption, BoundsAssumption

(* The ring of this module is the one UringBackendProofs is about.         *)
LEMMA SameRing ==
  /\ (Ring!Init <=> U!Init)
  /\ (Ring!Next <=> U!Next)
  /\ ringVars' = ringVars /\ UNCHANGED <<pc, min, room, got, issued, reaped, outcome>>
       => UNCHANGED U!vars
  /\ (Ring!InFlightExact <=> U!InFlightExact)
  /\ (Ring!TypeOK <=> U!TypeOK)
<1> USE DEF Ring!Smaller, U!Smaller, Ring!Elements, U!Elements, Ring!Drop, U!Drop
<1>1. (Ring!Init <=> U!Init)
  BY DEF Ring!Init, U!Init
<1>2. \A n, taken : Ring!SubmitTaking(n, taken) <=> U!SubmitTaking(n, taken)
  BY DEF Ring!SubmitTaking, U!SubmitTaking, Ring!Fits, U!Fits, Ring!NewRequests, U!NewRequests
<1>3. \A n : (Ring!Submit(n) <=> U!Submit(n)) /\ (Ring!SubmitFaulty(n) <=> U!SubmitFaulty(n))
  BY <1>2 DEF Ring!Submit, U!Submit, Ring!SubmitFaulty, U!SubmitFaulty
<1>4. \A m, size : Ring!BeginReap(m, size) <=> U!BeginReap(m, size)
  BY DEF Ring!BeginReap, U!BeginReap
<1>5. (Ring!MustWait <=> U!MustWait) /\ Ring!Peeked = U!Peeked
  BY DEF Ring!MustWait, U!MustWait, Ring!Clamped, U!Clamped, Ring!Peeked, U!Peeked,
     Ring!PeekLimit, U!PeekLimit
<1>6. (Ring!WaitCqe <=> U!WaitCqe) /\ (Ring!WaitFails <=> U!WaitFails)
  BY <1>5 DEF Ring!WaitCqe, U!WaitCqe, Ring!WaitFails, U!WaitFails
<1>7. (Ring!EndReap <=> U!EndReap)
  BY <1>5 DEF Ring!EndReap, U!EndReap, Ring!InFlightAfter, U!InFlightAfter
<1>8. (Ring!Kernel <=> U!Kernel)
  BY DEF Ring!Kernel, U!Kernel, Ring!KernelCompletes, U!KernelCompletes
<1>9. (Ring!Next <=> U!Next)
  BY <1>3, <1>4, <1>6, <1>7, <1>8
  DEF Ring!Next, U!Next, Ring!Caller, U!Caller, Ring!Reaping, U!Reaping
<1>10. ringVars' = ringVars /\ UNCHANGED <<pc, min, room, got, issued, reaped, outcome>>
         => UNCHANGED U!vars
  BY DEF ringVars, U!vars
<1>11. (Ring!InFlightExact <=> U!InFlightExact)
  BY DEF Ring!InFlightExact, U!InFlightExact, Ring!Cardinality, U!Cardinality,
     Ring!IsFiniteSet, U!IsFiniteSet
<1>12. (Ring!TypeOK <=> U!TypeOK)
  BY DEF Ring!TypeOK, U!TypeOK
<1> QED
  BY <1>1, <1>9, <1>10, <1>11, <1>12

\* The backend that was opened is where its own proofs say; a pool's reap
\* does not fail.
Opened ==
  /\ kind \in {"io_uring", "thread"}
  /\ kind = "io_uring" => U!IInv
  /\ kind = "thread" => PoolInv /\ outcome = "ok"

(* A step is one of the backend that was opened.                           *)
LEMMA OpenedStep ==
  ASSUME Opened, [Next]_vars
  PROVE  /\ kind' = kind
         /\ kind = "io_uring" => U!IInv /\ [U!Next]_(U!vars)
         /\ kind = "thread" => PoolInv /\ [Pool!Next]_(Pool!vars) /\ UNCHANGED outcome
<1>1. CASE InRing(Ring!Next)
  BY <1>1, SameRing DEF InRing, Opened
<1>2. CASE InPool(Pool!Next)
  BY <1>2 DEF InPool, Opened
<1>3. CASE UNCHANGED vars
  <2>1. UNCHANGED U!vars /\ UNCHANGED Pool!vars /\ UNCHANGED <<kind, outcome>>
    BY <1>3, SameRing DEF vars, ringVars, poolVars, Pool!vars
  <2> QED
    BY <2>1 DEF Opened
<1> QED
  BY <1>1, <1>2, <1>3 DEF Next

(* The invariants of the two hold of the one that was opened.              *)
LEMMA OpenedInvariance == Spec => []Opened
<1>1. Init => Opened
  <2> SUFFICES ASSUME Init PROVE Opened
    OBVIOUS
  <2>1. U!Init /\ Pool!Init /\ kind \in {"io_uring", "thread"}
    BY SameRing DEF Init
  <2>2. U!IInv
    BY <2>1, U!InitIInv, RingAssumptions
  <2>3. PoolInv /\ outcome = "ok"
    BY <2>1, PoolInitInv DEF U!Init
  <2> QED
    BY <2>1, <2>2, <2>3 DEF Opened
<1>2. Opened /\ [Next]_vars => Opened'
  <2> SUFFICES ASSUME Opened, [Next]_vars PROVE Opened'
    OBVIOUS
  <2>1. kind' = kind /\ kind \in {"io_uring", "thread"}
    BY OpenedStep DEF Opened
  <2>2. CASE kind = "io_uring"
    <3>1. U!IInv'
      BY <2>2, OpenedStep, U!NextIInv, RingAssumptions
    <3> QED
      BY <2>1, <2>2, <3>1 DEF Opened
  <2>3. CASE kind = "thread"
    <3>1. PoolInv' /\ outcome' = "ok"
      BY <2>3, OpenedStep, PoolNextInv DEF Opened
    <3> QED
      BY <2>1, <2>3, <3>1 DEF Opened
  <2> QED
    BY <2>1, <2>2, <2>3
<1> QED
  BY <1>1, <1>2, PTL DEF Spec

\* What the contract sees of either backend, as this module states it.
InFlight ==
  IF kind = "io_uring" THEN Ring!Held \cup Elements(got)
                       ELSE Elements(pending_) \cup Elements(got)
LostHere == IF kind = "io_uring" THEN Ring!Lost ELSE {}
Call == [min |-> min, room |-> room, active |-> pc # "idle"]

(* It is what the ring's own contract sees of the ring ...                 *)
LEMMA RingView ==
  ASSUME kind = "io_uring", U!TypeOK
  PROVE  /\ InFlight = U!Held \cup U!Elements(got)
         /\ LostHere = U!Lost
         /\ Call = [min |-> min, room |-> room, active |-> pc = "wait"]
<1>1. InFlight = U!Held \cup U!Elements(got)
  BY DEF InFlight, Ring!Held, U!Held, Ring!Elements, U!Elements, Elements
<1>2. LostHere = U!Lost
  BY DEF LostHere, Ring!Lost, U!Lost, Ring!Held, U!Held, Ring!Elements, U!Elements
<1>3. (pc # "idle") = (pc = "wait")
  BY DEF U!TypeOK
<1>4. Call = [min |-> min, room |-> room, active |-> pc = "wait"]
  BY <1>3 DEF Call
<1> QED
  BY <1>1, <1>2, <1>4

(* ... and the pool's of the pool.                                         *)
LEMMA PoolView ==
  ASSUME kind = "thread", outcome = "ok"
  PROVE  /\ InFlight = Pool!Elements(pending_) \cup Pool!Elements(got)
         /\ LostHere = {}
BY DEF InFlight, LostHere, Pool!Elements, Elements

(* A step that is one of the ring's contract is one of this contract.       *)
LEMMA RingContract ==
  ASSUME kind = "io_uring", kind' = kind, U!TypeOK, U!TypeOK'
  PROVE  /\ U!Contract!Next => Contract!Next
         /\ U!Contract!EarlyNext => Contract!EarlyNext
         /\ UNCHANGED U!Contract!vars => UNCHANGED Contract!vars
<1>1. /\ InFlight = U!Held \cup U!Elements(got) /\ LostHere = U!Lost
      /\ Call = [min |-> min, room |-> room, active |-> pc = "wait"]
  BY RingView
<1>2. /\ InFlight' = (U!Held \cup U!Elements(got))' /\ LostHere' = U!Lost'
      /\ Call' = [min |-> min, room |-> room, active |-> pc = "wait"]'
  <2>1. kind' = "io_uring" /\ U!TypeOK'
    OBVIOUS
  <2>2. InFlight' = (U!Held \cup U!Elements(got))'
    BY <2>1 DEF InFlight, Ring!Held, U!Held, Ring!Elements, U!Elements, Elements
  <2>3. LostHere' = U!Lost'
    BY <2>1 DEF LostHere, Ring!Lost, U!Lost, Ring!Held, U!Held, Ring!Elements, U!Elements
  <2>4. (pc' # "idle") = (pc' = "wait")
    BY <2>1 DEF U!TypeOK
  <2>5. Call' = [min |-> min, room |-> room, active |-> pc = "wait"]'
    BY <2>4 DEF Call
  <2> QED
    BY <2>2, <2>3, <2>5
<1>3. \A S : Contract!Cardinality(S) = U!Contract!Cardinality(S)
  BY DEF Contract!Cardinality, U!Contract!Cardinality, Contract!IsFiniteSet,
     U!Contract!IsFiniteSet
<1>4. Contract!Owed = U!Contract!Owed /\ Contract!OwedEarly = U!Contract!OwedEarly
  <2>1. Contract!Cardinality(InFlight) = U!Contract!Cardinality(U!Held \cup U!Elements(got))
    BY <1>1, <1>3
  <2>2. Contract!Wanted = U!Contract!Wanted
    BY <1>1 DEF Contract!Wanted, U!Contract!Wanted, Contract!Lowest, U!Contract!Lowest, Call
  <2> QED
    BY <2>1, <2>2
    DEF Contract!Owed, U!Contract!Owed, Contract!OwedEarly, U!Contract!OwedEarly,
        Contract!Lowest, U!Contract!Lowest, InFlight
<1>5. \A S : U!Contract!Submit(S) => Contract!Submit(S)
  BY <1>1, <1>2, <1>3 DEF Contract!Submit, U!Contract!Submit, InFlight, LostHere, Call
<1>6. U!Contract!BeginReap => Contract!BeginReap
  BY <1>1, <1>2 DEF Contract!BeginReap, U!Contract!BeginReap, InFlight, LostHere, Call
<1>7. \A S, n : U!Contract!EndReap(S, n) => Contract!EndReap(S, n)
  BY <1>1, <1>2, <1>3
  DEF Contract!EndReap, U!Contract!EndReap, Contract!NoCall, U!Contract!NoCall, InFlight,
      LostHere, Call
<1>8. \A S, n : U!Contract!FailReap(S, n) => Contract!FailReap(S, n)
  BY <1>1, <1>2, <1>3
  DEF Contract!FailReap, U!Contract!FailReap, Contract!NoCall, U!Contract!NoCall, InFlight,
      LostHere, Call
<1>9. U!Contract!Between => Contract!Between
  BY <1>1, <1>2, <1>5, <1>6 DEF Contract!Between, U!Contract!Between, InFlight
<1>10. U!Contract!Next => Contract!Next
  BY <1>4, <1>7, <1>8, <1>9 DEF Contract!Next, U!Contract!Next
<1>11. U!Contract!EarlyNext => Contract!EarlyNext
  BY <1>1, <1>2, <1>4, <1>7, <1>8, <1>9
  DEF Contract!EarlyNext, U!Contract!EarlyNext, LostHere
<1>12. UNCHANGED U!Contract!vars => UNCHANGED Contract!vars
  BY <1>1, <1>2 DEF Contract!vars, U!Contract!vars, InFlight, LostHere, Call
<1> QED
  BY <1>10, <1>11, <1>12

(* A step that is one of the pool's contract is one of this contract.       *)
LEMMA PoolContract ==
  ASSUME kind = "thread", kind' = kind, outcome = "ok", outcome' = outcome
  PROVE  /\ Pool!Contract!Next => Contract!Next
         /\ UNCHANGED Pool!Contract!vars => UNCHANGED Contract!vars
<1>1. InFlight = Pool!Elements(pending_) \cup Pool!Elements(got) /\ LostHere = {}
  BY PoolView
<1>2. InFlight' = (Pool!Elements(pending_) \cup Pool!Elements(got))' /\ LostHere' = {}
  BY DEF InFlight, LostHere, Pool!Elements, Elements
<1>3. \A S : Contract!Cardinality(S) = Pool!Contract!Cardinality(S)
  BY DEF Contract!Cardinality, Pool!Contract!Cardinality, Contract!IsFiniteSet,
     Pool!Contract!IsFiniteSet
<1>4. Contract!Owed = Pool!Contract!Owed
  <2>1. Contract!Cardinality(InFlight) = Pool!Contract!Cardinality(Pool!Elements(pending_) \cup Pool!Elements(got))
    BY <1>1, <1>3
  <2>2. Contract!Wanted = Pool!Contract!Wanted
    BY <1>1 DEF Contract!Wanted, Pool!Contract!Wanted, Contract!Lowest, Pool!Contract!Lowest, Call
  <2> QED
    BY <2>1, <2>2
    DEF Contract!Owed, Pool!Contract!Owed, Contract!Lowest, Pool!Contract!Lowest, InFlight
<1>5. \A S : Pool!Contract!Submit(S) => Contract!Submit(S)
  BY <1>1, <1>2, <1>3 DEF Contract!Submit, Pool!Contract!Submit, InFlight, LostHere
<1>6. Pool!Contract!BeginReap => Contract!BeginReap
  BY <1>1, <1>2 DEF Contract!BeginReap, Pool!Contract!BeginReap, InFlight, LostHere
<1>7. \A S, n : Pool!Contract!EndReap(S, n) => Contract!EndReap(S, n)
  BY <1>1, <1>2, <1>3
  DEF Contract!EndReap, Pool!Contract!EndReap, Contract!NoCall, Pool!Contract!NoCall, InFlight,
      LostHere
<1>8. \A n : ~Pool!Contract!FailReap({}, n)
  BY DEF Pool!Contract!FailReap
<1>9. Pool!Contract!Between => Contract!Between
  BY <1>1, <1>2, <1>5, <1>6 DEF Contract!Between, Pool!Contract!Between, InFlight
<1>10. Pool!Contract!Next => Contract!Next
  BY <1>4, <1>7, <1>8, <1>9 DEF Contract!Next, Pool!Contract!Next
<1>11. UNCHANGED Pool!Contract!vars => UNCHANGED Contract!vars
  BY <1>1, <1>2 DEF Contract!vars, Pool!Contract!vars, InFlight, LostHere
<1> QED
  BY <1>10, <1>11

-----------------------------------------------------------------------------
(* Every reachable state of the backend that was opened is well typed:      *)
(* neither in_flight_ nor pending_ ever passes the queue depth, and         *)
(* in_flight_ never goes below 0, whatever submit and reap are called with  *)
(* and whatever the kernel does with a submission.                          *)
THEOREM TypeInvariant ==
  Spec => [](IF kind = "io_uring" THEN Ring!TypeOK ELSE Pool!TypeOK)
<1>1. Opened => IF kind = "io_uring" THEN Ring!TypeOK ELSE Pool!TypeOK
  BY SameRing DEF Opened, PoolInv, U!IInv
<1> QED
  BY <1>1, OpenedInvariance, PTL

(* in_flight_ is what the ring holds, after submissions that failed or were *)
(* taken in part and waits that failed: no completion is counted twice and  *)
(* none is forgotten.                                                       *)
THEOREM CountExact == Spec => []InFlightExact
<1>1. Opened => InFlightExact
  BY SameRing DEF Opened, U!IInv, InFlightExact
<1> QED
  BY <1>1, OpenedInvariance, PTL

(* The pool's reap hands completions back in the order of submission, for   *)
(* every number of workers and every order in which their preads end.       *)
THEOREM SubmissionOrder == Spec => []InSubmissionOrder
<1>1. PoolInv => Pool!InSubmissionOrder
  <2> SUFFICES ASSUME Pool!TypeOK, Queued PROVE Pool!InSubmissionOrder
    BY DEF PoolInv
  <2>1. Handed \in Nat /\ Len(got) \in Nat /\ reaped = 1 .. Handed
        /\ Pool!Elements(got) = Handed + 1 .. Handed + Len(got)
    BY PendingFacts, TypeFacts DEF Queued
  <2>2. reaped \cup Pool!Elements(got) = 1 .. Handed + Len(got)
    BY <2>1
  <2> QED
    BY <2>1, <2>2 DEF Pool!InSubmissionOrder
<1>2. Opened => InSubmissionOrder
  BY <1>1 DEF Opened, InSubmissionOrder
<1> QED
  BY <1>2, OpenedInvariance, PTL

(* Whichever backend was opened, a reap with a `min' of 0 or 1 keeps the    *)
(* contract of Backend, and the pool's keeps it for every `min': nothing is *)
(* handed back twice or lost, no success has fewer completions than it      *)
(* owes or more than fit.  With a larger `min' the ring's reap succeeds     *)
(* with no less than half of what is in flight, and one that fails loses    *)
(* fewer than that.                                                         *)
THEOREM KeepsContract == Spec => ImplementsBackend
<1> DEFINE Kept == IF kind = "thread" \/ min <= 1 THEN Contract!Next ELSE Contract!EarlyNext
<1>1. Init => Contract!Init
  <2> SUFFICES ASSUME Init PROVE Contract!Init
    OBVIOUS
  <2>1. Ring!Init /\ Pool!Init /\ kind \in {"io_uring", "thread"}
    BY DEF Init
  <2>2. Elements(<<>>) = {} /\ Ring!Elements(<<>>) = {}
    BY DEF Elements, Ring!Elements
  <2>3. InFlight = {} /\ LostHere = {}
    BY <2>1, <2>2 DEF Ring!Init, Pool!Init, InFlight, LostHere, Ring!Held, Ring!Lost
  <2> QED
    BY <2>1, <2>3 DEF Ring!Init, Contract!Init, Contract!NoCall, InFlight, LostHere
<1>2. Opened /\ Opened' /\ [Next]_vars => [Kept]_(Contract!vars)
  <2> SUFFICES ASSUME Opened, Opened', [Next]_vars PROVE [Kept]_(Contract!vars)
    OBVIOUS
  <2>1. kind' = kind /\ kind \in {"io_uring", "thread"}
    BY OpenedStep DEF Opened
  <2>2. CASE kind = "io_uring"
    <3>1. U!IInv /\ U!TypeOK /\ U!TypeOK' /\ [U!Next]_(U!vars)
      BY <2>1, <2>2, OpenedStep DEF Opened, U!IInv
    <3>2. [IF min <= 1 THEN U!Contract!Next ELSE U!Contract!EarlyNext]_(U!Contract!vars)
      BY <3>1, U!NextContract, RingAssumptions
    <3> QED
      BY <2>1, <2>2, <3>1, <3>2, RingContract
  <2>3. CASE kind = "thread"
    <3>1. PoolInv /\ PoolInv' /\ [Pool!Next]_(Pool!vars) /\ outcome = "ok" /\ outcome' = outcome
      BY <2>1, <2>3, OpenedStep DEF Opened
    <3>2. [Pool!Contract!Next]_(Pool!Contract!vars)
      BY <3>1, PoolNextContract
    <3> QED
      BY <2>1, <2>3, <3>1, <3>2, PoolContract
  <2> QED
    BY <2>1, <2>2, <2>3
<1> QED
  BY <1>1, <1>2, OpenedInvariance, PTL DEF Spec, ImplementsBackend
=============================================================================
