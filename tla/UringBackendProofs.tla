------------------------- MODULE UringBackendProofs -------------------------
(***************************************************************************)
(* Proofs that the io_uring backend's own count agrees with the ring, also *)
(* after submissions that failed or were taken in part and after waits     *)
(* that failed; that it keeps the contract of Backend in every reap with a *)
(* `min' of 0 or 1; and what is left of the contract in the others: for    *)
(* every queue depth and every order in which the kernel completes.        *)
(* The inductive invariant: a request is in one place at a time.           *)
(***************************************************************************)
EXTENDS UringBackend, SequenceTheorems, FiniteSetTheorems, TLAPS

Distinct(s) == \A i, j \in 1 .. Len(s) : s[i] = s[j] => i = j

Apart ==
  /\ Distinct(sq) /\ Distinct(cq) /\ Distinct(got)
  /\ Elements(sq) \cap kernel = {}
  /\ Elements(cq) \cap (Elements(sq) \cup kernel) = {}
  /\ Elements(got) \cap Held = {}
  /\ reaped \cap (Held \cup Elements(got)) = {}
  /\ Held \cup Elements(got) \cup reaped \subseteq 1 .. issued

Call ==
  /\ pc = "idle" => got = <<>> /\ min = 0 /\ room = 0
  /\ Len(got) <= Clamped

IInv == TypeOK /\ InFlightExact /\ Apart /\ Call

-----------------------------------------------------------------------------
(* Queues without repetitions.                                              *)

(* The elements of a queue.                                                *)
LEMMA ElementFacts ==
  ASSUME NEW S, NEW s \in Seq(S)
  PROVE  /\ Len(s) \in Nat /\ Elements(s) = {s[i] : i \in 1 .. Len(s)}
         /\ Elements(s) \subseteq S
BY DEF Elements

(* A queue without repetitions holds as many requests as it is long.       *)
LEMMA DistinctFacts ==
  ASSUME NEW S, NEW s \in Seq(S), Distinct(s)
  PROVE  /\ IsFiniteSet(Elements(s))
         /\ Cardinality(Elements(s)) = Len(s)
<1>1. Len(s) \in Nat /\ DOMAIN s = 1 .. Len(s) /\ Elements(s) = {s[i] : i \in 1 .. Len(s)}
  BY ElementFacts
<1>2. s \in Bijection(1 .. Len(s), Elements(s))
  <2>1. s \in [1 .. Len(s) -> Elements(s)]
    BY <1>1
  <2>2. IsInjective(s)
    BY <1>1 DEF IsInjective, Distinct
  <2> QED
    BY <1>1, <2>1, <2>2 DEF Bijection, Injection, Surjection
<1>3. ExistsBijection(1 .. Len(s), Elements(s))
  BY <1>2 DEF ExistsBijection
<1>4. IsFiniteSet(1 .. Len(s)) /\ Cardinality(1 .. Len(s)) = Len(s)
  <2>1. IsFiniteSet(1 .. Len(s)) /\ Cardinality(1 .. Len(s)) = IF 1 > Len(s) THEN 0 ELSE Len(s) - 1 + 1
    <3>1. PICK n \in Nat : n = Len(s)
      BY <1>1
    <3>2. 1 \in Int /\ n \in Int
      BY <3>1
    <3>3. IsFiniteSet(1 .. n) /\ Cardinality(1 .. n) = IF 1 > n THEN 0 ELSE n - 1 + 1
      BY <3>2, FS_Interval
    <3> QED
      BY <3>1, <3>3
  <2> QED
    BY <1>1, <2>1
<1> QED
  BY <1>3, <1>4, FS_Bijection

(* The first n entries and the others.                                     *)
LEMMA SplitFacts ==
  ASSUME NEW S, NEW s \in Seq(S), Distinct(s), NEW n \in 0 .. Len(s)
  PROVE  /\ SubSeq(s, 1, n) \in Seq(S) /\ Drop(s, n) \in Seq(S)
         /\ Len(SubSeq(s, 1, n)) = n /\ Len(Drop(s, n)) = Len(s) - n
         /\ Distinct(SubSeq(s, 1, n)) /\ Distinct(Drop(s, n))
         /\ Elements(s) = Elements(SubSeq(s, 1, n)) \cup Elements(Drop(s, n))
         /\ Elements(SubSeq(s, 1, n)) \cap Elements(Drop(s, n)) = {}
<1> DEFINE first == SubSeq(s, 1, n)
           rest == Drop(s, n)
<1>1. /\ Len(s) \in Nat /\ n \in Nat /\ n <= Len(s)
      /\ first \in Seq(S) /\ Len(first) = n /\ \A i \in 1 .. n : first[i] = s[i]
  BY SubSeqProperties, LenProperties
<1>2. rest \in Seq(S) /\ Len(rest) = Len(s) - n /\ \A i \in 1 .. Len(s) - n : rest[i] = s[i + n]
  BY DEF Drop
<1> HIDE DEF first, rest
<1>3. Distinct(first)
  BY <1>1 DEF Distinct
<1>4. Distinct(rest)
  <2> SUFFICES ASSUME NEW i \in 1 .. Len(rest), NEW j \in 1 .. Len(rest), rest[i] = rest[j]
               PROVE  i = j
    BY DEF Distinct
  <2>1. i + n \in 1 .. Len(s) /\ j + n \in 1 .. Len(s) /\ i \in Int /\ j \in Int
    BY <1>1, <1>2
  <2>2. s[i + n] = s[j + n]
    BY <1>2
  <2>3. i + n = j + n
    BY <2>1, <2>2 DEF Distinct
  <2> QED
    BY <1>1, <2>1, <2>3
<1>5. /\ Elements(s) = {s[i] : i \in 1 .. Len(s)}
      /\ Elements(first) = {first[i] : i \in 1 .. n}
      /\ Elements(rest) = {rest[i] : i \in 1 .. Len(s) - n}
  BY <1>1, <1>2, ElementFacts
<1>6. ASSUME NEW e \in Elements(s) PROVE e \in Elements(first) \cup Elements(rest)
  <2>1. PICK i \in 1 .. Len(s) : e = s[i]
    BY <1>5
  <2>2. CASE i <= n
    BY <1>1, <1>5, <2>1, <2>2
  <2>3. CASE i > n
    <3>1. i - n \in 1 .. Len(s) - n /\ (i - n) + n = i
      BY <1>1, <2>3
    <3>2. rest[i - n] = e
      BY <1>2, <2>1, <3>1
    <3> QED
      BY <1>5, <3>1, <3>2
  <2> QED
    BY <1>1, <2>2, <2>3
<1>7. ASSUME NEW e \in Elements(first) PROVE e \in Elements(s) /\ e \notin Elements(rest)
  <2>1. PICK i \in 1 .. n : e = s[i]
    BY <1>1, <1>5
  <2>2. i \in 1 .. Len(s)
    BY <1>1
  <2>3. ASSUME NEW j \in 1 .. Len(s) - n, rest[j] = e PROVE FALSE
    <3>1. s[j + n] = s[i] /\ j + n \in 1 .. Len(s) /\ j + n # i
      BY <1>1, <1>2, <2>1, <2>3
    <3> QED
      BY <2>2, <3>1 DEF Distinct
  <2> QED
    BY <1>5, <2>1, <2>2, <2>3
<1>8. ASSUME NEW e \in Elements(rest) PROVE e \in Elements(s)
  <2>1. PICK i \in 1 .. Len(s) - n : e = s[i + n]
    BY <1>2, <1>5
  <2>2. i + n \in 1 .. Len(s)
    BY <1>1
  <2> QED
    BY <1>5, <2>1, <2>2
<1> QED
  BY <1>1, <1>2, <1>3, <1>4, <1>6, <1>7, <1>8 DEF first, rest

(* Two queues that share nothing, one after the other.                     *)
LEMMA JoinFacts ==
  ASSUME NEW S, NEW s \in Seq(S), NEW t \in Seq(S), Distinct(s), Distinct(t),
         Elements(s) \cap Elements(t) = {}
  PROVE  /\ s \o t \in Seq(S) /\ Len(s \o t) = Len(s) + Len(t)
         /\ Distinct(s \o t)
         /\ Elements(s \o t) = Elements(s) \cup Elements(t)
<1> DEFINE u == s \o t
<1>1. /\ u \in Seq(S) /\ Len(u) = Len(s) + Len(t) /\ Len(s) \in Nat /\ Len(t) \in Nat
      /\ \A i \in 1 .. Len(s) + Len(t) : u[i] = IF i <= Len(s) THEN s[i] ELSE t[i - Len(s)]
  BY ConcatProperties
<1> HIDE DEF u
<1>2. /\ Elements(u) = {u[i] : i \in 1 .. Len(s) + Len(t)}
      /\ Elements(s) = {s[i] : i \in 1 .. Len(s)} /\ Elements(t) = {t[i] : i \in 1 .. Len(t)}
  <2>1. Elements(u) = {u[i] : i \in 1 .. Len(u)} /\ Len(u) = Len(s) + Len(t)
    BY <1>1, ElementFacts
  <2>2. Elements(s) = {s[i] : i \in 1 .. Len(s)} /\ Elements(t) = {t[i] : i \in 1 .. Len(t)}
    BY ElementFacts
  <2> QED
    BY <2>1, <2>2, Zenon
<1>3. ASSUME NEW i \in 1 .. Len(s) + Len(t)
      PROVE  \/ i \in 1 .. Len(s) /\ u[i] = s[i] /\ u[i] \in Elements(s)
             \/ i - Len(s) \in 1 .. Len(t) /\ u[i] = t[i - Len(s)] /\ u[i] \in Elements(t)
  BY <1>1, <1>2
<1>4. ASSUME NEW i \in 1 .. Len(u), NEW j \in 1 .. Len(u), u[i] = u[j] PROVE i = j
  <2>1. i \in 1 .. Len(s) + Len(t) /\ j \in 1 .. Len(s) + Len(t)
    BY <1>1
  <2>2. CASE i \in 1 .. Len(s) /\ u[i] = s[i] /\ u[i] \in Elements(s)
    <3>1. j \in 1 .. Len(s) /\ u[j] = s[j]
      BY <1>3, <1>4, <2>1, <2>2
    <3> QED
      BY <1>4, <2>2, <3>1 DEF Distinct
  <2>3. CASE i - Len(s) \in 1 .. Len(t) /\ u[i] = t[i - Len(s)] /\ u[i] \in Elements(t)
    <3>1. j - Len(s) \in 1 .. Len(t) /\ u[j] = t[j - Len(s)]
      BY <1>3, <1>4, <2>1, <2>3
    <3>2. i - Len(s) = j - Len(s)
      BY <1>4, <2>3, <3>1 DEF Distinct
    <3> QED
      BY <1>1, <2>1, <3>2
  <2> QED
    BY <1>3, <2>1, <2>2, <2>3
<1>5. Elements(u) \subseteq Elements(s) \cup Elements(t)
  BY <1>2, <1>3
<1>6. ASSUME NEW e \in Elements(s) PROVE e \in Elements(u)
  <2>1. PICK i \in 1 .. Len(s) : e = s[i]
    BY <1>2
  <2>2. i \in 1 .. Len(s) + Len(t) /\ u[i] = e
    BY <1>1, <2>1
  <2> QED
    BY <1>2, <2>2
<1>7. ASSUME NEW e \in Elements(t) PROVE e \in Elements(u)
  <2>1. PICK i \in 1 .. Len(t) : e = t[i]
    BY <1>2
  <2>2. i + Len(s) \in 1 .. Len(s) + Len(t) /\ ~(i + Len(s) <= Len(s)) /\ (i + Len(s)) - Len(s) = i
    BY <1>1
  <2>3. u[i + Len(s)] = e
    BY <1>1, <2>1, <2>2
  <2> QED
    BY <1>2, <2>2, <2>3
<1>8. Distinct(u)
  BY <1>4 DEF Distinct
<1>9. Elements(u) = Elements(s) \cup Elements(t)
  BY <1>5, <1>6, <1>7
<1> QED
  BY <1>1, <1>8, <1>9 DEF u

(* One entry more at the end.                                              *)
LEMMA AddFacts ==
  ASSUME NEW S, NEW s \in Seq(S), Distinct(s), NEW e \in S, e \notin Elements(s)
  PROVE  /\ Append(s, e) \in Seq(S) /\ Len(Append(s, e)) = Len(s) + 1
         /\ Distinct(Append(s, e))
         /\ Elements(Append(s, e)) = Elements(s) \cup {e}
<1> DEFINE one == <<e>>
<1>1. one \in Seq(S) /\ Len(one) = 1 /\ one[1] = e
  OBVIOUS
<1>2. Append(s, e) = s \o one
  OBVIOUS
<1> HIDE DEF one
<1>3. Distinct(one)
  BY <1>1 DEF Distinct
<1>4. Elements(one) = {e}
  <2>1. Elements(one) = {one[i] : i \in 1 .. 1}
    BY <1>1, ElementFacts
  <2> QED
    BY <1>1, <2>1
<1>5. Elements(s) \cap Elements(one) = {}
  BY <1>4
<1> QED
  BY <1>1, <1>2, <1>3, <1>4, <1>5, JoinFacts

(* One entry fewer at the front.                                           *)
LEMMA RemoveFacts ==
  ASSUME NEW S, NEW s \in Seq(S), Distinct(s), s # <<>>
  PROVE  /\ Head(s) \in S /\ Head(s) \in Elements(s)
         /\ Tail(s) \in Seq(S) /\ Len(Tail(s)) = Len(s) - 1
         /\ Distinct(Tail(s))
         /\ Elements(Tail(s)) = Elements(s) \ {Head(s)}
<1>1. /\ Head(s) = s[1] /\ Head(s) \in S /\ Tail(s) \in Seq(S) /\ Len(s) \in Nat \ {0}
      /\ Len(Tail(s)) = Len(s) - 1
      /\ \A i \in 1 .. Len(s) - 1 : Tail(s)[i] = s[i + 1]
  BY HeadTailProperties, EmptySeq, LenProperties
<1>2. /\ Elements(s) = {s[i] : i \in 1 .. Len(s)}
      /\ Elements(Tail(s)) = {Tail(s)[i] : i \in 1 .. Len(s) - 1}
  BY <1>1, ElementFacts
<1>3. Distinct(Tail(s))
  BY <1>1 DEF Distinct
<1>4. Head(s) \in Elements(s)
  BY <1>1, <1>2
<1>5. ASSUME NEW e \in Elements(Tail(s)) PROVE e \in Elements(s) /\ e # Head(s)
  <2>1. PICK i \in 1 .. Len(s) - 1 : e = s[i + 1]
    BY <1>1, <1>2
  <2>2. i + 1 \in 1 .. Len(s) /\ 1 \in 1 .. Len(s) /\ i + 1 # 1
    BY <1>1
  <2> QED
    BY <1>1, <1>2, <2>1, <2>2 DEF Distinct
<1>6. ASSUME NEW e \in Elements(s), e # Head(s) PROVE e \in Elements(Tail(s))
  <2>1. PICK i \in 1 .. Len(s) : e = s[i]
    BY <1>2
  <2>2. i - 1 \in 1 .. Len(s) - 1 /\ (i - 1) + 1 = i
    BY <1>1, <1>6, <2>1
  <2>3. Tail(s)[i - 1] = e
    BY <1>1, <2>1, <2>2
  <2> QED
    BY <1>2, <2>2, <2>3
<1> QED
  BY <1>1, <1>3, <1>4, <1>5, <1>6

-----------------------------------------------------------------------------
(* The invariant.                                                           *)

\* What the proofs below use of the types.
LEMMA TypeFacts ==
  ASSUME TypeOK
  PROVE  /\ sq \in Seq(1 .. MaxRequests) /\ cq \in Seq(1 .. MaxRequests)
         /\ got \in Seq(1 .. MaxRequests)
         /\ Len(sq) \in Nat /\ Len(cq) \in Nat /\ Len(got) \in Nat
         /\ in_flight_ \in Nat /\ in_flight_ <= Depth /\ Depth \in Nat
         /\ issued \in Nat /\ issued <= MaxRequests /\ MaxRequests \in Nat
         /\ min \in Nat /\ room \in Nat
         /\ IsFiniteSet(kernel) /\ Cardinality(kernel) \in Nat
<1>1. sq \in Seq(1 .. MaxRequests) /\ cq \in Seq(1 .. MaxRequests) /\ got \in Seq(1 .. MaxRequests)
  BY DEF TypeOK
<1>2. 1 \in Int /\ MaxRequests \in Int
  BY BoundsAssumption
<1>3. IsFiniteSet(1 .. MaxRequests)
  BY <1>2, FS_Interval
<1>4. kernel \in SUBSET (1 .. MaxRequests)
  BY DEF TypeOK
<1>5. IsFiniteSet(kernel)
  BY <1>3, <1>4, FS_Subset
<1>6. Cardinality(kernel) \in Nat
  BY <1>5, FS_CardinalityType
<1>7. Len(sq) \in Nat /\ Len(cq) \in Nat /\ Len(got) \in Nat
  BY <1>1
<1> QED
  BY <1>1, <1>5, <1>6, <1>7, DepthAssumption, BoundsAssumption DEF TypeOK

(* The numbers among them.                                                 *)
LEMMA NumberFacts ==
  ASSUME TypeOK
  PROVE  /\ Len(sq) \in Nat /\ Len(cq) \in Nat /\ Len(got) \in Nat
         /\ in_flight_ \in Nat /\ in_flight_ <= Depth /\ Depth \in Nat
         /\ issued \in Nat /\ issued <= MaxRequests /\ MaxRequests \in Nat
         /\ min \in Nat /\ room \in Nat /\ Cardinality(kernel) \in Nat
BY TypeFacts, Zenon

(* The next n numbers are new.                                             *)
LEMMA NewNumbers ==
  ASSUME NEW a \in Nat, NEW n \in Nat, NEW X \in SUBSET (1 .. a)
  PROVE  /\ (a + 1 .. a + n) \cap X = {}
         /\ X \cup (a + 1 .. a + n) \subseteq 1 .. a + n
         /\ \A i \in 1 .. n : a + i \in a + 1 .. a + n
         /\ \A e \in a + 1 .. a + n : e - a \in 1 .. n /\ a + (e - a) = e
<1>1. \A x \in X : x \in 1 .. a
  OBVIOUS
<1>2. \A x \in 1 .. a : x \notin a + 1 .. a + n /\ x \in 1 .. a + n
  OBVIOUS
<1>3. \A x \in a + 1 .. a + n : x \in 1 .. a + n
  OBVIOUS
<1>4. /\ \A i \in 1 .. n : a + i \in a + 1 .. a + n
      /\ \A e \in a + 1 .. a + n : e - a \in 1 .. n /\ a + (e - a) = e
  OBVIOUS
<1>5. (a + 1 .. a + n) \cap X = {} /\ X \cup (a + 1 .. a + n) \subseteq 1 .. a + n
  BY <1>1, <1>2, <1>3, Zenon
<1> QED
  BY <1>4, <1>5, Zenon

(* The ring is empty in the initial state.                                 *)
LEMMA InitIInv == Init => IInv
<1> SUFFICES ASSUME Init PROVE IInv
  OBVIOUS
<1>1. /\ sq = <<>> /\ cq = <<>> /\ got = <<>> /\ kernel = {} /\ reaped = {}
      /\ in_flight_ = 0 /\ issued = 0 /\ min = 0 /\ room = 0 /\ pc = "idle"
      /\ outcome = "ok"
  BY DEF Init
<1>2. Len(<<>>) = 0 /\ Elements(<<>>) = {} /\ Cardinality({}) = 0
  BY FS_EmptySet DEF Elements
<1>3. TypeOK
  BY <1>1, BoundsAssumption, DepthAssumption DEF TypeOK
<1>4. InFlightExact
  BY <1>1, <1>2 DEF InFlightExact
<1>5. Apart
  BY <1>1, <1>2 DEF Apart, Held, Distinct
<1>6. Call
  BY <1>1, <1>2 DEF Call, Clamped, Smaller
<1> QED
  BY <1>3, <1>4, <1>5, <1>6 DEF IInv

(* The kernel takes the front of the submission queue with its new entries, *)
(* the rest stays: for every part of it that it may take.                   *)
LEMMA SubmitFacts ==
  ASSUME IInv, NEW n \in 1 .. MaxRequests, NEW taken \in 0 .. Len(sq) + n, SubmitTaking(n, taken)
  PROVE  /\ IInv'
         /\ Held' = Held \cup (issued + 1 .. issued')
         /\ pc = "idle" /\ got = <<>> /\ in_flight_ + n <= Depth /\ issued' = issued + n
         /\ in_flight_' = in_flight_ + n
         /\ UNCHANGED <<cq, pc, min, room, got, outcome, reaped>>
<1> DEFINE new == NewRequests(n)
           filledIn == sq \o new
           front == SubSeq(filledIn, 1, taken)
<1>0. TypeOK /\ InFlightExact /\ Apart /\ Call
  BY DEF IInv
<1>1. /\ pc = "idle" /\ got = <<>> /\ in_flight_ + n <= Depth /\ issued' = issued + n
      /\ kernel' = kernel \cup Elements(front) /\ sq' = Drop(filledIn, taken)
      /\ in_flight_' = in_flight_ + n
      /\ UNCHANGED <<cq, pc, min, room, got, outcome, reaped>>
  BY <1>0 DEF SubmitTaking, Fits, Call
<1>t. /\ issued \in Nat /\ MaxRequests \in Nat /\ Len(sq) \in Nat /\ Len(cq) \in Nat
      /\ in_flight_ \in Nat /\ Cardinality(kernel) \in Nat
  BY <1>0, NumberFacts
<1>2. n \in Nat /\ n >= 1 /\ issued + n <= MaxRequests
  <2>1. n \in 1 .. MaxRequests - issued
    BY DEF SubmitTaking
  <2> QED
    BY <1>t, <2>1
<1>3. /\ new \in Seq(1 .. MaxRequests) /\ Len(new) = n
      /\ \A i \in 1 .. n : new[i] = issued + i
  <2>1. \A i \in 1 .. n : issued + i \in 1 .. MaxRequests
    BY <1>2, <1>t
  <2> QED
    BY <1>2, <2>1 DEF NewRequests
<1> HIDE DEF new
<1>4. Distinct(new)
  <2>1. \A i, j \in 1 .. n : issued + i = issued + j => i = j
    BY <1>2, <1>t
  <2> QED
    BY <1>3, <2>1 DEF Distinct
<1>5. Elements(new) = issued + 1 .. issued + n
  <2>1. Elements(new) = {new[i] : i \in 1 .. n}
    BY <1>3, ElementFacts
  <2>2. ASSUME NEW e \in issued + 1 .. issued + n PROVE e \in Elements(new)
    <3>1. e - issued \in 1 .. n /\ issued + (e - issued) = e
      BY <1>2, <1>t
    <3> QED
      BY <1>3, <2>1, <3>1
  <2>3. ASSUME NEW e \in Elements(new) PROVE e \in issued + 1 .. issued + n
    <3>1. PICK i \in 1 .. n : e = issued + i
      BY <1>3, <2>1, <2>3
    <3> QED
      BY <1>2, <1>t, <3>1
  <2> QED
    BY <2>2, <2>3
<1>6. Elements(new) \cap (Held \cup Elements(got) \cup reaped) = {}
  <2>1. Held \cup Elements(got) \cup reaped \in SUBSET (1 .. issued)
    BY <1>0 DEF Apart
  <2> QED
    BY <1>2, <1>5, <1>t, <2>1, NewNumbers
<1>7. Distinct(sq) /\ Elements(sq) \cap Elements(new) = {}
  BY <1>0, <1>6 DEF Apart, Held
<1>8. /\ filledIn \in Seq(1 .. MaxRequests) /\ Len(filledIn) = Len(sq) + n
      /\ Distinct(filledIn) /\ Elements(filledIn) = Elements(sq) \cup Elements(new)
  <2>1. sq \in Seq(1 .. MaxRequests)
    BY <1>0, TypeFacts
  <2> QED
    BY <1>3, <1>4, <1>7, <2>1, JoinFacts
<1> HIDE DEF filledIn
<1>9. /\ front \in Seq(1 .. MaxRequests) /\ sq' \in Seq(1 .. MaxRequests)
      /\ Len(front) = taken /\ Len(sq') = Len(sq) + n - taken
      /\ Distinct(front) /\ Distinct(sq')
      /\ Elements(filledIn) = Elements(front) \cup Elements(sq')
      /\ Elements(front) \cap Elements(sq') = {}
  <2>1. taken \in 0 .. Len(filledIn)
    BY <1>8
  <2>2. /\ front \in Seq(1 .. MaxRequests) /\ Drop(filledIn, taken) \in Seq(1 .. MaxRequests)
        /\ Len(front) = taken /\ Len(Drop(filledIn, taken)) = Len(filledIn) - taken
        /\ Distinct(front) /\ Distinct(Drop(filledIn, taken))
        /\ Elements(filledIn) = Elements(front) \cup Elements(Drop(filledIn, taken))
        /\ Elements(front) \cap Elements(Drop(filledIn, taken)) = {}
    BY <1>8, <2>1, SplitFacts
  <2>3. sq' = Drop(filledIn, taken) /\ Len(filledIn) = Len(sq) + n
    BY <1>1, <1>8
  <2> HIDE DEF front
  <2> QED
    BY <2>2, <2>3
<1> HIDE DEF front
<1>10. Elements(front) \subseteq 1 .. MaxRequests
  BY <1>9, ElementFacts
<1>11. kernel' \subseteq 1 .. MaxRequests
  BY <1>0, <1>1, <1>10 DEF TypeOK
<1>12. in_flight_' \in 0 .. Depth /\ issued' \in 0 .. MaxRequests
  <2>1. Depth \in Nat
    BY <1>0, NumberFacts
  <2> QED
    BY <1>1, <1>2, <1>t, <2>1
<1>13. TypeOK'
  <2>1. UNCHANGED <<cq, pc, min, room, got, outcome, reaped>>
    BY <1>1
  <2> QED
    BY <1>0, <1>9, <1>11, <1>12, <2>1 DEF TypeOK
<1>14. kernel \cap Elements(front) = {}
  BY <1>0, <1>6, <1>8, <1>9 DEF Apart, Held
<1>15. Cardinality(kernel') = Cardinality(kernel) + taken
  <2>1. IsFiniteSet(Elements(front)) /\ Cardinality(Elements(front)) = taken
    BY <1>9, DistinctFacts
  <2>2. Cardinality(kernel \cup Elements(front))
          = Cardinality(kernel) + Cardinality(Elements(front)) - Cardinality(kernel \cap Elements(front))
    BY <1>0, <2>1, TypeFacts, FS_Union
  <2>3. Cardinality(kernel \cap Elements(front)) = 0
    BY <1>14, FS_EmptySet
  <2> QED
    BY <1>0, <1>1, <2>1, <2>2, <2>3, TypeFacts
<1>16. InFlightExact'
  <2>1. in_flight_ = Len(sq) + Cardinality(kernel) + Len(cq) /\ cq' = cq
    BY <1>0, <1>1 DEF InFlightExact
  <2>2. in_flight_' = in_flight_ + n
    BY <1>1
  <2>3. Len(cq') = Len(cq) /\ Len(sq') = Len(sq) + n - taken /\ taken \in Nat
    BY <1>1, <1>9
  <2>4. /\ Len(sq) \in Nat /\ Len(cq) \in Nat /\ Cardinality(kernel) \in Nat
        /\ in_flight_ \in Nat /\ n \in Nat
    BY <1>2, <1>t
  <2>5. in_flight_' = Len(sq') + Cardinality(kernel') + Len(cq')
    <3>1. PICK s \in Nat, c \in Nat, k \in Nat, f \in Nat :
             s = Len(sq) /\ c = Len(cq) /\ k = Cardinality(kernel) /\ f = in_flight_
      BY <2>4
    <3>2. f = s + k + c
      BY <2>1, <3>1, Zenon
    <3>3. /\ in_flight_' = f + n /\ Len(cq') = c
          /\ Len(sq') = s + n - taken /\ Cardinality(kernel') = k + taken
      BY <1>15, <2>2, <2>3, <3>1, Zenon
    <3>4. f + n = (s + n - taken) + (k + taken) + c
      BY <2>3, <2>4, <3>2
    <3> QED
      BY <3>3, <3>4, Zenon
  <2> QED
    BY <2>5 DEF InFlightExact
<1>17. Held' = Held \cup (issued + 1 .. issued')
  BY <1>1, <1>5, <1>8, <1>9 DEF Held
<1>18. Apart'
  <2>1. Elements(sq') \cap kernel' = {}
    BY <1>0, <1>1, <1>6, <1>8, <1>9 DEF Apart, Held
  <2>2. Elements(cq') \cap (Elements(sq') \cup kernel') = {}
    BY <1>0, <1>1, <1>6, <1>8, <1>9 DEF Apart, Held
  <2>3. Elements(got') \cap Held' = {} /\ reaped' \cap (Held' \cup Elements(got')) = {}
    BY <1>0, <1>1, <1>5, <1>6, <1>17 DEF Apart
  <2>4. Held' \cup Elements(got') \cup reaped' \subseteq 1 .. issued'
    <3> DEFINE X == Held \cup Elements(got) \cup reaped
    <3>1. X \in SUBSET (1 .. issued)
      BY <1>0 DEF Apart
    <3>2. Held' \cup Elements(got') \cup reaped' = X \cup (issued + 1 .. issued + n)
      BY <1>1, <1>17
    <3>3. X \cup (issued + 1 .. issued + n) \subseteq 1 .. issued + n
      <4> HIDE DEF X
      <4> QED
        BY <1>2, <1>t, <3>1, NewNumbers
    <3> QED
      BY <1>1, <3>2, <3>3, Zenon
  <2>5. Distinct(cq') /\ Distinct(got')
    BY <1>0, <1>1 DEF Apart
  <2> QED
    BY <1>9, <2>1, <2>2, <2>3, <2>4, <2>5 DEF Apart
<1>19. Call'
  BY <1>0, <1>1 DEF Call, Clamped
<1> QED
  BY <1>1, <1>13, <1>16, <1>17, <1>18, <1>19 DEF IInv

(* A completion is taken from the ring.                                    *)
LEMMA WaitFacts ==
  ASSUME IInv, WaitCqe
  PROVE  /\ IInv'
         /\ Held' \cup Elements(got') = Held \cup Elements(got)
         /\ UNCHANGED <<reaped, issued, pc, min, room, outcome>>
<1>0. TypeOK /\ InFlightExact /\ Apart /\ Call
  BY DEF IInv
<1>1. /\ pc = "wait" /\ MustWait /\ cq # <<>>
      /\ got' = Append(got, Head(cq)) /\ cq' = Tail(cq) /\ in_flight_' = in_flight_ - 1
      /\ UNCHANGED <<sq, kernel, pc, min, room, outcome, issued, reaped>>
  BY DEF WaitCqe
<1>2. /\ Head(cq) \in 1 .. MaxRequests /\ Head(cq) \in Elements(cq)
      /\ cq' \in Seq(1 .. MaxRequests) /\ Len(cq') = Len(cq) - 1 /\ Distinct(cq')
      /\ Elements(cq') = Elements(cq) \ {Head(cq)}
  <2>1. cq \in Seq(1 .. MaxRequests) /\ Distinct(cq)
    BY <1>0, TypeFacts DEF Apart
  <2> QED
    BY <1>1, <2>1, RemoveFacts
<1>3. /\ got' \in Seq(1 .. MaxRequests) /\ Len(got') = Len(got) + 1 /\ Distinct(got')
      /\ Elements(got') = Elements(got) \cup {Head(cq)}
  <2>1. got \in Seq(1 .. MaxRequests) /\ Distinct(got) /\ Head(cq) \notin Elements(got)
    BY <1>0, <1>2, TypeFacts DEF Apart, Held
  <2> QED
    BY <1>1, <1>2, <2>1, AddFacts
<1>4. Len(got) < Clamped /\ Len(got) < in_flight_
  BY <1>1 DEF MustWait
<1>5. in_flight_' \in 0 .. Depth
  <2>1. /\ in_flight_ \in Nat /\ in_flight_ <= Depth /\ Depth \in Nat /\ Len(got) \in Nat
    BY <1>0, NumberFacts
  <2> QED
    BY <1>1, <1>4, <2>1
<1>6. TypeOK'
  <2>1. UNCHANGED <<sq, kernel, pc, min, room, outcome, issued, reaped>>
    BY <1>1
  <2> QED
    BY <1>0, <1>2, <1>3, <1>5, <2>1 DEF TypeOK
<1>7. InFlightExact'
  <2>1. in_flight_ = Len(sq) + Cardinality(kernel) + Len(cq)
    BY <1>0 DEF InFlightExact
  <2>2. in_flight_' = in_flight_ - 1 /\ sq' = sq /\ kernel' = kernel
    BY <1>1
  <2> QED
    <3>1. in_flight_ \in Nat /\ Len(sq) \in Nat /\ Len(cq) \in Nat /\ Cardinality(kernel) \in Nat
      BY <1>0, NumberFacts
    <3>2. in_flight_' = Len(sq') + Cardinality(kernel') + Len(cq')
      BY <1>2, <2>1, <2>2, <3>1
    <3> QED
      BY <3>2 DEF InFlightExact
<1>8. Held' \cup Elements(got') = Held \cup Elements(got) /\ Held' \subseteq Held
  BY <1>1, <1>2, <1>3 DEF Held
<1>9. Apart'
  <2>1. UNCHANGED <<sq, kernel, issued, reaped>>
    BY <1>1
  <2>2. Elements(cq') \cap (Elements(sq') \cup kernel') = {} /\ Elements(sq') \cap kernel' = {}
    BY <1>0, <1>2, <2>1 DEF Apart
  <2>3. Elements(got') \cap Held' = {}
    BY <1>0, <1>2, <1>3, <2>1 DEF Apart, Held
  <2>4. /\ reaped' \cap (Held' \cup Elements(got')) = {}
        /\ Held' \cup Elements(got') \cup reaped' \subseteq 1 .. issued'
    BY <1>0, <1>8, <2>1 DEF Apart
  <2>5. Distinct(sq')
    BY <1>0, <2>1 DEF Apart
  <2> QED
    BY <1>2, <1>3, <2>2, <2>3, <2>4, <2>5 DEF Apart
<1>10. Call'
  <2>1. Clamped' = Clamped /\ pc' = "wait" /\ Clamped \in Nat
    BY <1>0, <1>1, TypeFacts DEF Clamped, Smaller
  <2> QED
    BY <1>0, <1>3, <1>4, <2>1, TypeFacts DEF Call
<1> QED
  BY <1>1, <1>6, <1>7, <1>8, <1>9, <1>10 DEF IInv

(* A wait fails: the call ends, and what it had taken is lost.             *)
LEMMA WaitFailsFacts ==
  ASSUME IInv, WaitFails
  PROVE  IInv'
<1>0. TypeOK /\ InFlightExact /\ Apart /\ Call
  BY DEF IInv
<1>1. /\ got' = <<>> /\ pc' = "idle" /\ min' = 0 /\ room' = 0 /\ outcome' = "error"
      /\ UNCHANGED <<sq, kernel, cq, in_flight_, issued, reaped>>
  BY DEF WaitFails
<1>2. Len(got') = 0 /\ Elements(got') = {} /\ Held' = Held
  BY <1>1 DEF Elements, Held
<1>3. TypeOK'
  <2>1. UNCHANGED <<sq, kernel, cq, in_flight_, issued, reaped>>
    BY <1>1
  <2>2. got' \in Seq(1 .. MaxRequests) /\ min' \in 0 .. MaxMin /\ room' \in 0 .. MaxRoom
    BY <1>1, BoundsAssumption
  <2>3. pc' \in {"idle", "wait"} /\ outcome' \in {"ok", "error"}
    BY <1>1
  <2> QED
    BY <1>0, <2>1, <2>2, <2>3 DEF TypeOK
<1>4. InFlightExact'
  BY <1>0, <1>1 DEF InFlightExact
<1>5. Distinct(got')
  BY <1>2 DEF Distinct
<1>6. Apart'
  <2>1. UNCHANGED <<sq, kernel, cq, issued, reaped>>
    BY <1>1
  <2> QED
    BY <1>0, <1>2, <1>5, <2>1 DEF Apart
<1>7. Call'
  BY <1>1, <1>2 DEF Call, Clamped, Smaller
<1> QED
  BY <1>3, <1>4, <1>6, <1>7 DEF IInv

\* The completions reap drains without a wait.
Drained == SubSeq(cq, 1, Peeked)

(* A reap that returns hands back what it has taken.                       *)
LEMMA EndReapFacts ==
  ASSUME IInv, EndReap
  PROVE  /\ IInv'
         /\ Peeked \in Nat /\ Peeked <= room - Len(got)
         /\ Elements(Drained) \subseteq Elements(cq)
         /\ IsFiniteSet(Elements(Drained)) /\ Cardinality(Elements(Drained)) = Peeked
         /\ reaped' = reaped \cup (Elements(got) \cup Elements(Drained))
         /\ Held' = Held \ Elements(Drained)
         /\ got' = <<>> /\ pc = "wait" /\ pc' = "idle" /\ min' = 0 /\ room' = 0
         /\ outcome' = "ok" /\ issued' = issued
<1>0. TypeOK /\ InFlightExact /\ Apart /\ Call
  BY DEF IInv
<1>1. /\ pc = "wait" /\ got' = <<>> /\ pc' = "idle" /\ min' = 0 /\ room' = 0 /\ outcome' = "ok"
      /\ reaped' = reaped \cup (Elements(got) \cup Elements(Drained))
      /\ cq' = Drop(cq, Peeked) /\ in_flight_' = in_flight_ - Peeked
      /\ UNCHANGED <<sq, kernel, issued>>
  BY DEF EndReap, Drained, InFlightAfter
<1>2. Len(got) <= room
  BY <1>0, TypeFacts DEF Call, Clamped, Smaller
<1>3. Peeked \in Nat /\ Peeked <= room - Len(got) /\ Peeked \in 0 .. Len(cq)
  <2>1. room \in Nat /\ Len(got) \in Nat /\ Len(cq) \in Nat
    BY <1>0, NumberFacts
  <2> QED
    BY <1>2, <2>1 DEF Peeked, Smaller, PeekLimit
<1> HIDE DEF Peeked
<1>4. cq \in Seq(1 .. MaxRequests) /\ Distinct(cq)
  BY <1>0, TypeFacts DEF Apart
<1>5. /\ Drained \in Seq(1 .. MaxRequests) /\ Drop(cq, Peeked) \in Seq(1 .. MaxRequests)
      /\ Len(Drained) = Peeked /\ Len(Drop(cq, Peeked)) = Len(cq) - Peeked
      /\ Distinct(Drained) /\ Distinct(Drop(cq, Peeked))
      /\ Elements(cq) = Elements(Drained) \cup Elements(Drop(cq, Peeked))
      /\ Elements(Drained) \cap Elements(Drop(cq, Peeked)) = {}
  BY <1>3, <1>4, SplitFacts DEF Drained
<1> HIDE DEF Drained
<1>6. IsFiniteSet(Elements(Drained)) /\ Cardinality(Elements(Drained)) = Peeked
  BY <1>5, DistinctFacts
<1>7. Elements(cq') = Elements(cq) \ Elements(Drained)
  BY <1>1, <1>5
<1>8. Elements(got') = {} /\ Len(got') = 0
  BY <1>1 DEF Elements
<1>9. Held' = Held \ Elements(Drained)
  BY <1>0, <1>1, <1>5, <1>7 DEF Held, Apart
<1>10. InFlightExact'
  <2>1. in_flight_ = Len(sq) + Cardinality(kernel) + Len(cq)
    BY <1>0 DEF InFlightExact
  <2>2. in_flight_' = in_flight_ - Peeked /\ Len(cq') = Len(cq) - Peeked /\ sq' = sq /\ kernel' = kernel
    BY <1>1, <1>5
  <2> QED
    <3>1. in_flight_ \in Nat /\ Len(sq) \in Nat /\ Len(cq) \in Nat /\ Cardinality(kernel) \in Nat
      BY <1>0, NumberFacts
    <3>2. in_flight_' = Len(sq') + Cardinality(kernel') + Len(cq')
      <4>1. PICK s \in Nat, c \in Nat, k \in Nat, f \in Nat, d \in Nat :
               s = Len(sq) /\ c = Len(cq) /\ k = Cardinality(kernel) /\ f = in_flight_ /\ d = Peeked
        BY <1>3, <3>1
      <4>2. f = s + k + c
        BY <2>1, <4>1, Zenon
      <4>3. /\ in_flight_' = f - d /\ Len(cq') = c - d
            /\ Len(sq') = s /\ Cardinality(kernel') = k
        BY <2>2, <4>1, Zenon
      <4>4. f - d = s + k + (c - d)
        BY <4>2
      <4> QED
        BY <4>3, <4>4, Zenon
    <3> QED
      BY <3>2 DEF InFlightExact
<1>11. TypeOK'
  <2>1. UNCHANGED <<sq, kernel, issued>>
    BY <1>1
  <2>2. in_flight_' \in 0 .. Depth
    <3>1. in_flight_' = Len(sq) + Cardinality(kernel) + Len(cq')
      BY <1>10, <2>1 DEF InFlightExact
    <3>2. Len(cq') \in Nat /\ in_flight_' = in_flight_ - Peeked
      BY <1>1, <1>5
    <3> QED
      <4>1. /\ in_flight_ \in Nat /\ in_flight_ <= Depth /\ Depth \in Nat
            /\ Len(sq) \in Nat /\ Cardinality(kernel) \in Nat
        BY <1>0, NumberFacts
      <4> QED
        BY <1>3, <3>1, <3>2, <4>1
  <2>3. reaped' \subseteq 1 .. MaxRequests
    <3>1. Elements(got) \subseteq 1 .. MaxRequests /\ Elements(Drained) \subseteq 1 .. MaxRequests
      BY <1>0, <1>5, TypeFacts, ElementFacts
    <3> QED
      BY <1>0, <1>1, <3>1 DEF TypeOK
  <2>4. got' \in Seq(1 .. MaxRequests) /\ min' \in 0 .. MaxMin /\ room' \in 0 .. MaxRoom
    BY <1>1, BoundsAssumption
  <2>5. cq' \in Seq(1 .. MaxRequests) /\ pc' \in {"idle", "wait"} /\ outcome' \in {"ok", "error"}
    BY <1>1, <1>5
  <2> QED
    BY <1>0, <2>1, <2>2, <2>3, <2>4, <2>5 DEF TypeOK
<1>12. Apart'
  <2>1. UNCHANGED <<sq, kernel, issued>>
    BY <1>1
  <2>2. Elements(cq') \cap (Elements(sq') \cup kernel') = {} /\ Elements(sq') \cap kernel' = {}
    BY <1>0, <1>7, <2>1 DEF Apart
  <2>3. Elements(Drained) \subseteq Held
    BY <1>5 DEF Held
  <2>4. reaped' \cap (Held' \cup Elements(got')) = {}
    BY <1>0, <1>1, <1>8, <1>9 DEF Apart
  <2>5. Held' \cup Elements(got') \cup reaped' \subseteq 1 .. issued'
    BY <1>0, <1>1, <1>8, <1>9, <2>1, <2>3 DEF Apart
  <2>6. Distinct(sq') /\ Distinct(cq') /\ Distinct(got')
    BY <1>0, <1>1, <1>5, <1>8, <2>1 DEF Apart, Distinct
  <2> QED
    BY <1>8, <2>2, <2>4, <2>5, <2>6 DEF Apart
<1>13. Call'
  BY <1>1, <1>8 DEF Call, Clamped, Smaller
<1> QED
  BY <1>1, <1>3, <1>5, <1>6, <1>9, <1>10, <1>11, <1>12, <1>13 DEF IInv

(* The kernel completes a read.                                            *)
LEMMA KernelFacts ==
  ASSUME IInv, NEW r \in kernel, KernelCompletes(r)
  PROVE  IInv' /\ Held' = Held /\ UNCHANGED <<reaped, issued, got, pc, min, room, outcome>>
<1>0. TypeOK /\ InFlightExact /\ Apart /\ Call
  BY DEF IInv
<1>1. /\ kernel' = kernel \ {r} /\ cq' = Append(cq, r)
      /\ UNCHANGED <<sq, in_flight_, pc, min, room, got, outcome, issued, reaped>>
  BY DEF KernelCompletes
<1>2. /\ r \in 1 .. MaxRequests /\ r \notin Elements(cq)
      /\ cq \in Seq(1 .. MaxRequests) /\ Distinct(cq)
  BY <1>0, TypeFacts DEF Apart, TypeOK
<1>3. /\ cq' \in Seq(1 .. MaxRequests) /\ Len(cq') = Len(cq) + 1 /\ Distinct(cq')
      /\ Elements(cq') = Elements(cq) \cup {r}
  <2> DEFINE R == 1 .. MaxRequests
  <2>1. r \in R /\ cq \in Seq(R)
    BY <1>2
  <2> HIDE DEF R
  <2>2. /\ Append(cq, r) \in Seq(R) /\ Len(Append(cq, r)) = Len(cq) + 1
        /\ Distinct(Append(cq, r)) /\ Elements(Append(cq, r)) = Elements(cq) \cup {r}
    BY <1>2, <2>1, AddFacts
  <2> QED
    BY <1>1, <2>2 DEF R
<1>4. Cardinality(kernel') = Cardinality(kernel) - 1
  BY <1>0, <1>1, TypeFacts, FS_RemoveElement
<1>5. UNCHANGED <<sq, in_flight_, pc, min, room, got, outcome, issued, reaped>>
  BY <1>1
<1>6. TypeOK'
  <2>1. kernel' \subseteq 1 .. MaxRequests
    BY <1>0, <1>1 DEF TypeOK
  <2> QED
    BY <1>0, <1>3, <1>5, <2>1 DEF TypeOK
<1>7. InFlightExact'
  <2>1. in_flight_ = Len(sq) + Cardinality(kernel) + Len(cq)
    BY <1>0 DEF InFlightExact
  <2> QED
    <3>1. in_flight_ \in Nat /\ Len(sq) \in Nat /\ Len(cq) \in Nat /\ Cardinality(kernel) \in Nat
      BY <1>0, NumberFacts
    <3>2. Len(sq') = Len(sq) /\ in_flight_' = in_flight_
      BY <1>5
    <3>3. in_flight_' = Len(sq') + Cardinality(kernel') + Len(cq')
      BY <1>3, <1>4, <2>1, <3>1, <3>2
    <3> QED
      BY <3>3 DEF InFlightExact
<1>8. Held' = Held
  BY <1>1, <1>3, <1>5 DEF Held
<1>9. Apart'
  <2>1. Elements(cq') \cap (Elements(sq') \cup kernel') = {} /\ Elements(sq') \cap kernel' = {}
    BY <1>0, <1>1, <1>3, <1>5 DEF Apart
  <2> QED
    BY <1>0, <1>3, <1>5, <1>8, <2>1 DEF Apart
<1>10. Call'
  BY <1>0, <1>5 DEF Call, Clamped
<1> QED
  BY <1>5, <1>6, <1>7, <1>8, <1>9, <1>10 DEF IInv

(* A reap starts with nothing taken.                                       *)
LEMMA BeginFacts ==
  ASSUME IInv, NEW m \in 0 .. MaxMin, NEW size \in 0 .. MaxRoom, BeginReap(m, size)
  PROVE  /\ IInv'
         /\ pc = "idle" /\ pc' = "wait"
         /\ Held' \cup Elements(got') = Held \cup Elements(got)
         /\ UNCHANGED <<reaped, issued, outcome>>
<1>0. TypeOK /\ InFlightExact /\ Apart /\ Call
  BY DEF IInv
<1>1. /\ pc = "idle" /\ pc' = "wait" /\ min' = m /\ room' = size
      /\ UNCHANGED <<sq, kernel, cq, in_flight_, outcome, issued, reaped, got>>
  BY <1>0 DEF BeginReap, Call
<1>2. got' = <<>> /\ Len(got') = 0
  BY DEF BeginReap
<1>3. TypeOK'
  BY <1>0, <1>1 DEF TypeOK
<1>4. Held' = Held
  BY <1>1 DEF Held
<1>5. Apart'
  BY <1>0, <1>1, <1>4 DEF Apart
<1>6. Call'
  BY <1>1, <1>2, BoundsAssumption DEF Call, Clamped, Smaller
<1>7. InFlightExact'
  BY <1>0, <1>1 DEF InFlightExact
<1> QED
  BY <1>1, <1>3, <1>4, <1>5, <1>6, <1>7 DEF IInv

(* A submission, whatever part of it the kernel takes.                     *)
LEMMA SubmitStep ==
  ASSUME TypeOK, NEW n \in 1 .. MaxRequests, Submit(n) \/ SubmitFaulty(n)
  PROVE  \E taken \in 0 .. Len(sq) + n : SubmitTaking(n, taken)
<1>1. Len(sq) \in Nat /\ n \in Nat
  BY NumberFacts
<1>2. Len(sq) + n \in 0 .. Len(sq) + n
  BY <1>1
<1>3. \A taken \in 0 .. Len(sq) + n - 1 : taken \in 0 .. Len(sq) + n
  BY <1>1
<1> QED
  BY <1>2, <1>3 DEF Submit, SubmitFaulty

(* Every step moves requests from one place to the next.                   *)
LEMMA NextIInv == IInv /\ [Next]_vars => IInv'
<1> SUFFICES ASSUME IInv, [Next]_vars PROVE IInv'
  OBVIOUS
<1>1. TypeOK
  BY DEF IInv
<1>2. CASE UNCHANGED vars
  <2>1. UNCHANGED <<sq, kernel, cq, in_flight_, pc, min, room, got, outcome, issued, reaped>>
    BY <1>2 DEF vars
  <2>2. TypeOK' /\ InFlightExact'
    BY <2>1 DEF IInv, TypeOK, InFlightExact
  <2>3. Apart' /\ Call'
    BY <2>1 DEF IInv, Apart, Call, Held, Clamped
  <2> QED
    BY <2>2, <2>3 DEF IInv
<1> QED
  BY <1>1, <1>2, SubmitStep, SubmitFacts, WaitFacts, WaitFailsFacts, EndReapFacts, KernelFacts,
     BeginFacts
  DEF Next, Caller, Reaping, Kernel

-----------------------------------------------------------------------------
(* The contract.                                                            *)

\* What the contract calls in flight.
Pending == Held \cup Elements(got)

(* The contract counts with the same Cardinality.                          *)
LEMMA SameCardinality ==
  ASSUME NEW S
  PROVE  Contract!Cardinality(S) = Cardinality(S)
BY DEF Cardinality, Contract!Cardinality, IsFiniteSet, Contract!IsFiniteSet

\* The requests in the ring are as many as in_flight_ says.
LEMMA PendingFacts ==
  ASSUME IInv
  PROVE  /\ IsFiniteSet(Pending)
         /\ Cardinality(Pending) = in_flight_ + Len(got)
<1>0. TypeOK /\ InFlightExact /\ Apart
  BY DEF IInv
<1>1. IsFiniteSet(Elements(sq)) /\ Cardinality(Elements(sq)) = Len(sq)
  BY <1>0, TypeFacts, DistinctFacts DEF Apart
<1>2. IsFiniteSet(Elements(cq)) /\ Cardinality(Elements(cq)) = Len(cq)
  BY <1>0, TypeFacts, DistinctFacts DEF Apart
<1>3. IsFiniteSet(Elements(got)) /\ Cardinality(Elements(got)) = Len(got)
  BY <1>0, TypeFacts, DistinctFacts DEF Apart
<1>4. ASSUME NEW A, NEW B, IsFiniteSet(A), IsFiniteSet(B), A \cap B = {}
      PROVE  IsFiniteSet(A \cup B) /\ Cardinality(A \cup B) = Cardinality(A) + Cardinality(B)
  <2>1. /\ IsFiniteSet(A \cup B)
        /\ Cardinality(A \cup B) = Cardinality(A) + Cardinality(B) - Cardinality(A \cap B)
    BY <1>4, FS_Union
  <2>2. Cardinality(A \cap B) = 0 /\ Cardinality(A) \in Nat /\ Cardinality(B) \in Nat
    BY <1>4, FS_EmptySet, FS_CardinalityType
  <2> QED
    BY <2>1, <2>2
<1> DEFINE early == Elements(sq) \cup kernel
<1>5. IsFiniteSet(early) /\ Cardinality(early) = Len(sq) + Cardinality(kernel)
  BY <1>0, <1>1, <1>4, TypeFacts DEF Apart
<1>6. Elements(cq) \cap early = {} /\ Held = early \cup Elements(cq)
  BY <1>0 DEF Apart, Held
<1> HIDE DEF early
<1>7. IsFiniteSet(Held) /\ Cardinality(Held) = Cardinality(early) + Len(cq)
  <2>1. early \cap Elements(cq) = {}
    BY <1>6
  <2> QED
    BY <1>2, <1>4, <1>5, <1>6, <2>1
<1>8. Held \cap Elements(got) = {}
  BY <1>0 DEF Apart
<1>9. IsFiniteSet(Pending) /\ Cardinality(Pending) = Cardinality(Held) + Len(got)
  BY <1>3, <1>4, <1>7, <1>8 DEF Pending
<1> QED
  BY <1>0, <1>5, <1>7, <1>9 DEF InFlightExact

(* The initial states are the contract's.                                  *)
LEMMA InitContract == Init => Contract!Init
<1> SUFFICES ASSUME Init PROVE Contract!Init
  OBVIOUS
<1>1. Elements(<<>>) = {}
  BY DEF Elements
<1>2. Held \cup Elements(got) = {}
  BY <1>1 DEF Init, Held
<1>3. Lost = {}
  BY DEF Init, Lost
<1> QED
  BY <1>2, <1>3 DEF Init, Contract!Init, Contract!NoCall

\* What a reap under way has to return to succeed, and may not reach to fail.
Due == IF min <= 1 THEN Contract!Owed ELSE Contract!OwedEarly

\* What the contract leaves of a step, by the `min' it starts in.
Kept == IF min <= 1 THEN Contract!Next ELSE Contract!EarlyNext

(* The three ways to take a step of the contract.                          *)
LEMMA KeptFacts ==
  /\ Contract!Between => Kept
  /\ Contract!EndReap(reaped' \ reaped, Due) => Kept
  /\ Contract!FailReap(Lost' \ Lost, Due) /\ (min <= 1 => Lost' \ Lost = {}) => Kept
<1>1. Contract!Between => Kept
  BY DEF Kept, Contract!Next, Contract!EarlyNext
<1>2. Contract!EndReap(reaped' \ reaped, Due) => Kept
  BY DEF Kept, Due, Contract!Next, Contract!EarlyNext
<1>3. Contract!FailReap(Lost' \ Lost, Due) /\ (min <= 1 => Lost' \ Lost = {}) => Kept
  BY DEF Kept, Due, Contract!Next, Contract!EarlyNext
<1> QED
  BY <1>1, <1>2, <1>3

(* Nothing is lost while what is pending or handed back stays the same.    *)
LEMMA LostKept ==
  ASSUME Pending' \cup reaped' = Pending \cup reaped, issued' = issued
  PROVE  Lost' = Lost
<1>1. Lost = (1 .. issued) \ (Pending \cup reaped)
  BY DEF Lost, Pending
<1>2. Lost' = (1 .. issued') \ (Pending' \cup reaped')
  BY DEF Lost, Pending
<1> QED
  BY <1>1, <1>2, Zenon

(* `Due' in numbers: with g completions taken and f more in flight, a wait  *)
(* goes on only while g is below it and ends only when g has reached it.    *)
LEMMA DueFacts ==
  ASSUME IInv
  PROVE  /\ Due \in Nat
         /\ MustWait => Len(got) < Due
         /\ ~MustWait => Len(got) >= Due
<1>0. TypeOK /\ Call
  BY DEF IInv
<1>1. /\ min \in Nat /\ room \in Nat /\ in_flight_ \in Nat /\ Len(got) \in Nat
  BY <1>0, NumberFacts
<1>2. Contract!Cardinality(Pending) = in_flight_ + Len(got)
  BY PendingFacts, SameCardinality
<1>3. Contract!Wanted = Clamped /\ Clamped \in Nat /\ (min <= 1 => Clamped <= 1)
  BY <1>1 DEF Contract!Wanted, Contract!Lowest, Clamped, Smaller
<1>4. PICK w \in Nat, f \in Nat, g \in Nat : w = Clamped /\ f = in_flight_ /\ g = Len(got)
  BY <1>1, <1>3
<1>5. Contract!Owed = Smaller(w, f + g)
  BY <1>2, <1>3, <1>4 DEF Contract!Owed, Contract!Lowest, Smaller, Pending
<1>6. Contract!OwedEarly = Smaller(w, (f + g + 1) \div 2)
  BY <1>2, <1>3, <1>4 DEF Contract!OwedEarly, Contract!Lowest, Smaller, Pending
<1>7. MustWait <=> g < w /\ g < f
  BY <1>4 DEF MustWait
<1>8. CASE min <= 1
  <2>1. Due = Smaller(w, f + g) /\ w <= 1
    BY <1>3, <1>4, <1>5, <1>8 DEF Due
  <2> QED
    BY <1>4, <1>7, <2>1 DEF Smaller
<1>9. CASE ~(min <= 1)
  <2>1. Due = Smaller(w, (f + g + 1) \div 2)
    BY <1>6, <1>9 DEF Due
  <2>2. PICK h \in Nat : h = (f + g + 1) \div 2 /\ 2 * h <= f + g + 1 /\ f + g + 1 <= 2 * h + 1
    OBVIOUS
  <2>3. Due = Smaller(w, h)
    BY <2>1, <2>2
  <2>4. (g < f => g < h) /\ (~(g < f) => g >= h)
    BY <2>2
  <2> QED
    BY <1>4, <1>7, <2>3, <2>4 DEF Smaller
<1> QED
  BY <1>8, <1>9

(* Every step is a step of the contract, or changes nothing it sees.       *)
LEMMA NextContract ==
  IInv /\ [Next]_vars
    => [IF min <= 1 THEN Contract!Next ELSE Contract!EarlyNext]_(Contract!vars)
<1> SUFFICES ASSUME IInv, [Next]_vars, ~UNCHANGED Contract!vars
             PROVE  Kept
  BY DEF Kept
<1>0. TypeOK /\ InFlightExact /\ Apart /\ Call
  BY DEF IInv
<1>1. ASSUME NEW n \in 1 .. MaxRequests, NEW taken \in 0 .. Len(sq) + n, SubmitTaking(n, taken)
      PROVE  Kept
  <2>1. /\ IInv' /\ Held' = Held \cup (issued + 1 .. issued')
        /\ pc = "idle" /\ got = <<>> /\ in_flight_ + n <= Depth /\ issued' = issued + n
        /\ in_flight_' = in_flight_ + n
        /\ UNCHANGED <<cq, pc, min, room, got, outcome, reaped>>
    BY <1>1, SubmitFacts
  <2>2. Cardinality(Pending') = in_flight_' + Len(got')
    <3>1. (IInv => Cardinality(Pending) = in_flight_ + Len(got))'
      BY PendingFacts, PTL
    <3> QED
      BY <2>1, <3>1
  <2>3. n \in Nat
    OBVIOUS
  <2>4. /\ Pending' = Pending \cup (Pending' \ Pending)
        /\ (Pending' \ Pending) \cap (Pending \cup reaped \cup Lost) = {}
        /\ Lost' = Lost
    <3> DEFINE X == Pending \cup reaped
               new == issued + 1 .. issued + n
    <3>1. issued \in Nat /\ X \in SUBSET (1 .. issued)
      BY <1>0, NumberFacts DEF Apart, Pending
    <3>2. (1 .. issued) \in SUBSET (1 .. issued)
      OBVIOUS
    <3>3. new \cap (1 .. issued) = {} /\ new \cap X = {}
      BY <2>3, <3>1, <3>2, NewNumbers
    <3>4. 1 .. issued + n = (1 .. issued) \cup new
      BY <2>3, <3>1
    <3>5. Held' = Held \cup new /\ got' = got /\ reaped' = reaped /\ issued' = issued + n
      BY <2>1
    <3> HIDE DEF new
    <3>6. Pending' = Pending \cup new
      BY <3>5 DEF Pending
    <3>7. Lost = (1 .. issued) \ X /\ Lost' = (1 .. issued + n) \ (Pending' \cup reaped)
      BY <3>5 DEF Lost, Pending
    <3> QED
      BY <3>3, <3>4, <3>6, <3>7
  <2>5. Contract!Cardinality(Pending \cup (Pending' \ Pending)) <= Depth
    <3>1. Cardinality(Pending') <= Depth
      <4>1. Len(got') = 0
        BY <2>1
      <4> QED
        BY <1>0, <2>1, <2>2, <2>3, <4>1, TypeFacts
    <3>2. Pending \cup (Pending' \ Pending) = Pending'
      BY <2>4
    <3> QED
      BY <3>1, <3>2, SameCardinality
  <2>6. /\ ~[min |-> min, room |-> room, active |-> pc = "wait"].active
        /\ UNCHANGED [min |-> min, room |-> room, active |-> pc = "wait"]
    BY <2>1
  <2>7. Contract!Submit(Pending' \ Pending)
    BY <2>1, <2>4, <2>5, <2>6, Zenon DEF Contract!Submit, Pending
  <2> QED
    BY <2>7, KeptFacts DEF Contract!Between, Pending
<1>2. ASSUME NEW m \in 0 .. MaxMin, NEW size \in 0 .. MaxRoom, BeginReap(m, size)
      PROVE  Kept
  <2>1. pc = "idle" /\ pc' = "wait" /\ UNCHANGED <<reaped, issued, outcome>>
        /\ Held' \cup Elements(got') = Held \cup Elements(got)
    BY <1>2, BeginFacts
  <2>2. Lost' = Lost
    BY <2>1, LostKept DEF Pending
  <2> QED
    BY <2>1, <2>2, KeptFacts DEF Contract!Between, Contract!BeginReap
<1>3. CASE WaitCqe
  <2>1. /\ Held' \cup Elements(got') = Held \cup Elements(got)
        /\ UNCHANGED <<reaped, issued, pc, min, room, outcome>>
    BY <1>3, WaitFacts
  <2>2. Lost' = Lost
    BY <2>1, LostKept DEF Pending
  <2> QED
    BY <2>1, <2>2 DEF Contract!vars
<1>4. CASE WaitFails
  <2> DEFINE dropped == Elements(got)
  <2>1. /\ MustWait /\ pc = "wait" /\ pc' = "idle" /\ got' = <<>> /\ min' = 0 /\ room' = 0
        /\ outcome' = "error" /\ UNCHANGED <<sq, kernel, cq, issued, reaped>>
    BY <1>4 DEF WaitFails
  <2>2. /\ dropped \cap Held = {} /\ dropped \cap reaped = {} /\ dropped \subseteq 1 .. issued
    BY <1>0 DEF Apart
  <2>3. Elements(got') = {} /\ Held' = Held
    BY <2>1 DEF Elements, Held
  <2>4. Lost = (1 .. issued) \ (Held \cup dropped \cup reaped) /\ Lost' = (1 .. issued) \ (Held \cup reaped)
    BY <2>1, <2>3 DEF Lost
  <2>5. /\ Pending = Held \cup dropped /\ Pending' = Held
    BY <2>3 DEF Pending
  <2>6. Cardinality(dropped) = Len(got)
    BY <1>0, TypeFacts, DistinctFacts DEF Apart
  <2>7. Len(got) < Due
    BY <2>1, DueFacts
  <2>8. min <= 1 => dropped = {}
    <3>1. min \in Nat /\ room \in Nat /\ Len(got) \in Nat
      BY <1>0, NumberFacts
    <3>2. min <= 1 => Len(got) = 0
      BY <2>1, <3>1 DEF MustWait, Clamped, Smaller
    <3>3. Elements(<<>>) = {} /\ (Len(got) = 0 => got = <<>>)
      BY <1>0, TypeFacts DEF Elements
    <3> QED
      BY <3>2, <3>3
  <2> HIDE DEF dropped
  <2>9. /\ Lost' \ Lost = dropped /\ Lost' = Lost \cup dropped
        /\ Pending' = Pending \ dropped /\ dropped \subseteq Pending
    BY <2>2, <2>4, <2>5
  <2>10. Contract!Cardinality(dropped) < Due
    BY <2>6, <2>7, SameCardinality DEF dropped
  <2>11. /\ [min |-> min, room |-> room, active |-> pc = "wait"].active
         /\ [min |-> min, room |-> room, active |-> pc = "wait"]'
              = [min |-> 0, room |-> 0, active |-> FALSE]
    BY <2>1
  <2>12. Contract!FailReap(dropped, Due)
    BY <2>1, <2>9, <2>10, <2>11, Zenon DEF Contract!FailReap, Contract!NoCall, Pending
  <2> QED
    BY <2>8, <2>9, <2>12, KeptFacts
<1>5. CASE EndReap
  <2> DEFINE back == Elements(got) \cup Elements(Drained)
  <2>1. /\ Peeked \in Nat /\ Peeked <= room - Len(got)
        /\ Elements(Drained) \subseteq Elements(cq)
        /\ IsFiniteSet(Elements(Drained)) /\ Cardinality(Elements(Drained)) = Peeked
        /\ reaped' = reaped \cup back
        /\ Held' = Held \ Elements(Drained)
        /\ got' = <<>> /\ pc = "wait" /\ pc' = "idle" /\ min' = 0 /\ room' = 0
        /\ outcome' = "ok" /\ issued' = issued
    BY <1>5, EndReapFacts
  <2>2. IsFiniteSet(Elements(got)) /\ Cardinality(Elements(got)) = Len(got)
    BY <1>0, TypeFacts, DistinctFacts DEF Apart
  <2>3. Elements(got) \cap Elements(Drained) = {} /\ Elements(got') = {}
    <3>1. Elements(got) \cap Elements(Drained) = {}
      BY <1>0, <2>1 DEF Apart, Held
    <3>2. Elements(<<>>) = {}
      BY DEF Elements
    <3> QED
      BY <2>1, <3>1, <3>2
  <2>4. Cardinality(back) = Len(got) + Peeked
    <3>1. Cardinality(back) = Len(got) + Peeked - Cardinality(Elements(got) \cap Elements(Drained))
      BY <2>1, <2>2, FS_Union
    <3>2. Cardinality(Elements(got) \cap Elements(Drained)) = 0
      BY <2>3, FS_EmptySet
    <3> QED
      BY <1>0, <2>1, <3>1, <3>2, TypeFacts
  <2>5. back \subseteq Pending /\ Pending' = Pending \ back
    BY <1>0, <2>1, <2>3 DEF Pending, Apart, Held
  <2>6. reaped' \ reaped = back
    BY <1>0, <2>1, <2>5 DEF Pending, Apart
  <2>7. Lost' = Lost
    <3>1. Pending' \cup reaped' = Pending \cup reaped
      BY <2>1, <2>5
    <3> QED
      BY <2>1, <3>1, LostKept
  <2>8. Contract!Cardinality(back) <= room /\ Contract!Cardinality(back) >= Due
    <3>1. Len(got) \in Nat /\ room \in Nat
      BY <1>0, NumberFacts
    <3>2. Len(got) >= Due /\ Due \in Nat
      BY <1>5, DueFacts DEF EndReap
    <3>3. Contract!Cardinality(back) = Len(got) + Peeked
      BY <2>4, SameCardinality
    <3> QED
      BY <2>1, <3>1, <3>2, <3>3
  <2> HIDE DEF back
  <2>9. /\ [min |-> min, room |-> room, active |-> pc = "wait"].active
        /\ Contract!Cardinality(back) <= [min |-> min, room |-> room, active |-> pc = "wait"].room
        /\ [min |-> min, room |-> room, active |-> pc = "wait"]'
             = [min |-> 0, room |-> 0, active |-> FALSE]
    BY <2>1, <2>8
  <2>10. Contract!EndReap(back, Due)
    BY <2>1, <2>5, <2>7, <2>8, <2>9, Zenon DEF Contract!EndReap, Contract!NoCall, Pending
  <2> QED
    BY <2>6, <2>10, KeptFacts
<1>6. ASSUME NEW r \in kernel, KernelCompletes(r) PROVE FALSE
  <2>1. Held' = Held /\ UNCHANGED <<reaped, issued, got, pc, min, room, outcome>>
    BY <1>6, KernelFacts
  <2>2. Lost' = Lost
    BY <2>1, LostKept DEF Pending
  <2> QED
    BY <2>1, <2>2 DEF Contract!vars
<1>7. CASE UNCHANGED vars
  <2>1. UNCHANGED <<sq, kernel, cq, got, outcome, issued, reaped, pc, min, room>>
    BY <1>7 DEF vars
  <2> QED
    BY <2>1 DEF Contract!vars, Held, Lost
<1> QED
  BY <1>0, <1>1, <1>2, <1>3, <1>4, <1>5, <1>6, <1>7, SubmitStep
  DEF Next, Caller, Reaping, Kernel

-----------------------------------------------------------------------------
(* The invariant, and what follows from it.                                 *)

(* The inductive invariant holds in every reachable state.                 *)
LEMMA Invariance == Spec => []IInv
BY InitIInv, NextIInv, PTL DEF Spec

(* Every reachable state of the ring is well typed: in_flight_ never goes   *)
(* below 0 or past the queue depth, whatever the kernel does with a         *)
(* submission.                                                              *)
THEOREM TypeInvariant == Spec => []TypeOK
<1>1. IInv => TypeOK
  BY DEF IInv
<1> QED
  BY <1>1, Invariance, PTL

(* in_flight_ is what the ring holds, after submissions that failed or were *)
(* taken in part and waits that failed: no completion is counted twice and  *)
(* none is forgotten.                                                       *)
THEOREM CountExact == Spec => []InFlightExact
<1>1. IInv => InFlightExact
  BY DEF IInv
<1> QED
  BY <1>1, Invariance, PTL

(* The ring keeps the contract of Backend in every reap that asks for at    *)
(* most one completion, as ShardStream's do, whatever the other reaps ask   *)
(* for; in those a success returns at least the half OwedEarly says, and a  *)
(* failure loses fewer completions than that.                               *)
THEOREM KeepsContract == Spec => ImplementsBackend
BY Invariance, InitContract, NextContract, PTL DEF Spec, ImplementsBackend
=============================================================================
